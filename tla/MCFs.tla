-------------------------------- MODULE MCFs --------------------------------
(* Fs for TLC: what the processes do. *)
EXTENDS Fs

CONSTANTS nx, ny, nd  \* names

Does(op, at) == [op |-> op, path |-> at]
Opens(at, write) == [op |-> "open", path |-> at, write |-> write]
Links(old, new) == [op |-> "link", path |-> old, new |-> new]
Chmods(at, mode) == [op |-> "chmod", path |-> at, mode |-> mode]
Closes == [op |-> "close"]
Writes == [op |-> "write"]

MCScripts ==
    {<<Does("create", <<nx>>), Writes, Does("unlink", <<nx>>), Closes>>,
     <<Links(<<nx>>, <<"/", ny>>), Does("unlink", <<nx>>), Does("unlink", <<"/", ny>>)>>,
     <<Does("mkdir", <<nd>>), Does("create", <<nd, ny>>), Does("unlink", <<nd>>), Writes>>,
     <<Does("chdir", <<nd>>), Does("unlink", <<"/", nd>>), Does("create", <<"..", ny>>)>>,
     <<Does("mkdir", <<nd>>), Does("mkdir", <<nd, ny>>), Does("unlink", <<nd, ny>>), Does("unlink", <<nd>>)>>,
     <<Opens(<<nd>>, FALSE), Does("unlink", <<nd, ny>>), Does("mkdir", <<ny>>), Closes>>,
     <<Chmods(<<nx>>, {"r"}), Opens(<<nx>>, TRUE), Does("unlink", <<nx>>), Does("mknod", <<nd>>), Writes>>,
     <<Opens(<<nx>>, TRUE), Does("chdir", <<nx>>), Links(<<nx>>, <<nd, ny>>), Opens(<<nd>>, TRUE), Writes>>}
=============================================================================
