---------------------------- MODULE MCVaultStore ----------------------------
(* Commands and requests for small instances of VaultStore.                *)
EXTENDS VaultStore, TLC

Cmd(op, edit) == [op |-> op, edit |-> edit]
NoEdit == [n \in {} |-> None]

(* Each way to set one name, to set all of them, to delete one.            *)
Sets == UNION {[{n} -> Value] : n \in Name}
SetsAll == [Name -> Value]
Deletes == {[x \in {n} |-> None] : n \in Name}

WritingCommands ==
    {Cmd("init", NoEdit), Cmd("unlock", NoEdit), Cmd("recover", NoEdit)}
        \cup {Cmd("add", e) : e \in Sets}
        \cup {Cmd("delete", e) : e \in Deletes}

AllCommands ==
    WritingCommands \cup {Cmd("read", NoEdit)}
        \cup {Cmd("import", e) : e \in SetsAll}

DaemonRequests == Sets \cup Deletes

Symmetry == Permutations(Proc) \cup Permutations(Name) \cup Permutations(Value)
=============================================================================
