---------------------------- MODULE MCWebConsole ----------------------------
(***************************************************************************)
(* The front ends of the web interface that reach targets: file manager,   *)
(* terminals and SQL console.  They run in one process but share no state  *)
(* with each other, so each behaviour uses one of them: `front' says which.*)
(***************************************************************************)
EXTENDS FileManager, WebTerminal, SqlConsole, TLC

VARIABLE front

mcVars == <<front, fileVars, termVars, sqlVars>>

MCOwner == [k \in FileKeys |-> "alice"]

MCSqls == {<<"SELECT", "OTHER">>, <<"WRITE">>, <<"SELECT", "WRITE">>, <<>>}

\* Two SSH terminals compete for a slot; a database terminal is on its own.
MCKinds == {[t \in Terms |-> "ssh"], [t \in Terms |-> IF t = "t1" THEN "db" ELSE "unused"]}

MCInit ==
    /\ front \in {"files", "terms", "sql"}
    /\ fileOps = ("r1" :> Ops @@ "r2" :> {"list"})
    /\ kind \in IF front = "terms" THEN MCKinds ELSE {[t \in Terms |-> "unused"]}
    /\ FilesInit /\ TermInit /\ SqlInit

MCNext ==
    \/ front = "files" /\ FilesNext /\ UNCHANGED <<front, termVars, sqlVars>>
    \/ front = "terms" /\ TermNext /\ UNCHANGED <<front, fileVars, sqlVars>>
    \/ front = "sql" /\ SqlNext /\ UNCHANGED <<front, fileVars, termVars>>

MCSpec == MCInit /\ [][MCNext]_mcVars /\ FilesFairness /\ TermFairness
=============================================================================
