---------------------------- MODULE SessionProofs ----------------------------
(***************************************************************************)
(* Theorems about the sessions of the gateway: their registration, for any *)
(* sessions, pairs and bounds (SessionRegistry), and what a session of the *)
(* two database proxies does, for any statements, any number of messages,  *)
(* commands and authentication rounds, and any idle timeout (PostgresProxy *)
(* and MySqlProxy).                                                        *)
(*                                                                         *)
(* The inductive invariant of the registry is IndInv: the types, the rows  *)
(* in step with the table of sessions (RowInv), the scans within it        *)
(* (ScanInv), and what a login has written by the place it is at           *)
(* (RecordInv).  Each proxy is proved about on its own; a behaviour of     *)
(* MCDbProxy is one of both.                                               *)
(***************************************************************************)
EXTENDS SessionRegistry, MCDbProxy, FiniteSetTheorems, SequenceTheorems, TLAPS

-----------------------------------------------------------------------------
(* The registry of live sessions. *)

\* Every step keeps the types.
LEMMA NextTypeOK ==
    ASSUME TypeOK, [Next]_vars
    PROVE  TypeOK'
<1> USE RegistryAssumption DEF TypeOK, Places, Sessions, Goto, vars, session, tasks
<1>1. ASSUME NEW s \in Sessions, register_session(s) PROVE TypeOK'
  BY <1>1 DEF register_session, Streams
<1>2. ASSUME NEW s \in Sessions, WrapLock(s) PROVE TypeOK'
  BY <1>2 DEF WrapLock
<1>3. ASSUME NEW s \in Sessions, WrapStream(s) PROVE TypeOK'
  BY <1>3 DEF WrapStream, Streams
<1>4. ASSUME NEW s \in Sessions, NEW pair \in Pairs, Authorize(s, pair) PROVE TypeOK'
  BY <1>4 DEF Authorize
<1>5. ASSUME NEW s \in Sessions, set_user_info(s) PROVE TypeOK'
  <2>1. rowTarget' \in [Sessions -> BOOLEAN]
    BY <1>5, Zenon DEF set_user_info
  <2>2. info' \in [Sessions -> SUBSET {"user", "target"}]
    BY <1>5 DEF set_user_info
  <2>3. /\ pc' \in [Sessions -> Places]
        /\ row' \in [Sessions -> {"none", "open", "ended"}] /\ faults' \in 0..MaxFaults
    BY <1>5 DEF set_user_info, Fault, OrIgnored, AfterUser
  <2> QED BY <1>5, <2>1, <2>2, <2>3 DEF set_user_info
<1>6. ASSUME NEW s \in Sessions, set_target(s) PROVE TypeOK'
  <2>1. rowTarget' \in [Sessions -> BOOLEAN]
    BY <1>6, Zenon DEF set_target
  <2>2. info' \in [Sessions -> SUBSET {"user", "target"}]
    BY <1>6 DEF set_target
  <2>3. pc' \in [Sessions -> Places] /\ faults' \in 0..MaxFaults
    BY <1>6 DEF set_target, Fault, OrIgnored, AfterTarget
  <2> QED BY <1>6, <2>1, <2>2, <2>3 DEF set_target
<1>7. ASSUME NEW s \in Sessions, LimitLock(s) PROVE TypeOK'
  BY <1>7 DEF LimitLock
<1>8. ASSUME NEW s \in Sessions, update_rate_limiters(s) PROVE TypeOK'
  BY <1>8 DEF update_rate_limiters, Fault, PartlyLimited, OrIgnored, AfterLimit, Streams
<1>9. ASSUME NEW s \in Sessions, NoTarget(s) PROVE TypeOK'
  BY <1>9 DEF NoTarget
<1>10. ASSUME NEW s \in Sessions, Leave(s) PROVE TypeOK'
  BY <1>10 DEF Leave
<1>11. ASSUME NEW s \in Sessions, Closed(s) PROVE TypeOK'
  BY <1>11 DEF Closed
<1>12. ASSUME NEW s \in Sessions, remove_session(s) PROVE TypeOK'
  BY <1>12 DEF remove_session, MarkComplete, Fault, StateFree
<1>13. ASSUME NEW pair \in Pairs, Revoke(pair) PROVE TypeOK'
  BY <1>13 DEF Revoke
<1>14. ASSUME NEW pair \in Pairs, SsoRevoke(pair) PROVE TypeOK'
  BY <1>14 DEF SsoRevoke
<1>15. ASSUME NEW pair \in Pairs, Grant(pair) PROVE TypeOK'
  BY <1>15 DEF Grant
<1>16. CASE Wake
  BY <1>16 DEF Wake
<1>17. CASE Reload
  BY <1>17 DEF Reload
<1>18. CASE RevalBegin
  BY <1>18 DEF RevalBegin
<1>19. ASSUME NEW s \in Sessions, RevalCheck(s) PROVE TypeOK'
  BY <1>19 DEF RevalCheck, Fault, Known
<1>20. CASE RevalEnd
  BY <1>20 DEF RevalEnd
<1>21. CASE RefreshBegin
  BY <1>21 DEF RefreshBegin, RegistryFree
<1>22. CASE RefreshLock
  BY <1>22 DEF RefreshLock, StateFree
<1>23. ASSUME NEW s \in Sessions, RefreshOne(s) PROVE TypeOK'
  BY <1>23 DEF RefreshOne, Fault, PartlyLimited, Streams
<1>24. CASE RefreshEnd
  BY <1>24 DEF RefreshEnd
<1>25. CASE ShutBegin
  BY <1>25 DEF ShutBegin
<1>26. ASSUME NEW s \in Sessions, ShutClose(s) PROVE TypeOK'
  BY <1>26 DEF ShutClose
<1>27. CASE ShutDone
  BY <1>27 DEF ShutDone
<1>28. CASE UNCHANGED vars
  BY <1>28
<1>29. ASSUME NEW op \in {"close", "terminate"}, NEW todo \in SUBSET sessions,
              ApiBegin(op, todo)
       PROVE  TypeOK'
  BY <1>29 DEF ApiBegin
<1>30. ASSUME NEW s \in Sessions, ApiClose(s) PROVE TypeOK'
  BY <1>30 DEF ApiClose, MarkComplete, Fault
<1> QED BY <1>1, <1>2, <1>3, <1>4, <1>5, <1>6, <1>7, <1>8, <1>9, <1>10, <1>11, <1>12,
           <1>13, <1>14, <1>15, <1>16, <1>17, <1>18, <1>19, <1>20, <1>21, <1>22,
           <1>23, <1>24, <1>25, <1>26, <1>27, <1>28, <1>29, <1>30
    DEF Next, Outside, SessionStep, RevalStep, RefreshStep, ShutStep, ApiStep

-----------------------------------------------------------------------------
(* The inductive invariant. *)

\* Before its registration a session has no row and is not in the table; the row
\* of one in the table is not ended, and the row of one that was removed is.
RowInv ==
    \A t \in Sessions :
        /\ pc[t] \in {"start", "register"} => row[t] = "none" /\ t \notin sessions
        /\ row[t] = "ended" => t \notin sessions
        /\ row[t] = "open" /\ pc[t] = "removed" => faults > 0

\* Something is left to visit only while the State is held for it, and who holds
\* it for writing holds it alone.
ScanInv ==
    /\ revalTodo \subseteq sessions /\ (revalTodo # {} => reval = "scan")
    /\ refreshTodo \subseteq sessions /\ (refreshTodo # {} => refresh = "each")
    /\ apiTodo \subseteq sessions /\ (apiTodo # {} => api # "idle")
    /\ api # "idle" => reval # "scan" /\ refresh # "each"

\* While the database has not failed, a session whose user is known has a row,
\* which names the target once that is known too, and a live one has both
\* and the limiters of both.
RecordInv ==
    faults = 0 =>
        \A t \in Sessions : pc[t] \notin {"gone", "removed"} =>
            /\ "user" \in info[t] => row[t] # "none"
            /\ info[t] = {"user", "target"} => rowTarget[t]
            /\ pc[t] = "live" => info[t] = {"user", "target"}
            /\ pc[t] = "live" /\ t \in Streams => lim[t] = info[t]

\* Every step keeps the rows in step with the table of sessions.
LEMMA NextRowInv ==
    ASSUME TypeOK, RowInv, [Next]_vars
    PROVE  RowInv'
<1> USE RegistryAssumption DEF TypeOK, Places, Sessions, Goto, vars, session, tasks, RowInv
<1>1. ASSUME NEW s \in Sessions, register_session(s) PROVE RowInv'
  BY <1>1 DEF register_session, Streams
<1>2. ASSUME NEW s \in Sessions, WrapLock(s) PROVE RowInv'
  BY <1>2 DEF WrapLock
<1>3. ASSUME NEW s \in Sessions, WrapStream(s) PROVE RowInv'
  BY <1>3 DEF WrapStream, Streams
<1>4. ASSUME NEW s \in Sessions, NEW pair \in Pairs, Authorize(s, pair) PROVE RowInv'
  BY <1>4 DEF Authorize
<1>5. ASSUME NEW s \in Sessions, set_user_info(s) PROVE RowInv'
  BY <1>5 DEF set_user_info, Fault, OrIgnored, AfterUser
<1>6. ASSUME NEW s \in Sessions, set_target(s) PROVE RowInv'
  BY <1>6 DEF set_target, Fault, OrIgnored, AfterTarget
<1>7. ASSUME NEW s \in Sessions, LimitLock(s) PROVE RowInv'
  BY <1>7 DEF LimitLock
<1>8. ASSUME NEW s \in Sessions, update_rate_limiters(s) PROVE RowInv'
  BY <1>8 DEF update_rate_limiters, Fault, PartlyLimited, OrIgnored, AfterLimit, Streams
<1>9. ASSUME NEW s \in Sessions, NoTarget(s) PROVE RowInv'
  BY <1>9 DEF NoTarget
<1>10. ASSUME NEW s \in Sessions, Leave(s) PROVE RowInv'
  BY <1>10 DEF Leave
<1>11. ASSUME NEW s \in Sessions, Closed(s) PROVE RowInv'
  BY <1>11 DEF Closed
<1>12. ASSUME NEW s \in Sessions, remove_session(s) PROVE RowInv'
  BY <1>12 DEF remove_session, MarkComplete, Fault, StateFree
<1>13. ASSUME NEW pair \in Pairs, Revoke(pair) PROVE RowInv'
  BY <1>13 DEF Revoke
<1>14. ASSUME NEW pair \in Pairs, SsoRevoke(pair) PROVE RowInv'
  BY <1>14 DEF SsoRevoke
<1>15. ASSUME NEW pair \in Pairs, Grant(pair) PROVE RowInv'
  BY <1>15 DEF Grant
<1>16. CASE Wake
  BY <1>16 DEF Wake
<1>17. CASE Reload
  BY <1>17 DEF Reload
<1>18. CASE RevalBegin
  BY <1>18 DEF RevalBegin
<1>19. ASSUME NEW s \in Sessions, RevalCheck(s) PROVE RowInv'
  BY <1>19 DEF RevalCheck, Fault, Known
<1>20. CASE RevalEnd
  BY <1>20 DEF RevalEnd
<1>21. CASE RefreshBegin
  BY <1>21 DEF RefreshBegin, RegistryFree
<1>22. CASE RefreshLock
  BY <1>22 DEF RefreshLock, StateFree
<1>23. ASSUME NEW s \in Sessions, RefreshOne(s) PROVE RowInv'
  BY <1>23 DEF RefreshOne, Fault, PartlyLimited, Streams
<1>24. CASE RefreshEnd
  BY <1>24 DEF RefreshEnd
<1>25. CASE ShutBegin
  BY <1>25 DEF ShutBegin
<1>26. ASSUME NEW s \in Sessions, ShutClose(s) PROVE RowInv'
  BY <1>26 DEF ShutClose
<1>27. CASE ShutDone
  BY <1>27 DEF ShutDone
<1>28. CASE UNCHANGED vars
  BY <1>28
<1>29. ASSUME NEW op \in {"close", "terminate"}, NEW todo \in SUBSET sessions,
              ApiBegin(op, todo)
       PROVE  RowInv'
  BY <1>29 DEF ApiBegin
<1>30. ASSUME NEW s \in Sessions, ApiClose(s) PROVE RowInv'
  BY <1>30 DEF ApiClose, MarkComplete, Fault
<1> QED BY <1>1, <1>2, <1>3, <1>4, <1>5, <1>6, <1>7, <1>8, <1>9, <1>10, <1>11, <1>12,
           <1>13, <1>14, <1>15, <1>16, <1>17, <1>18, <1>19, <1>20, <1>21, <1>22,
           <1>23, <1>24, <1>25, <1>26, <1>27, <1>28, <1>29, <1>30
    DEF Next, Outside, SessionStep, RevalStep, RefreshStep, ShutStep, ApiStep

\* Every step keeps the scans within the table: a removal waits for both.
LEMMA NextScanInv ==
    ASSUME TypeOK, ScanInv, [Next]_vars
    PROVE  ScanInv'
<1> USE RegistryAssumption DEF TypeOK, Places, Sessions, Goto, vars, session, tasks, ScanInv
<1>1. ASSUME NEW s \in Sessions, register_session(s) PROVE ScanInv'
  BY <1>1 DEF register_session, Streams
<1>2. ASSUME NEW s \in Sessions, WrapLock(s) PROVE ScanInv'
  BY <1>2 DEF WrapLock
<1>3. ASSUME NEW s \in Sessions, WrapStream(s) PROVE ScanInv'
  BY <1>3 DEF WrapStream, Streams
<1>4. ASSUME NEW s \in Sessions, NEW pair \in Pairs, Authorize(s, pair) PROVE ScanInv'
  BY <1>4 DEF Authorize
<1>5. ASSUME NEW s \in Sessions, set_user_info(s) PROVE ScanInv'
  BY <1>5 DEF set_user_info, Fault, OrIgnored, AfterUser
<1>6. ASSUME NEW s \in Sessions, set_target(s) PROVE ScanInv'
  BY <1>6 DEF set_target, Fault, OrIgnored, AfterTarget
<1>7. ASSUME NEW s \in Sessions, LimitLock(s) PROVE ScanInv'
  BY <1>7 DEF LimitLock
<1>8. ASSUME NEW s \in Sessions, update_rate_limiters(s) PROVE ScanInv'
  BY <1>8 DEF update_rate_limiters, Fault, PartlyLimited, OrIgnored, AfterLimit, Streams
<1>9. ASSUME NEW s \in Sessions, NoTarget(s) PROVE ScanInv'
  BY <1>9 DEF NoTarget
<1>10. ASSUME NEW s \in Sessions, Leave(s) PROVE ScanInv'
  BY <1>10 DEF Leave
<1>11. ASSUME NEW s \in Sessions, Closed(s) PROVE ScanInv'
  BY <1>11 DEF Closed
<1>12. ASSUME NEW s \in Sessions, remove_session(s) PROVE ScanInv'
  <2>1. revalTodo = {} /\ refreshTodo = {} /\ apiTodo = {}
    BY <1>12 DEF remove_session, StateFree, StateReadable
  <2> QED BY <1>12, <2>1 DEF remove_session, StateFree, StateReadable
<1>13. ASSUME NEW pair \in Pairs, Revoke(pair) PROVE ScanInv'
  BY <1>13 DEF Revoke
<1>14. ASSUME NEW pair \in Pairs, SsoRevoke(pair) PROVE ScanInv'
  BY <1>14 DEF SsoRevoke
<1>15. ASSUME NEW pair \in Pairs, Grant(pair) PROVE ScanInv'
  BY <1>15 DEF Grant
<1>16. CASE Wake
  BY <1>16 DEF Wake
<1>17. CASE Reload
  BY <1>17 DEF Reload
<1>18. CASE RevalBegin
  BY <1>18 DEF RevalBegin, StateReadable
<1>19. ASSUME NEW s \in Sessions, RevalCheck(s) PROVE ScanInv'
  BY <1>19 DEF RevalCheck, Fault, Known
<1>20. CASE RevalEnd
  BY <1>20 DEF RevalEnd
<1>21. CASE RefreshBegin
  BY <1>21 DEF RefreshBegin, RegistryFree
<1>22. CASE RefreshLock
  BY <1>22 DEF RefreshLock, StateFree, StateReadable
<1>23. ASSUME NEW s \in Sessions, RefreshOne(s) PROVE ScanInv'
  BY <1>23 DEF RefreshOne, Fault, PartlyLimited, Streams
<1>24. CASE RefreshEnd
  BY <1>24 DEF RefreshEnd
<1>25. CASE ShutBegin
  BY <1>25 DEF ShutBegin
<1>26. ASSUME NEW s \in Sessions, ShutClose(s) PROVE ScanInv'
  BY <1>26 DEF ShutClose
<1>27. CASE ShutDone
  BY <1>27 DEF ShutDone
<1>28. CASE UNCHANGED vars
  BY <1>28
<1>29. ASSUME NEW op \in {"close", "terminate"}, NEW todo \in SUBSET sessions,
              ApiBegin(op, todo)
       PROVE  ScanInv'
  BY <1>29 DEF ApiBegin, StateFree, StateReadable
<1>30. ASSUME NEW s \in Sessions, ApiClose(s) PROVE ScanInv'
  BY <1>30 DEF ApiClose, MarkComplete, Fault
<1> QED BY <1>1, <1>2, <1>3, <1>4, <1>5, <1>6, <1>7, <1>8, <1>9, <1>10, <1>11, <1>12,
           <1>13, <1>14, <1>15, <1>16, <1>17, <1>18, <1>19, <1>20, <1>21, <1>22,
           <1>23, <1>24, <1>25, <1>26, <1>27, <1>28, <1>29, <1>30
    DEF Next, Outside, SessionStep, RevalStep, RefreshStep, ShutStep, ApiStep

\* Every step without a database error keeps what the login has recorded.
LEMMA NextRecordInv ==
    ASSUME TypeOK, RecordInv, [Next]_vars
    PROVE  RecordInv'
<1> USE RegistryAssumption DEF TypeOK, Places, Sessions, Goto, vars, session, tasks, RecordInv
<1>1. ASSUME NEW s \in Sessions, register_session(s) PROVE RecordInv'
  BY <1>1 DEF register_session, Streams
<1>2. ASSUME NEW s \in Sessions, WrapLock(s) PROVE RecordInv'
  BY <1>2 DEF WrapLock
<1>3. ASSUME NEW s \in Sessions, WrapStream(s) PROVE RecordInv'
  BY <1>3 DEF WrapStream, Streams
<1>4. ASSUME NEW s \in Sessions, NEW pair \in Pairs, Authorize(s, pair) PROVE RecordInv'
  BY <1>4 DEF Authorize
<1>5. ASSUME NEW s \in Sessions, set_user_info(s) PROVE RecordInv'
  <2> SUFFICES ASSUME faults' = 0, NEW t \in Sessions, pc'[t] \notin {"gone", "removed"}
               PROVE  /\ "user" \in info'[t] => row'[t] # "none"
                      /\ info'[t] = {"user", "target"} => rowTarget'[t]
                      /\ pc'[t] = "live" => info'[t] = {"user", "target"}
                      /\ pc'[t] = "live" /\ t \in Streams => lim'[t] = info'[t]
    OBVIOUS
  <2>1. faults = 0 /\ pc' = [pc EXCEPT ![s] = "limit0"] /\ UNCHANGED lim
    BY <1>5 DEF set_user_info, Fault
  <2>2. CASE t # s
    <3>1. pc'[t] = pc[t] /\ info'[t] = info[t] /\ row'[t] = row[t]
      BY <1>5, <2>1, <2>2 DEF set_user_info
    <3>2. rowTarget'[t] = rowTarget[t]
      BY <1>5, <2>1, <2>2, Zenon DEF set_user_info, Fault
    <3> QED BY <2>1, <3>1, <3>2
  <2>3. CASE t = s
    <3>1. pc'[t] = "limit0" /\ row'[t] = "open" /\ info'[t] = info[t] \cup {"user"}
      BY <1>5, <2>1, <2>3 DEF set_user_info, Fault
    <3>2. "target" \in info[s] => rowTarget'[s]
      <4>1. rowTarget' = [rowTarget EXCEPT ![s] = @ \/ "target" \in info[s]]
        BY <1>5, <2>1 DEF set_user_info, Fault
      <4> QED BY <4>1, Zenon
    <3> QED BY <2>3, <3>1, <3>2
  <2> QED BY <2>2, <2>3
<1>6. ASSUME NEW s \in Sessions, set_target(s) PROVE RecordInv'
  <2> SUFFICES ASSUME faults' = 0, NEW t \in Sessions, pc'[t] \notin {"gone", "removed"}
               PROVE  /\ "user" \in info'[t] => row'[t] # "none"
                      /\ info'[t] = {"user", "target"} => rowTarget'[t]
                      /\ pc'[t] = "live" => info'[t] = {"user", "target"}
                      /\ pc'[t] = "live" /\ t \in Streams => lim'[t] = info'[t]
    OBVIOUS
  <2>1. faults = 0 /\ pc' = [pc EXCEPT ![s] = "limit0"] /\ UNCHANGED lim
    BY <1>6 DEF set_target, Fault
  <2>2. CASE t # s
    <3>1. pc'[t] = pc[t] /\ info'[t] = info[t] /\ row'[t] = row[t]
      BY <1>6, <2>1, <2>2 DEF set_target
    <3>2. rowTarget'[t] = rowTarget[t]
      BY <1>6, <2>1, <2>2, Zenon DEF set_target, Fault
    <3> QED BY <2>1, <3>1, <3>2
  <2>3. CASE t = s
    <3>1. pc'[t] = "limit0" /\ row'[t] = row[t] /\ info'[t] = info[t] \cup {"target"}
      BY <1>6, <2>1, <2>3 DEF set_target
    <3>2. "user" \in info[s] => row[s] # "none"
      BY <1>6, <2>1 DEF set_target
    <3>3. row[s] # "none" => rowTarget'[s]
      <4>1. rowTarget' = [rowTarget EXCEPT ![s] = @ \/ row[s] # "none"]
        BY <1>6, <2>1 DEF set_target, Fault
      <4> QED BY <4>1, Zenon
    <3> QED BY <2>3, <3>1, <3>2, <3>3
  <2> QED BY <2>2, <2>3
<1>7. ASSUME NEW s \in Sessions, LimitLock(s) PROVE RecordInv'
  BY <1>7 DEF LimitLock
<1>8. ASSUME NEW s \in Sessions, update_rate_limiters(s) PROVE RecordInv'
  BY <1>8 DEF update_rate_limiters, Fault, PartlyLimited, OrIgnored, AfterLimit, Streams
<1>9. ASSUME NEW s \in Sessions, NoTarget(s) PROVE RecordInv'
  BY <1>9 DEF NoTarget
<1>10. ASSUME NEW s \in Sessions, Leave(s) PROVE RecordInv'
  BY <1>10 DEF Leave
<1>11. ASSUME NEW s \in Sessions, Closed(s) PROVE RecordInv'
  BY <1>11 DEF Closed
<1>12. ASSUME NEW s \in Sessions, remove_session(s) PROVE RecordInv'
  BY <1>12 DEF remove_session, MarkComplete, Fault, StateFree
<1>13. ASSUME NEW pair \in Pairs, Revoke(pair) PROVE RecordInv'
  BY <1>13 DEF Revoke
<1>14. ASSUME NEW pair \in Pairs, SsoRevoke(pair) PROVE RecordInv'
  BY <1>14 DEF SsoRevoke
<1>15. ASSUME NEW pair \in Pairs, Grant(pair) PROVE RecordInv'
  BY <1>15 DEF Grant
<1>16. CASE Wake
  BY <1>16 DEF Wake
<1>17. CASE Reload
  BY <1>17 DEF Reload
<1>18. CASE RevalBegin
  BY <1>18 DEF RevalBegin
<1>19. ASSUME NEW s \in Sessions, RevalCheck(s) PROVE RecordInv'
  BY <1>19 DEF RevalCheck, Fault, Known
<1>20. CASE RevalEnd
  BY <1>20 DEF RevalEnd
<1>21. CASE RefreshBegin
  BY <1>21 DEF RefreshBegin, RegistryFree
<1>22. CASE RefreshLock
  BY <1>22 DEF RefreshLock, StateFree
<1>23. ASSUME NEW s \in Sessions, RefreshOne(s) PROVE RecordInv'
  BY <1>23 DEF RefreshOne, Fault, PartlyLimited, Streams
<1>24. CASE RefreshEnd
  BY <1>24 DEF RefreshEnd
<1>25. CASE ShutBegin
  BY <1>25 DEF ShutBegin
<1>26. ASSUME NEW s \in Sessions, ShutClose(s) PROVE RecordInv'
  BY <1>26 DEF ShutClose
<1>27. CASE ShutDone
  BY <1>27 DEF ShutDone
<1>28. CASE UNCHANGED vars
  BY <1>28
<1>29. ASSUME NEW op \in {"close", "terminate"}, NEW todo \in SUBSET sessions,
              ApiBegin(op, todo)
       PROVE  RecordInv'
  BY <1>29 DEF ApiBegin
<1>30. ASSUME NEW s \in Sessions, ApiClose(s) PROVE RecordInv'
  BY <1>30 DEF ApiClose, MarkComplete, Fault
<1> QED BY <1>1, <1>2, <1>3, <1>4, <1>5, <1>6, <1>7, <1>8, <1>9, <1>10, <1>11, <1>12,
           <1>13, <1>14, <1>15, <1>16, <1>17, <1>18, <1>19, <1>20, <1>21, <1>22,
           <1>23, <1>24, <1>25, <1>26, <1>27, <1>28, <1>29, <1>30
    DEF Next, Outside, SessionStep, RevalStep, RefreshStep, ShutStep, ApiStep

-----------------------------------------------------------------------------
(* The theorems about the registry. *)

IndInv == TypeOK /\ RowInv /\ ScanInv /\ RecordInv

\* IndInv is an invariant: no step of a session, of the re-authorization pass, of
\* a rate limit refresh or of shutdown leaves it (state.rs, handle.rs, services.rs).
THEOREM IndInvHolds == Spec => []IndInv
<1>1. Init => IndInv
  <2> SUFFICES ASSUME Init PROVE IndInv
    OBVIOUS
  <2>1. TypeOK
    <3>1. rowTarget \in [Sessions -> BOOLEAN] /\ permit \in BOOLEAN
      BY Zenon DEF Init
    <3>2. /\ pc \in [Sessions -> Places]
          /\ row \in [Sessions -> {"none", "open", "ended"}]
          /\ who \in [Sessions -> Pairs \cup {NoPair}]
          /\ info \in [Sessions -> SUBSET {"user", "target"}]
          /\ lim \in [Sessions -> SUBSET {"user", "target"}]
      BY DEF Init, Places
    <3> QED BY <3>1, <3>2, RegistryAssumption DEF Init, TypeOK
  <2>2. ScanInv
    BY DEF Init, ScanInv
  <2>3. RowInv
    BY DEF Init, RowInv
  <2>4. RecordInv
    BY DEF Init, RecordInv
  <2> QED BY <2>1, <2>2, <2>3, <2>4 DEF IndInv
<1>2. IndInv /\ [Next]_vars => IndInv'
  BY NextTypeOK, NextRowInv, NextScanInv, NextRecordInv DEF IndInv
<1> QED BY <1>1, <1>2, PTL DEF Spec

\* Every variable keeps its type, for any sessions and pairs.
THEOREM TypeCorrect == Spec => []TypeOK
BY IndInvHolds, PTL DEF IndInv

\* No registered session has an ended row, and remove_session ends the row of
\* every session, terminated before or not, database errors apart.
THEOREM RowsFollowSessions == Spec => []RowFollowsSession
<1>1. IndInv => RowFollowsSession
  BY DEF IndInv, RowInv, RowFollowsSession
<1> QED BY <1>1, IndInvHolds, PTL

\* revalidate_sessions and apply_new_rate_limits never hold on to a session
\* that was removed meanwhile: each holds the lock of the State as it scans.
THEOREM ScansStayInTable == Spec => []ScansAreStable
<1>1. IndInv => ScansAreStable
  BY DEF IndInv, ScanInv, ScansAreStable
<1> QED BY <1>1, IndInvHolds, PTL

\* Database errors and terminations apart, a session that reached its target has
\* its row, the target in it and both limiters, however logins, closes and
\* refreshes of the rate limits interleave.
THEOREM LiveSessionsRecorded == Spec => []LiveIsRecorded
<1>1. IndInv => LiveIsRecorded
  <2> SUFFICES ASSUME IndInv, NEW s \in sessions, pc[s] = "live", faults = 0
               PROVE  /\ row[s] = "open" /\ rowTarget[s]
                      /\ s \in Streams => lim[s] = {"user", "target"}
    BY DEF LiveIsRecorded
  <2> s \in Sessions
    BY DEF IndInv, TypeOK
  <2>1. info[s] = {"user", "target"}
    BY DEF IndInv, RecordInv
  <2>2. row[s] \in {"open", "ended"} /\ (s \in Streams => lim[s] = info[s])
    BY <2>1 DEF IndInv, RecordInv, TypeOK
  <2>3. rowTarget[s]
    BY <2>1 DEF IndInv, RecordInv
  <2>4. row[s] # "ended"
    BY DEF IndInv, RowInv
  <2> QED BY <2>1, <2>2, <2>3, <2>4
<1> QED BY <1>1, IndInvHolds, PTL

-----------------------------------------------------------------------------
(* The inductive invariant of the PostgreSQL proxy. *)

PgVals == PgSqls \cup {None, "unknown"}
Dbs == [stmt : PgVals, portal : PgVals, skipping : BOOLEAN]
Answers == [kind : {"ready", "parsed", "bound", "complete", "error", "closed"}, of : PgVals]
Msgs == [kind : {"Parse", "Bind", "Execute", "Sync", "Query", "Close"}, sql : PgVals]
Links == [client : BOOLEAN, up : BOOLEAN, mode : {"disabled", "preferred", "required"},
          password : BOOLEAN, exposed : BOOLEAN, asked : BOOLEAN]
Ghosts == [cycles : Nat, ready : Nat, refused : BOOLEAN, inflight : Nat, overlap : BOOLEAN,
           ran : [sql : PgVals, asked : PgVals],
           item : [sql : PgVals, ok : BOOLEAN, of : PgVals]]

PgTypeOK ==
    /\ pgPc \in {"startup", "login", "target", "connect", "authenticate", "relay", "end"}
    /\ pgLink \in Links
    /\ prepared \in PgVals /\ portal \in PgVals /\ pgPending \in PgVals
    /\ db \in Dbs /\ fromDb \in Seq(Answers)
    /\ idle \in Nat
    /\ sent \in [left : Nat, batch : BOOLEAN]
    /\ seen \in Ghosts

\* What the proxy remembers of the target: its statement and its portal are the ones
\* remembered, or gone, until a Parse is refused.  A target that skips has no portal.
Tracks ==
    /\ db.skipping => db.portal = None
    /\ ~seen.refused => db.stmt \in {None, prepared} /\ db.portal \in {None, portal}

\* Only inside a batch does the target skip.
SkipsInBatch == db.skipping => sent.batch

\* Answers that may be booked on the statement sql.
BooksOn(f, sql) ==
    \A i \in 1..Len(f) : /\ f[i].kind = "complete" => f[i].of = sql
                         /\ f[i].kind = "error" => f[i].of \in {sql, None}

\* Answers that are to no statement.
BooksNothing(f) ==
    \A i \in 1..Len(f) : /\ f[i].kind # "complete"
                         /\ f[i].kind = "error" => f[i].of = None

\* The answers on their way are to the pending statement, and to none when nothing is in
\* flight, while the client waits for its answers.
AnswersBook ==
    seen.overlap \/ seen.refused \/ (/\ pgPending # None => BooksOn(fromDb, pgPending)
                                     /\ seen.inflight = 0 => BooksNothing(fromDb))

\* The ReadyForQuery of the target that the client has not been told of.
Readies(f) == {i \in 1..Len(f) : f[i].kind = "ready"}

\* Nothing was read before the relay.
Unread == pgPc # "relay" => seen = NothingSeen

PgInv == /\ PgTypeOK /\ Tracks /\ SkipsInBatch /\ AnswersBook /\ Unread
         /\ PostgresSecretKept /\ GatedAsRun /\ ReadyPerCycle /\ AuditedAsAnswered

(* The inductive invariant of the MySQL proxy. *)

MyUps == [mode : Modes, password : BOOLEAN, tls : BOOLEAN, deprecateEof : BOOLEAN,
          exposed : BOOLEAN]

\* A target that is being logged in to has its TLS, was meant to have none, or is sent
\* no password.
MyInv == /\ myUp \in MyUps
         /\ MySqlSecretKept
         /\ myPc = "authenticate" => myUp.mode = "disabled" \/ myUp.tls \/ ~myUp.password

-----------------------------------------------------------------------------
(* Counting answers. *)

\* The ReadyForQuery in a queue, counted.
Count(f) == Cardinality(Readies(f))

\* A queue has finitely many of them.
LEMMA CountType ==
    ASSUME NEW f \in Seq(Answers)
    PROVE  IsFiniteSet(Readies(f)) /\ Count(f) \in Nat
<1>1. IsFiniteSet(1..Len(f))
  BY FS_Interval
<1>2. IsFiniteSet(Readies(f))
  BY <1>1, FS_Subset DEF Readies
<1> QED BY <1>2, FS_CardinalityType DEF Count

\* Queues that are put together have those of both.
LEMMA CountConcat ==
    ASSUME NEW f \in Seq(Answers), NEW g \in Seq(Answers)
    PROVE  Count(f \o g) = Count(f) + Count(g)
<1> DEFINE n == Len(f)
           moved == {n + j : j \in Readies(g)}
           move == [j \in Readies(g) |-> n + j]
<1>1. n \in Nat /\ Len(g) \in Nat /\ Len(f \o g) = n + Len(g)
  OBVIOUS
<1>2. /\ \A i \in 1..n : (f \o g)[i] = f[i]
      /\ \A j \in 1..Len(g) : (f \o g)[n + j] = g[j]
  OBVIOUS
<1>3. \A i \in (n + 1)..(n + Len(g)) : i - n \in 1..Len(g) /\ i = n + (i - n)
  BY <1>1
<1>4. Readies(f \o g) = Readies(f) \cup moved
  <2>1. ASSUME NEW i \in Readies(f \o g) PROVE i \in Readies(f) \cup moved
    <3>1. i \in 1..(n + Len(g)) /\ (f \o g)[i].kind = "ready"
      BY <1>1 DEF Readies
    <3>2. CASE i <= n
      BY <1>1, <1>2, <3>1, <3>2 DEF Readies
    <3>3. CASE ~(i <= n)
      <4>1. i - n \in 1..Len(g) /\ i = n + (i - n)
        BY <1>1, <3>1, <3>3
      <4>2. g[i - n].kind = "ready"
        BY <1>2, <3>1, <4>1
      <4> QED BY <4>1, <4>2 DEF Readies
    <3> QED BY <3>2, <3>3
  <2>2. ASSUME NEW i \in Readies(f) PROVE i \in Readies(f \o g)
    BY <1>1, <1>2 DEF Readies
  <2>3. ASSUME NEW j \in Readies(g) PROVE n + j \in Readies(f \o g)
    BY <1>1, <1>2 DEF Readies
  <2> QED BY <2>1, <2>2, <2>3
<1>5. Readies(f) \cap moved = {}
  BY <1>1 DEF Readies
<1>6. IsFiniteSet(Readies(f)) /\ IsFiniteSet(Readies(g)) /\ Count(f) \in Nat /\ Count(g) \in Nat
  BY CountType
<1>7. move \in Bijection(Readies(g), moved)
  <2>1. \A j \in Readies(g) : j \in Nat
    BY <1>1 DEF Readies
  <2>2. \A j, k \in Readies(g) : n + j = n + k => j = k
    BY <1>1, <2>1
  <2>3. move \in [Readies(g) -> moved] /\ IsInjective(move)
    BY <2>2 DEF IsInjective
  <2>4. \A t \in moved : \E j \in Readies(g) : move[j] = t
    OBVIOUS
  <2> QED BY <2>3, <2>4 DEF Bijection, Injection, Surjection
<1>8. ExistsBijection(Readies(g), moved)
  BY <1>7 DEF ExistsBijection
<1> HIDE DEF moved
<1>9. IsFiniteSet(moved) /\ Cardinality(moved) = Count(g)
  BY <1>6, <1>8, FS_Bijection DEF Count
<1>10. Cardinality(Readies(f) \cup moved) = Count(f) + Cardinality(moved) - Cardinality({})
  BY <1>5, <1>6, <1>9, FS_Union DEF Count
<1> QED BY <1>4, <1>6, <1>9, <1>10, FS_EmptySet DEF Count

\* An answer in queues that are put together is in one of them.
LEMMA ConcatElements ==
    ASSUME NEW f \in Seq(Answers), NEW g \in Seq(Answers), NEW i \in 1..Len(f \o g)
    PROVE  \/ \E j \in 1..Len(f) : (f \o g)[i] = f[j]
           \/ \E j \in 1..Len(g) : (f \o g)[i] = g[j]
<1>1. CASE i <= Len(f)
  BY <1>1
<1>2. CASE ~(i <= Len(f))
  <2>1. i - Len(f) \in 1..Len(g) /\ (f \o g)[i] = g[i - Len(f)]
    BY <1>2
  <2> QED BY <2>1
<1> QED BY <1>1, <1>2

\* Empty queues and queues of one answer.
LEMMA CountOne ==
    /\ Count(<<>>) = 0
    /\ \A a \in Answers : Count(<<a>>) = IF a.kind = "ready" THEN 1 ELSE 0
<1>1. Readies(<<>>) = {}
  BY DEF Readies
<1>2. ASSUME NEW a \in Answers PROVE Readies(<<a>>) = IF a.kind = "ready" THEN {1} ELSE {}
  <2>1. \A i : i \in 1..Len(<<a>>) <=> i = 1
    OBVIOUS
  <2>2. <<a>>[1] = a
    OBVIOUS
  <2> QED BY <2>1, <2>2 DEF Readies
<1> QED BY <1>1, <1>2, FS_EmptySet, FS_Singleton DEF Count

\* An answer that is read leaves the others.
LEMMA CountTail ==
    ASSUME NEW f \in Seq(Answers), f # <<>>
    PROVE  Count(f) = Count(Tail(f)) + (IF Head(f).kind = "ready" THEN 1 ELSE 0)
<1>1. Head(f) \in Answers /\ Tail(f) \in Seq(Answers) /\ <<Head(f)>> \in Seq(Answers)
  OBVIOUS
<1>2. f = <<Head(f)>> \o Tail(f)
  OBVIOUS
<1>3. Count(f) = Count(<<Head(f)>>) + Count(Tail(f))
  BY <1>1, <1>2, CountConcat
<1>4. Count(<<Head(f)>>) = IF Head(f).kind = "ready" THEN 1 ELSE 0
  BY <1>1, CountOne
<1>5. Count(Tail(f)) \in Nat
  BY <1>1, CountType
<1> QED BY <1>3, <1>4, <1>5

-----------------------------------------------------------------------------
(* The outcomes of a message at the target. *)

\* What every outcome of message m at a target d has in common.
OutcomeOK(d, m, o) ==
    /\ o.d \in Dbs /\ o.ran \in PgVals /\ o.out \in Seq(Answers)
    /\ \/ o.d.stmt = d.stmt
       \/ m.kind = "Close" /\ o.d.stmt = None
       \/ m.kind = "Parse" /\ o.d.stmt = m.sql
    /\ \/ o.d.portal = None
       \/ o.d.portal = d.portal /\ (m.kind = "Bind" => d.skipping)
       \/ o.d.portal = d.stmt /\ m.kind = "Bind" /\ ~o.d.skipping
    /\ o.d.skipping => m.kind \notin {"Query", "Sync"} \/ (m.kind = "Query" /\ d.skipping)
    /\ o.d.skipping /\ ~d.skipping => o.d.portal = None
    /\ o.ran # None => \/ m.kind = "Query" /\ o.ran = m.sql
                       \/ m.kind = "Execute" /\ o.ran = d.portal

\* What the answers of an outcome are.
AnswersOK(d, m, out) ==
    /\ \A i \in 1..Len(out) :
         /\ out[i].kind = "complete" => \/ m.kind = "Query" /\ out[i].of = m.sql
                                        \/ /\ m.kind = "Execute"
                                           /\ d.portal # None /\ out[i].of = d.portal
         /\ out[i].kind = "error" => \/ out[i].of = None
                                     \/ m.kind = "Query" /\ out[i].of = m.sql
                                     \/ /\ m.kind = "Execute"
                                        /\ d.portal # None /\ out[i].of = d.portal
    /\ Count(out) = IF m.kind = "Sync" \/ (m.kind = "Query" /\ ~d.skipping) THEN 1 ELSE 0

\* A reply is one answer.
LEMMA ReplyIsOne ==
    ASSUME NEW kind \in {"ready", "parsed", "bound", "complete", "error", "closed"},
           NEW of \in PgVals
    PROVE  /\ Reply(kind, of) \in Seq(Answers)
           /\ Len(Reply(kind, of)) = 1
           /\ Reply(kind, of)[1].kind = kind /\ Reply(kind, of)[1].of = of
           /\ Count(Reply(kind, of)) = IF kind = "ready" THEN 1 ELSE 0
<1> DEFINE a == [kind |-> kind, of |-> of]
<1>1. a \in Answers /\ a.kind = kind /\ a.of = of
  BY DEF Answers
<1>2. Reply(kind, of) = <<a>>
  BY DEF Reply
<1> HIDE DEF a
<1> QED BY <1>1, <1>2, CountOne

\* A message that fails is answered with an error; the target skips from then on.
LEMMA FailedIsOK ==
    ASSUME NEW d \in Dbs, NEW m \in Msgs, m.kind \in {"Parse", "Bind", "Execute"},
           NEW of \in PgVals,
           of = None \/ (m.kind = "Execute" /\ d.portal # None /\ of = d.portal)
    PROVE  OutcomeOK(d, m, Failed(d, of)) /\ AnswersOK(d, m, Failed(d, of).out)
<1> DEFINE e == [d EXCEPT !.skipping = TRUE, !.portal = None]
           out == Reply("error", of)
<1>1. e \in Dbs /\ e.skipping /\ e.portal = None /\ e.stmt = d.stmt
  BY DEF Dbs, PgVals
<1>2. /\ out \in Seq(Answers) /\ Len(out) = 1 /\ Count(out) = 0
      /\ out[1].kind = "error" /\ out[1].of = of
  BY ReplyIsOne
<1>3. None \in PgVals
  BY DEF PgVals
<1> HIDE DEF e, out
<1>4. /\ [d |-> e, ran |-> None, out |-> out].d = e
      /\ [d |-> e, ran |-> None, out |-> out].ran = None
      /\ [d |-> e, ran |-> None, out |-> out].out = out
  OBVIOUS
<1>5. Failed(d, of) = [d |-> e, ran |-> None, out |-> out]
  BY DEF Failed, e, out
<1>6. OutcomeOK(d, m, Failed(d, of))
  BY <1>1, <1>2, <1>3, <1>4, <1>5 DEF OutcomeOK
<1>7. AnswersOK(d, m, out)
  BY <1>2 DEF AnswersOK
<1> QED BY <1>4, <1>5, <1>6, <1>7

\* An outcome of one answer.
LEMMA OneAnswerIsOK ==
    ASSUME NEW d \in Dbs, NEW m \in Msgs, NEW e \in Dbs, NEW ran \in PgVals,
           NEW kind \in {"ready", "parsed", "bound", "complete", "closed"}, NEW of \in PgVals,
           \/ e.stmt = d.stmt
           \/ m.kind = "Close" /\ e.stmt = None
           \/ m.kind = "Parse" /\ e.stmt = m.sql,
           \/ e.portal = None
           \/ e.portal = d.portal /\ m.kind # "Bind"
           \/ e.portal = d.stmt /\ m.kind = "Bind",
           ~e.skipping,
           ran # None => m.kind = "Execute" /\ ran = d.portal,
           kind = "complete" => m.kind = "Execute" /\ d.portal # None /\ of = d.portal,
           kind = "ready" <=> m.kind = "Sync",
           m.kind # "Query"
    PROVE  /\ OutcomeOK(d, m, [d |-> e, ran |-> ran, out |-> Reply(kind, of)])
           /\ AnswersOK(d, m, Reply(kind, of))
<1> DEFINE out == Reply(kind, of)
<1>1. /\ out \in Seq(Answers) /\ Len(out) = 1 /\ out[1].kind = kind /\ out[1].of = of
      /\ Count(out) = IF kind = "ready" THEN 1 ELSE 0
  BY ReplyIsOne
<1> HIDE DEF out
<1>2. /\ [d |-> e, ran |-> ran, out |-> out].d = e
      /\ [d |-> e, ran |-> ran, out |-> out].ran = ran
      /\ [d |-> e, ran |-> ran, out |-> out].out = out
  OBVIOUS
<1>3. AnswersOK(d, m, out)
  BY <1>1 DEF AnswersOK
<1>4. OutcomeOK(d, m, [d |-> e, ran |-> ran, out |-> out])
  BY <1>1, <1>2 DEF OutcomeOK
<1> QED BY <1>3, <1>4 DEF out

\* Every outcome of every message.
LEMMA OutcomeFacts ==
    ASSUME NEW d \in Dbs, NEW m \in Msgs, NEW o \in Outcomes(d, m)
    PROVE  OutcomeOK(d, m, o) /\ AnswersOK(d, m, o.out)
<1>0. None \in PgVals /\ m.sql \in PgVals /\ d.stmt \in PgVals /\ d.portal \in PgVals
  BY DEF PgVals, Msgs, Dbs
<1>1. CASE d.skipping /\ m.kind # "Sync"
  <2>1. o.d = d /\ o.ran = None /\ o.out = NoReply
    BY <1>1 DEF Outcomes
  <2>2. NoReply \in Seq(Answers) /\ Len(NoReply) = 0 /\ Count(NoReply) = 0
    BY CountOne DEF NoReply
  <2> QED BY <1>0, <1>1, <2>1, <2>2 DEF OutcomeOK, AnswersOK
<1>2. CASE ~d.skipping /\ m.kind = "Parse"
  <2> DEFINE e == [d EXCEPT !.stmt = m.sql]
  <2>1. e \in Dbs /\ e.stmt = m.sql /\ e.portal = d.portal /\ e.skipping = d.skipping
    BY <1>0 DEF Dbs
  <2>2. \/ o = Failed(d, None)
        \/ o = [d |-> e, ran |-> None, out |-> Reply("parsed", None)]
    BY <1>2 DEF Outcomes
  <2>3. CASE o = Failed(d, None)
    BY <1>0, <1>2, <2>3, FailedIsOK
  <2> HIDE DEF e
  <2>4. CASE o = [d |-> e, ran |-> None, out |-> Reply("parsed", None)]
    <3>1. o.out = Reply("parsed", None)
      BY <2>4
    <3> QED BY <1>0, <1>2, <2>1, <2>4, <3>1, OneAnswerIsOK
  <2> QED BY <2>2, <2>3, <2>4
<1>3. CASE ~d.skipping /\ m.kind = "Bind"
  <2> DEFINE e == [d EXCEPT !.portal = d.stmt]
  <2>1. e \in Dbs /\ e.stmt = d.stmt /\ e.portal = d.stmt /\ e.skipping = d.skipping
    BY <1>0 DEF Dbs
  <2>2. \/ o = Failed(d, None)
        \/ o = [d |-> e, ran |-> None, out |-> Reply("bound", None)]
    BY <1>3 DEF Outcomes
  <2>3. CASE o = Failed(d, None)
    BY <1>0, <1>3, <2>3, FailedIsOK
  <2> HIDE DEF e
  <2>4. CASE o = [d |-> e, ran |-> None, out |-> Reply("bound", None)]
    <3>1. o.out = Reply("bound", None)
      BY <2>4
    <3> QED BY <1>0, <1>3, <2>1, <2>4, <3>1, OneAnswerIsOK
  <2> QED BY <2>2, <2>3, <2>4
<1>4. CASE ~d.skipping /\ m.kind = "Execute"
  <2>1. \/ o = Failed(d, None)
        \/ d.portal # None /\ o = Failed(d, d.portal)
        \/ d.portal # None /\ o = [d |-> d, ran |-> d.portal, out |-> Reply("complete", d.portal)]
    BY <1>4 DEF Outcomes
  <2>2. CASE o = Failed(d, None) \/ (d.portal # None /\ o = Failed(d, d.portal))
    BY <1>0, <1>4, <2>2, FailedIsOK
  <2>3. CASE d.portal # None /\ o = [d |-> d, ran |-> d.portal, out |-> Reply("complete", d.portal)]
    <3>1. o.out = Reply("complete", d.portal)
      BY <2>3
    <3> QED BY <1>0, <1>4, <2>3, <3>1, OneAnswerIsOK
  <2> QED BY <2>1, <2>2, <2>3
<1>5. CASE m.kind = "Sync"
  <2>1. PICK kept \in {d.portal, None} :
          o = [d |-> [d EXCEPT !.skipping = FALSE, !.portal = kept], ran |-> None,
               out |-> Reply("ready", None)]
    BY <1>5 DEF Outcomes
  <2> DEFINE e == [d EXCEPT !.skipping = FALSE, !.portal = kept]
  <2>2. e \in Dbs /\ e.stmt = d.stmt /\ e.portal = kept /\ ~e.skipping
    BY <1>0 DEF Dbs
  <2>3. o = [d |-> e, ran |-> None, out |-> Reply("ready", None)]
    BY <2>1
  <2> HIDE DEF e
  <2>4. o.out = Reply("ready", None)
    BY <2>3
  <2> QED BY <1>0, <1>5, <2>2, <2>3, <2>4, OneAnswerIsOK
<1>6. CASE ~d.skipping /\ m.kind = "Close"
  <2> DEFINE e == [d EXCEPT !.stmt = None]
  <2>1. e \in Dbs /\ e.stmt = None /\ e.portal = d.portal /\ e.skipping = d.skipping
    BY <1>0 DEF Dbs
  <2>2. o = [d |-> e, ran |-> None, out |-> Reply("closed", None)]
    BY <1>6 DEF Outcomes
  <2> HIDE DEF e
  <2>3. o.out = Reply("closed", None)
    BY <2>2
  <2> QED BY <1>0, <1>6, <2>1, <2>2, <2>3, OneAnswerIsOK
<1>7. CASE ~d.skipping /\ m.kind = "Query"
  <2> DEFINE c == Reply("complete", m.sql)
             e == Reply("error", m.sql)
             r == Reply("ready", None)
  <2>1. PICK answers \in {c, e, c \o e} :
          o = [d |-> d, ran |-> m.sql, out |-> answers \o r]
    BY <1>7 DEF Outcomes
  <2>2. /\ c \in Seq(Answers) /\ Len(c) = 1 /\ c[1].kind = "complete" /\ c[1].of = m.sql /\ Count(c) = 0
        /\ e \in Seq(Answers) /\ Len(e) = 1 /\ e[1].kind = "error" /\ e[1].of = m.sql /\ Count(e) = 0
        /\ r \in Seq(Answers) /\ Len(r) = 1 /\ r[1].kind = "ready" /\ Count(r) = 1
    BY <1>0, ReplyIsOne
  <2> HIDE DEF c, e, r
  <2>3. /\ answers \in Seq(Answers) /\ Count(answers) = 0
        /\ \A i \in 1..Len(answers) : answers[i].of = m.sql
    <3>1. c \o e \in Seq(Answers) /\ Count(c \o e) = 0
      BY <2>2, CountConcat
    <3>2. ASSUME NEW i \in 1..Len(c \o e) PROVE (c \o e)[i].of = m.sql
      <4>1. \A j \in 1..1 : c[j].of = m.sql /\ e[j].of = m.sql
        BY <2>2
      <4> QED BY <2>2, <4>1, ConcatElements
    <3>3. \A i \in 1..1 : c[i].of = m.sql /\ e[i].of = m.sql
      BY <2>2
    <3> QED BY <2>2, <3>1, <3>2, <3>3
  <2> DEFINE out == answers \o r
  <2>4. out \in Seq(Answers) /\ Count(out) = 1
    BY <2>2, <2>3, CountConcat
  <2>5. ASSUME NEW i \in 1..Len(out) PROVE out[i].of = m.sql \/ out[i].kind = "ready"
    <3>1. \A j \in 1..1 : r[j].kind = "ready"
      BY <2>2
    <3>2. \/ \E j \in 1..Len(answers) : (answers \o r)[i] = answers[j]
          \/ \E j \in 1..Len(r) : (answers \o r)[i] = r[j]
      BY <2>2, <2>3, ConcatElements
    <3> QED BY <2>2, <2>3, <3>1, <3>2
  <2>6. o = [d |-> d, ran |-> m.sql, out |-> out]
    BY <2>1
  <2> HIDE DEF out
  <2>7. o.d = d /\ o.ran = m.sql /\ o.out = out
    BY <2>6
  <2>8. OutcomeOK(d, m, o)
    BY <1>0, <1>7, <2>4, <2>7 DEF OutcomeOK
  <2>9. AnswersOK(d, m, out)
    BY <1>7, <2>4, <2>5 DEF AnswersOK
  <2> QED BY <2>7, <2>8, <2>9
<1> QED BY <1>1, <1>2, <1>3, <1>4, <1>5, <1>6, <1>7 DEF Msgs

-----------------------------------------------------------------------------
(* The steps of the PostgreSQL proxy. *)

\* Every way to end a session leaves nothing behind.
LEMMA EndKeepsPgInv ==
    ASSUME PgInv, PgEnd
    PROVE  PgInv'
<1> USE DEF PgInv
<1>1. None \in PgVals
  BY DEF PgVals
<1>2. NothingSeen \in Ghosts /\ NothingSeen.ran.sql = NothingSeen.ran.asked
  BY <1>1 DEF NothingSeen, Ghosts
<1>3. /\ IdleDb \in Dbs /\ IdleDb.stmt = None /\ IdleDb.portal = None /\ ~IdleDb.skipping
      /\ NothingSeen.inflight = 0 /\ ~NothingSeen.item.ok /\ NothingSeen.item.of = None
  BY <1>1 DEF IdleDb, Dbs, NothingSeen
<1>4. fromDb' \in Seq(Answers) /\ Len(fromDb') = 0
  BY DEF PgEnd
<1>5. PgTypeOK'
  BY <1>1, <1>2, <1>3, <1>4 DEF PgEnd, PgTypeOK
<1>6. Tracks' /\ SkipsInBatch' /\ Unread'
  BY <1>3 DEF PgEnd, Tracks, SkipsInBatch, Unread
<1>7. AnswersBook'
  BY <1>4 DEF PgEnd, AnswersBook, BooksOn, BooksNothing
<1>8. PostgresSecretKept' /\ GatedAsRun' /\ ReadyPerCycle' /\ AuditedAsAnswered'
  BY <1>2, <1>3 DEF PgEnd, PostgresSecretKept, GatedAsRun, ReadyPerCycle, AuditedAsAnswered
<1> QED BY <1>5, <1>6, <1>7, <1>8

\* The steps before the relay keep the secrets, and leave the rest as it is.
LEMMA HandshakeKeepsPgInv ==
    ASSUME PgInv, SslRequest \/ Startup \/ PgLogin \/ PgTarget \/ Connect \/ Authenticate
    PROVE  PgInv'
<1> USE DEF PgInv
<1>1. ASSUME NEW place \in {"startup", "login", "target", "connect", "authenticate"}, PgGoto(place),
             pgPc # "relay", UNCHANGED fromDb, pgLink' \in Links, PostgresSecretKept'
      PROVE  PgInv'
  <2>1. PgTypeOK' /\ Tracks' /\ SkipsInBatch' /\ Unread' /\ AnswersBook'
    BY <1>1 DEF PgGoto, PgTypeOK, Tracks, SkipsInBatch, Unread, AnswersBook, BooksOn, BooksNothing
  <2>2. GatedAsRun' /\ ReadyPerCycle' /\ AuditedAsAnswered'
    BY <1>1 DEF PgGoto, GatedAsRun, ReadyPerCycle, AuditedAsAnswered
  <2> QED BY <1>1, <2>1, <2>2
<1>2. CASE SslRequest
  <2>1. pgLink' \in Links /\ PostgresSecretKept'
    BY <1>2 DEF SslRequest, Links, PgTypeOK, PostgresSecretKept
  <2> QED BY <1>1, <1>2, <2>1 DEF SslRequest
<1>3. CASE Startup
  <2>1. CASE pgLink.client
    <3>1. pgLink' \in Links /\ PostgresSecretKept'
      BY <1>3, <2>1 DEF Startup, enforce_tls, Links, PgTypeOK, PostgresSecretKept
    <3> QED BY <1>1, <1>3, <2>1, <3>1 DEF Startup, enforce_tls
  <2>2. CASE ~pgLink.client
    BY <1>3, <2>2, EndKeepsPgInv DEF Startup, enforce_tls
  <2> QED BY <2>1, <2>2
<1>4. CASE PgLogin \/ PgTarget
  <2>1. UNCHANGED pgLink => pgLink' \in Links /\ PostgresSecretKept'
    BY DEF PgTypeOK, PostgresSecretKept
  <2> QED BY <1>1, <1>4, <2>1, EndKeepsPgInv DEF PgLogin, PgTarget
<1>5. CASE Connect
  <2>1. PICK accepted \in BOOLEAN :
          \/ PgEnd
          \/ /\ PgGoto("authenticate") /\ UNCHANGED fromDb
             /\ pgLink' = [pgLink EXCEPT !.up = accepted /\ pgLink.mode # "disabled"]
    BY <1>5 DEF Connect
  <2>2. ASSUME pgLink' = [pgLink EXCEPT !.up = accepted /\ pgLink.mode # "disabled"]
        PROVE  pgLink' \in Links /\ PostgresSecretKept'
    BY <2>2 DEF Links, PgTypeOK, PostgresSecretKept
  <2> QED BY <1>1, <1>5, <2>1, <2>2, EndKeepsPgInv DEF Connect
<1>6. CASE Authenticate
  <2>1. ASSUME get_password, PgGoto("authenticate"), UNCHANGED fromDb,
               pgLink' = [pgLink EXCEPT !.exposed = @ \/ ~pgLink.up]
        PROVE  PgInv'
    <3>1. pgLink' \in Links /\ PostgresSecretKept'
      BY <2>1 DEF get_password, Links, PgTypeOK, PostgresSecretKept
    <3> QED BY <1>1, <1>6, <2>1, <3>1 DEF Authenticate
  <2>2. ASSUME PgGoto("relay"), UNCHANGED pgLink, fromDb' = <<[kind |-> "ready", of |-> None]>>
        PROVE  PgInv'
    <3>1. seen = NothingSeen
      BY <1>6 DEF Authenticate, Unread
    <3>2. None \in PgVals
      BY DEF PgVals
    <3>3. /\ fromDb' \in Seq(Answers) /\ Len(fromDb') = 1 /\ fromDb'[1].kind = "ready"
          /\ Count(fromDb') = 1
      BY <2>2, <3>2, ReplyIsOne DEF Reply
    <3>4. PgTypeOK' /\ Tracks' /\ SkipsInBatch' /\ Unread'
      BY <2>2, <3>3 DEF PgGoto, PgTypeOK, Tracks, SkipsInBatch, Unread
    <3>5. AnswersBook'
      BY <2>2, <3>3 DEF PgGoto, AnswersBook, BooksOn, BooksNothing
    <3>6. seen'.ready + Count(fromDb') = seen'.cycles
      BY <2>2, <3>1, <3>3 DEF PgGoto, NothingSeen
    <3>7. ReadyPerCycle'
      BY <3>6 DEF ReadyPerCycle, Count, Readies
    <3>8. PostgresSecretKept' /\ GatedAsRun' /\ AuditedAsAnswered'
      BY <2>2 DEF PgGoto, PostgresSecretKept, GatedAsRun, AuditedAsAnswered
    <3> QED BY <3>4, <3>5, <3>7, <3>8
  <2> QED BY <1>6, <2>1, <2>2, EndKeepsPgInv DEF Authenticate
<1> QED BY <1>2, <1>3, <1>4, <1>5, <1>6

\* A message that starts a cycle is counted, any other leaves the ghosts alone.
LEMMA CycleFacts ==
    ASSUME NEW m \in Msgs, seen \in Ghosts
    PROVE  /\ Cycle(m) \in Ghosts
           /\ Cycle(m).cycles = seen.cycles + (IF m.kind \in {"Query", "Sync"} THEN 1 ELSE 0)
           /\ Cycle(m).ready = seen.ready /\ Cycle(m).refused = seen.refused
           /\ Cycle(m).inflight = seen.inflight /\ Cycle(m).overlap = seen.overlap
           /\ Cycle(m).ran = seen.ran /\ Cycle(m).item = seen.item
BY DEF Cycle, Ghosts

\* The queue and what is booked on it, when the answers of a message are added.
LEMMA BooksConcat ==
    ASSUME NEW f \in Seq(Answers), NEW g \in Seq(Answers)
    PROVE  /\ \A sql : BooksOn(f, sql) /\ BooksOn(g, sql) => BooksOn(f \o g, sql)
           /\ BooksNothing(f) /\ BooksNothing(g) => BooksNothing(f \o g)
<1>1. ASSUME NEW sql, BooksOn(f, sql), BooksOn(g, sql), NEW i \in 1..Len(f \o g)
      PROVE  /\ (f \o g)[i].kind = "complete" => (f \o g)[i].of = sql
             /\ (f \o g)[i].kind = "error" => (f \o g)[i].of \in {sql, None}
  <2>1. \/ \E j \in 1..Len(f) : (f \o g)[i] = f[j]
        \/ \E j \in 1..Len(g) : (f \o g)[i] = g[j]
    BY ConcatElements
  <2> QED BY <1>1, <2>1 DEF BooksOn
<1>2. ASSUME BooksNothing(f), BooksNothing(g), NEW i \in 1..Len(f \o g)
      PROVE  /\ (f \o g)[i].kind # "complete"
             /\ (f \o g)[i].kind = "error" => (f \o g)[i].of = None
  <2>1. \/ \E j \in 1..Len(f) : (f \o g)[i] = f[j]
        \/ \E j \in 1..Len(g) : (f \o g)[i] = g[j]
    BY ConcatElements
  <2> QED BY <1>2, <2>1 DEF BooksNothing
<1> QED BY <1>1, <1>2 DEF BooksOn, BooksNothing

\* What the proxy does around a message it passes on: s is what has been seen of it, and
\* asked what the rules were asked about.
Passes(m, asked, s) ==
    /\ Reads(m) /\ Send(m, asked, s)
    /\ prepared' = IF m.kind = "Parse" THEN m.sql ELSE prepared
    /\ portal' = IF m.kind = "Bind" /\ prepared # None THEN prepared ELSE portal
    /\ s \in Ghosts
    /\ s.cycles = seen.cycles + (IF m.kind \in {"Query", "Sync"} THEN 1 ELSE 0)
    /\ s.ready = seen.ready /\ s.refused = seen.refused
    /\ s.ran = seen.ran /\ s.item = seen.item
    /\ IF m.kind \in {"Query", "Execute"}
       THEN /\ asked = StatementOf(m) /\ pgPending' = asked
            /\ s.inflight = seen.inflight + 1 /\ (s.overlap <=> seen.overlap \/ seen.inflight > 0)
       ELSE /\ asked = None /\ pgPending' = pgPending
            /\ s.inflight = seen.inflight /\ s.overlap = seen.overlap

\* A message that is passed on keeps the invariant.
LEMMA PassKeepsPgInv ==
    ASSUME PgInv, NEW m \in Msgs, NEW asked, NEW s, Passes(m, asked, s)
    PROVE  PgInv'
<1> USE DEF PgInv
<1>1. PICK o \in Outcomes(db, m) :
        /\ db' = o.d /\ fromDb' = fromDb \o o.out
        /\ seen' = [s EXCEPT !.ran = IF o.ran = None THEN s.ran ELSE [sql |-> o.ran, asked |-> asked],
                             !.refused = s.refused \/ (m.kind = "Parse" /\ o.d.stmt # m.sql)]
  BY DEF Passes, Send
<1>2. OutcomeOK(db, m, o) /\ AnswersOK(db, m, o.out)
  BY OutcomeFacts DEF PgTypeOK
<1>3. /\ None \in PgVals /\ m.sql \in PgVals /\ asked \in PgVals /\ fromDb \in Seq(Answers)
      /\ o.out \in Seq(Answers) /\ o.ran \in PgVals /\ o.d \in Dbs /\ db \in Dbs
  BY <1>2 DEF PgVals, Msgs, Passes, StatementOf, PgTypeOK, OutcomeOK
<1>4. /\ seen' \in Ghosts
      /\ seen'.cycles = s.cycles /\ seen'.ready = s.ready
      /\ seen'.inflight = s.inflight /\ (seen'.overlap <=> s.overlap) /\ seen'.item = s.item
      /\ seen'.refused <=> s.refused \/ (m.kind = "Parse" /\ o.d.stmt # m.sql)
      /\ seen'.ran = IF o.ran = None THEN s.ran ELSE [sql |-> o.ran, asked |-> asked]
  <2> DEFINE ran == IF o.ran = None THEN s.ran ELSE [sql |-> o.ran, asked |-> asked]
             refused == s.refused \/ (m.kind = "Parse" /\ o.d.stmt # m.sql)
  <2>1. s \in Ghosts
    BY DEF Passes
  <2>2. ran \in [sql : PgVals, asked : PgVals] /\ refused \in BOOLEAN
    BY <1>3, <2>1 DEF Ghosts
  <2>3. seen' = [s EXCEPT !.ran = ran, !.refused = refused]
    BY <1>1
  <2> HIDE DEF ran, refused
  <2>4. /\ seen' \in Ghosts
        /\ seen'.cycles = s.cycles /\ seen'.ready = s.ready /\ seen'.inflight = s.inflight
        /\ seen'.overlap = s.overlap /\ seen'.item = s.item
        /\ seen'.refused = refused /\ seen'.ran = ran
    BY <2>1, <2>2, <2>3 DEF Ghosts
  <2> QED BY <2>4 DEF ran, refused
<1>5. pgPc = "relay" /\ pgPc' = "relay" /\ UNCHANGED pgLink
  BY DEF Passes, Reads, Alive
<1>6. s \in Ghosts /\ seen \in Ghosts
  BY DEF Passes, PgTypeOK
<1>7. PgTypeOK'
  <2>1. prepared' \in PgVals /\ portal' \in PgVals /\ pgPending' \in PgVals
    BY <1>3 DEF Passes, PgTypeOK
  <2>2. idle' \in Nat /\ sent' \in [left : Nat, batch : BOOLEAN]
    BY DEF Passes, Reads, PgTypeOK
  <2>3. fromDb' \in Seq(Answers) /\ db' \in Dbs
    BY <1>1, <1>3
  <2> QED BY <1>4, <1>5, <2>1, <2>2, <2>3 DEF PgTypeOK
<1>8. Tracks'
  <2>1. db'.skipping => db'.portal = None
    BY <1>1, <1>2 DEF OutcomeOK, Tracks
  <2>2. ASSUME ~seen'.refused PROVE db'.stmt \in {None, prepared'}
    BY <1>1, <1>2, <1>4, <2>2 DEF OutcomeOK, Tracks, Passes
  <2>3. ASSUME ~seen'.refused PROVE db'.portal \in {None, portal'}
    BY <1>1, <1>2, <1>4, <2>3 DEF OutcomeOK, Tracks, Passes
  <2> QED BY <2>1, <2>2, <2>3 DEF Tracks
<1>9. SkipsInBatch'
  BY <1>1, <1>2 DEF SkipsInBatch, OutcomeOK, Passes, Reads
<1>10. Unread' /\ PostgresSecretKept'
  BY <1>5 DEF Unread, PostgresSecretKept
<1>11. AuditedAsAnswered'
  BY <1>4, <1>6 DEF AuditedAsAnswered, Passes
<1>12. GatedAsRun'
  <2>1. CASE o.ran = None
    BY <1>4, <2>1 DEF GatedAsRun, Passes
  <2>2. CASE o.ran # None /\ ~seen'.refused
    <3>1. seen'.ran.sql = o.ran /\ seen'.ran.asked = asked
      BY <1>4, <2>2
    <3>2. asked = o.ran
      BY <1>2, <1>4, <2>2 DEF OutcomeOK, Passes, StatementOf, Tracks
    <3> QED BY <3>1, <3>2 DEF GatedAsRun
  <2> QED BY <2>1, <2>2 DEF GatedAsRun
<1>13. ReadyPerCycle'
  <2>1. Count(fromDb') = Count(fromDb) + Count(o.out) /\ Count(fromDb) \in Nat
    BY <1>1, <1>3, CountConcat, CountType
  <2>2. m.kind = "Query" => ~db.skipping
    BY DEF Passes, Reads, SkipsInBatch
  <2>3. Count(o.out) = IF m.kind \in {"Query", "Sync"} THEN 1 ELSE 0
    BY <1>2, <2>2 DEF AnswersOK
  <2>4. seen.ready + Count(fromDb) = seen.cycles
    BY <1>5 DEF ReadyPerCycle, Count, Readies
  <2>5. seen'.ready + Count(fromDb') = seen'.cycles
    BY <1>4, <1>6, <2>1, <2>3, <2>4 DEF Passes, Ghosts
  <2> QED BY <2>5 DEF ReadyPerCycle, Count, Readies
<1>14. AnswersBook'
  <2> SUFFICES ASSUME ~seen'.overlap, ~seen'.refused
               PROVE  /\ pgPending' # None => BooksOn(fromDb', pgPending')
                      /\ seen'.inflight = 0 => BooksNothing(fromDb')
    BY DEF AnswersBook
  <2>1. ~seen.overlap /\ ~seen.refused
    BY <1>4, <1>6 DEF Passes
  <2>2. CASE m.kind \in {"Query", "Execute"}
    <3>1. seen.inflight = 0 /\ seen'.inflight # 0
      BY <1>4, <1>6, <2>2 DEF Passes, Ghosts
    <3>2. BooksNothing(fromDb)
      BY <2>1, <3>1 DEF AnswersBook
    <3>3. BooksOn(fromDb, pgPending')
      BY <3>2 DEF BooksNothing, BooksOn
    <3>4. BooksOn(o.out, pgPending')
      BY <1>2, <2>1, <2>2 DEF AnswersOK, BooksOn, Passes, StatementOf, Tracks
    <3> QED BY <1>1, <1>3, <3>1, <3>3, <3>4, BooksConcat
  <2>3. CASE m.kind \notin {"Query", "Execute"}
    <3>1. pgPending' = pgPending /\ seen'.inflight = seen.inflight
      BY <1>4, <2>3 DEF Passes
    <3>2. BooksNothing(o.out) /\ BooksOn(o.out, pgPending)
      BY <1>2, <2>3 DEF AnswersOK, BooksNothing, BooksOn
    <3>3. /\ pgPending # None => BooksOn(fromDb, pgPending)
          /\ seen.inflight = 0 => BooksNothing(fromDb)
      BY <2>1 DEF AnswersBook
    <3> QED BY <1>1, <1>3, <3>1, <3>2, <3>3, BooksConcat
  <2> QED BY <2>2, <2>3
<1> QED BY <1>7, <1>8, <1>9, <1>10, <1>11, <1>12, <1>13, <1>14

\* A statement that is blocked is told to the client and booked as such.
LEMMA BlockedKeepsPgInv ==
    ASSUME PgInv, NEW m \in Msgs, m.kind \in {"Query", "Execute"}, Blocked(m)
    PROVE  PgInv'
<1> USE DEF PgInv
<1> DEFINE c == Cycle(m)
           told == IF SynthesizesReady(m) THEN 1 ELSE 0
           item == Item(StatementOf(m), FALSE, None)
<1>1. /\ c \in Ghosts /\ c.ready = seen.ready /\ c.refused = seen.refused
      /\ c.inflight = seen.inflight /\ c.overlap = seen.overlap /\ c.ran = seen.ran
      /\ c.cycles = seen.cycles + (IF m.kind \in {"Query", "Sync"} THEN 1 ELSE 0)
  BY CycleFacts DEF PgTypeOK
<1>2. /\ item \in [sql : PgVals, ok : BOOLEAN, of : PgVals] /\ ~item.ok /\ item.of = None
      /\ told = IF m.kind = "Query" THEN 1 ELSE 0
  BY DEF Item, StatementOf, PgVals, PgTypeOK, Msgs, SynthesizesReady
<1> DEFINE ready == c.ready + told
<1>3. seen' = [c EXCEPT !.ready = ready, !.item = item]
  BY DEF Blocked
<1> HIDE DEF c, told, item
<1>. ready \in Nat
  BY <1>1, <1>2 DEF Ghosts
<1> HIDE DEF ready
<1>4. /\ seen' \in Ghosts /\ seen'.cycles = c.cycles /\ seen'.ready = ready
      /\ seen'.refused = c.refused /\ seen'.inflight = c.inflight /\ seen'.overlap = c.overlap
      /\ seen'.ran = c.ran /\ seen'.item = item
  BY <1>1, <1>2, <1>3 DEF Ghosts
<1>5. /\ pgPc = "relay" /\ pgPc' = "relay"
      /\ UNCHANGED <<pgLink, prepared, portal, db, fromDb, pgPending>>
      /\ idle' = 0 /\ sent' = [left |-> sent.left - 1, batch |-> m.kind \notin {"Query", "Sync"}]
      /\ sent.left > 0 /\ (m.kind = "Query" => ~sent.batch)
  BY DEF Blocked, Reads, Alive
<1>6. PgTypeOK'
  BY <1>4, <1>5 DEF PgTypeOK
<1>7. Tracks' /\ SkipsInBatch' /\ Unread' /\ PostgresSecretKept'
  BY <1>1, <1>4, <1>5 DEF Tracks, SkipsInBatch, Unread, PostgresSecretKept
<1>8. AnswersBook'
  BY <1>1, <1>4, <1>5 DEF AnswersBook, BooksOn, BooksNothing
<1>9. GatedAsRun' /\ AuditedAsAnswered'
  BY <1>1, <1>2, <1>4 DEF GatedAsRun, AuditedAsAnswered
<1>10. ReadyPerCycle'
  <2>1. seen.ready + Count(fromDb) = seen.cycles /\ Count(fromDb) \in Nat
    BY <1>5, CountType DEF ReadyPerCycle, Count, Readies, PgTypeOK
  <2>2. seen'.ready + Count(fromDb) = seen'.cycles
    BY <1>1, <1>2, <1>4, <2>1 DEF Ghosts, PgTypeOK, ready
  <2> QED BY <1>5, <2>2 DEF ReadyPerCycle, Count, Readies
<1> QED BY <1>6, <1>7, <1>8, <1>9, <1>10

\* An answer of the target is booked on the pending statement.
LEMMA AnsweredKeepsPgInv ==
    ASSUME PgInv, Answered
    PROVE  PgInv'
<1> USE DEF PgInv
<1> DEFINE a == Head(fromDb)
           ends == a.kind \in {"error", "complete"} /\ pgPending # None
           ready == seen.ready + (IF a.kind = "ready" THEN 1 ELSE 0)
           inflight == IF a.kind = "ready" /\ Tail(fromDb) = <<>> THEN 0 ELSE seen.inflight
           item == IF ends THEN Item(pgPending, a.kind = "complete", a.of) ELSE seen.item
<1>1. /\ fromDb \in Seq(Answers) /\ fromDb # <<>> /\ fromDb' = Tail(fromDb)
      /\ pgPc = "relay" /\ pgPc' = "relay" /\ idle' = 0
      /\ UNCHANGED <<pgLink, prepared, portal, db, sent>>
      /\ pgPending' = IF ends THEN None ELSE pgPending
  BY DEF Answered, Alive, PgTypeOK
<1>2. /\ a \in Answers /\ a = fromDb[1] /\ 1 \in 1..Len(fromDb)
      /\ Tail(fromDb) \in Seq(Answers) /\ Len(Tail(fromDb)) = Len(fromDb) - 1
      /\ \A i \in 1..Len(Tail(fromDb)) : Tail(fromDb)[i] = fromDb[i + 1]
  BY <1>1
<1>3. seen' = [seen EXCEPT !.ready = ready, !.inflight = inflight, !.item = item]
  BY DEF Answered
<1>4. seen \in Ghosts /\ pgPending \in PgVals /\ None \in PgVals
  BY DEF PgTypeOK, PgVals
<1>5. ready \in Nat /\ inflight \in Nat /\ item \in [sql : PgVals, ok : BOOLEAN, of : PgVals]
  BY <1>2, <1>4 DEF Ghosts, Item, Answers
<1> HIDE DEF ready, inflight, item
<1>6. /\ seen' \in Ghosts /\ seen'.cycles = seen.cycles /\ seen'.ready = ready
      /\ seen'.refused = seen.refused /\ seen'.inflight = inflight /\ seen'.overlap = seen.overlap
      /\ seen'.ran = seen.ran /\ seen'.item = item
  BY <1>3, <1>4, <1>5 DEF Ghosts
<1>7. PgTypeOK'
  BY <1>1, <1>2, <1>4, <1>6 DEF PgTypeOK
<1>8. Tracks' /\ SkipsInBatch' /\ Unread' /\ PostgresSecretKept' /\ GatedAsRun'
  BY <1>1, <1>6 DEF Tracks, SkipsInBatch, Unread, PostgresSecretKept, GatedAsRun
<1>9. ReadyPerCycle'
  <2>1. seen.ready + Count(fromDb) = seen.cycles
    BY <1>1 DEF ReadyPerCycle, Count, Readies
  <2>2. Count(fromDb) = Count(fromDb') + (IF a.kind = "ready" THEN 1 ELSE 0) /\ Count(fromDb') \in Nat
    BY <1>1, <1>2, CountTail, CountType
  <2>3. seen'.ready + Count(fromDb') = seen'.cycles
    BY <1>4, <1>6, <2>1, <2>2 DEF ready, Ghosts
  <2> QED BY <2>3 DEF ReadyPerCycle, Count, Readies
<1>10. AuditedAsAnswered'
  <2>1. CASE ends /\ ~seen.overlap /\ ~seen.refused
    <3>1. BooksOn(fromDb, pgPending)
      BY <2>1 DEF AnswersBook
    <3>2. /\ a.kind = "complete" => a.of = pgPending
          /\ a.kind = "error" => a.of \in {pgPending, None}
      BY <1>2, <3>1 DEF BooksOn
    <3>3. item.sql = pgPending /\ (item.ok <=> a.kind = "complete") /\ item.of = a.of
      BY <2>1 DEF item, Item
    <3> QED BY <1>6, <2>1, <3>2, <3>3 DEF AuditedAsAnswered
  <2>2. CASE ~ends \/ seen.overlap \/ seen.refused
    BY <1>6, <2>2 DEF AuditedAsAnswered, item
  <2> QED BY <2>1, <2>2
<1>11. AnswersBook'
  <2> SUFFICES ASSUME ~seen.overlap, ~seen.refused
               PROVE  /\ pgPending' # None => BooksOn(fromDb', pgPending')
                      /\ seen'.inflight = 0 => BooksNothing(fromDb')
    BY <1>6 DEF AnswersBook
  <2>1. /\ pgPending # None => BooksOn(fromDb, pgPending)
        /\ seen.inflight = 0 => BooksNothing(fromDb)
    BY DEF AnswersBook
  <2>2. \A i \in 1..Len(Tail(fromDb)) : i + 1 \in 1..Len(fromDb)
    BY <1>1, <1>2
  <2>3. /\ BooksNothing(fromDb) => BooksNothing(Tail(fromDb))
        /\ BooksOn(fromDb, pgPending) => BooksOn(Tail(fromDb), pgPending)
    BY <1>2, <2>2 DEF BooksNothing, BooksOn
  <2>4. ASSUME Tail(fromDb) = <<>> PROVE BooksNothing(Tail(fromDb))
    <3>1. \A e : e = <<>> => Len(e) = 0
      OBVIOUS
    <3>2. Len(Tail(fromDb)) = 0
      BY <2>4, <3>1
    <3> QED BY <3>2 DEF BooksNothing
  <2> QED BY <1>1, <1>6, <2>1, <2>3, <2>4 DEF inflight
<1> QED BY <1>7, <1>8, <1>9, <1>10, <1>11

\* Every step of the PostgreSQL proxy keeps the invariant.
LEMMA NextKeepsPgInv ==
    ASSUME PgInv, [PostgresNext]_pgVars
    PROVE  PgInv'
<1>1. ASSUME NEW m \in Msgs, m.kind \notin {"Query", "Execute"}, Extended(m) PROVE PgInv'
  <2>1. Passes(m, None, Cycle(m))
    BY <1>1, CycleFacts DEF Passes, Extended, PgInv, PgTypeOK
  <2> QED BY <2>1, PassKeepsPgInv
<1>2. ASSUME NEW m \in Msgs, m.kind \in {"Query", "Execute"}, Allowed(m) PROVE PgInv'
  <2> DEFINE c == Cycle(m)
             inflight == c.inflight + 1
             overlap == c.overlap \/ seen.inflight > 0
             s == [c EXCEPT !.inflight = inflight, !.overlap = overlap]
  <2>1. /\ c \in Ghosts /\ c.ready = seen.ready /\ c.refused = seen.refused
        /\ c.inflight = seen.inflight /\ c.overlap = seen.overlap /\ c.ran = seen.ran
        /\ c.cycles = seen.cycles + (IF m.kind \in {"Query", "Sync"} THEN 1 ELSE 0)
        /\ c.item = seen.item
    BY CycleFacts DEF PgInv, PgTypeOK
  <2>2. Send(m, StatementOf(m), s)
    BY <1>2 DEF Allowed
  <2> HIDE DEF c
  <2>. inflight \in Nat /\ overlap \in BOOLEAN
    BY <2>1 DEF Ghosts
  <2> HIDE DEF inflight, overlap
  <2>3. /\ s \in Ghosts /\ s.ready = c.ready /\ s.refused = c.refused /\ s.ran = c.ran
        /\ s.inflight = inflight /\ s.overlap = overlap /\ s.cycles = c.cycles /\ s.item = c.item
    BY <2>1 DEF Ghosts
  <2> HIDE DEF s
  <2>4. Passes(m, StatementOf(m), s)
    BY <1>2, <2>1, <2>2, <2>3 DEF Passes, Allowed, Pending, inflight, overlap
  <2> QED BY <2>4, PassKeepsPgInv
<1>3. ASSUME NEW k \in {"Parse", "Bind", "Sync", "Close", "Execute", "Query"},
             NEW q \in PgSqls \cup {None}
      PROVE  PgMsg(k, q) \in Msgs /\ PgMsg(k, q).kind = k
  BY DEF PgMsg, Msgs, PgVals
<1>4. ASSUME NEW q \in PgSqls, Extended(PgMsg("Parse", q)) PROVE PgInv'
  BY <1>1, <1>3, <1>4
<1>5. ASSUME NEW k \in {"Bind", "Sync", "Close"}, Extended(PgMsg(k, None)) PROVE PgInv'
  BY <1>1, <1>3, <1>5
<1>6. ASSUME NEW m \in {PgMsg("Execute", None)} \cup {PgMsg("Query", q) : q \in PgSqls},
             Blocked(m) \/ Allowed(m)
      PROVE  PgInv'
  <2>1. m \in Msgs /\ m.kind \in {"Query", "Execute"}
    BY <1>3
  <2> QED BY <1>2, <1>6, <2>1, BlockedKeepsPgInv
<1>7. CASE PgTick
  <2>1. PgTypeOK' /\ Tracks' /\ SkipsInBatch' /\ Unread' /\ PostgresSecretKept' /\ GatedAsRun'
    BY <1>7 DEF PgTick, PgInv, PgTypeOK, Tracks, SkipsInBatch, Unread, PostgresSecretKept, GatedAsRun
  <2>2. AnswersBook' /\ AuditedAsAnswered' /\ ReadyPerCycle'
    BY <1>7 DEF PgTick, PgInv, AnswersBook, BooksOn, BooksNothing, AuditedAsAnswered, ReadyPerCycle
  <2> QED BY <2>1, <2>2 DEF PgInv
<1>8. CASE UNCHANGED pgVars
  <2>1. PgTypeOK' /\ Tracks' /\ SkipsInBatch' /\ Unread' /\ PostgresSecretKept' /\ GatedAsRun'
    BY <1>8 DEF pgVars, PgInv, PgTypeOK, Tracks, SkipsInBatch, Unread, PostgresSecretKept, GatedAsRun
  <2>2. AnswersBook' /\ AuditedAsAnswered' /\ ReadyPerCycle'
    BY <1>8 DEF pgVars, PgInv, AnswersBook, BooksOn, BooksNothing, AuditedAsAnswered, ReadyPerCycle
  <2> QED BY <2>1, <2>2 DEF PgInv
<1>9. CASE IdleClose \/ PgLost
  BY <1>9, EndKeepsPgInv DEF IdleClose, PgLost
<1> QED BY <1>4, <1>5, <1>6, <1>7, <1>8, <1>9, HandshakeKeepsPgInv, AnsweredKeepsPgInv
    DEF PostgresNext

\* A connection begins with it.
LEMMA InitPgInv ==
    ASSUME PostgresInit
    PROVE  PgInv
<1>1. None \in PgVals
  BY DEF PgVals
<1>2. NothingSeen \in Ghosts /\ NothingSeen.ran.sql = NothingSeen.ran.asked
  BY <1>1 DEF NothingSeen, Ghosts
<1>3. /\ IdleDb \in Dbs /\ IdleDb.stmt = None /\ IdleDb.portal = None /\ ~IdleDb.skipping
      /\ NothingSeen.inflight = 0 /\ ~NothingSeen.item.ok /\ NothingSeen.item.of = None
  BY <1>1 DEF IdleDb, Dbs, NothingSeen
<1>4. fromDb \in Seq(Answers) /\ Len(fromDb) = 0
  BY DEF PostgresInit
<1>5. pgLink \in Links /\ PostgresSecretKept
  <2>1. PICK mode \in {"disabled", "preferred", "required"}, password \in BOOLEAN :
          pgLink = [client |-> FALSE, up |-> FALSE, mode |-> mode,
                    password |-> password, exposed |-> FALSE, asked |-> FALSE]
    BY DEF PostgresInit
  <2> QED BY <2>1 DEF Links, PostgresSecretKept
<1>6. PgTypeOK
  <2>1. sent \in [left : {0, MAX_MESSAGES}, batch : {FALSE}]
    BY DEF PostgresInit
  <2>2. sent \in [left : Nat, batch : BOOLEAN]
    <3>1. {0, MAX_MESSAGES} \subseteq Nat
      BY PostgresAssumption
    <3>2. {FALSE} \subseteq BOOLEAN
      OBVIOUS
    <3>3. ASSUME NEW A, NEW B, A \subseteq Nat, B \subseteq BOOLEAN
          PROVE  [left : A, batch : B] \subseteq [left : Nat, batch : BOOLEAN]
      BY <3>3
    <3> QED BY <2>1, <3>1, <3>2, <3>3
  <2>3. /\ pgPc = "startup" /\ prepared = None /\ portal = None /\ pgPending = None
        /\ db = IdleDb /\ idle = 0 /\ seen = NothingSeen
    BY DEF PostgresInit
  <2> QED BY <1>1, <1>2, <1>3, <1>4, <1>5, <2>2, <2>3 DEF PgTypeOK
<1>7. Tracks /\ SkipsInBatch /\ Unread
  BY <1>3 DEF PostgresInit, Tracks, SkipsInBatch, Unread
<1>8. AnswersBook
  BY <1>4 DEF AnswersBook, BooksOn, BooksNothing
<1>9. GatedAsRun /\ ReadyPerCycle /\ AuditedAsAnswered
  BY <1>2, <1>3 DEF PostgresInit, GatedAsRun, ReadyPerCycle, AuditedAsAnswered
<1> QED BY <1>5, <1>6, <1>7, <1>8, <1>9 DEF PgInv

-----------------------------------------------------------------------------
(* The steps of the MySQL proxy. *)

\* An answer with a plugin's scramble keeps the secret on a link that may carry it.
LEMMA AnswerKeeps ==
    ASSUME NEW up \in MyUps, NEW plugin, up.exposed => up.mode = "disabled",
           up.mode = "disabled" \/ up.tls \/ ~up.password
    PROVE  /\ Answer(up, plugin) \in MyUps
           /\ Answer(up, plugin).exposed => Answer(up, plugin).mode = "disabled"
           /\ Answer(up, plugin).mode = up.mode
           /\ Answer(up, plugin).tls = up.tls /\ Answer(up, plugin).password = up.password
<1> DEFINE e == up.exposed \/ (up.password /\ ~up.tls /\ Shows(plugin))
<1>1. e \in BOOLEAN /\ (e => up.mode = "disabled")
  BY DEF MyUps
<1>2. Answer(up, plugin) = [up EXCEPT !.exposed = e]
  BY DEF Answer
<1> HIDE DEF e
<1> QED BY <1>1, <1>2 DEF MyUps

\* Every step of the MySQL proxy keeps the invariant.
LEMMA NextKeepsMyInv ==
    ASSUME MyInv, [MySqlNext]_myVars
    PROVE  MyInv'
<1> USE DEF MyInv
<1>1. ASSUME UNCHANGED myUp, myPc' # "authenticate" \/ myPc' = myPc PROVE MyInv'
  BY <1>1 DEF MySqlSecretKept
<1>2. ASSUME MyEnd PROVE MyInv'
  BY <1>1, <1>2 DEF MyEnd
<1>3. ASSUME \/ Handshake \/ HandshakeResponse \/ AuthSwitch \/ MyLogin \/ MyTarget
             \/ Quit \/ PassthroughUntilResult \/ MyLost
      PROVE  MyInv'
  BY <1>1, <1>2, <1>3
  DEF Handshake, HandshakeResponse, AuthSwitch, MyLogin, MyTarget, Quit,
      PassthroughUntilResult, MyLost
<1>4. ASSUME (\E v \in Verdicts : Query(v)) \/ Forward \/ NotImplemented \/ RelayQuery
      PROVE  MyInv'
  BY <1>1, <1>2, <1>4 DEF Query, Forward, NotImplemented, RelayQuery
<1>5. CASE UpstreamGreets
  <2>1. PICK ssl \in BOOLEAN, dep \in BOOLEAN, plugin \in Plugins :
          \/ MyEnd
          \/ /\ ~Refuses(Negotiated(ssl, dep))
             /\ myUp' = Answer(Negotiated(ssl, dep), plugin) /\ myPc' = "authenticate"
    BY <1>5 DEF UpstreamGreets
  <2> DEFINE tls == ssl /\ myUp.mode # "disabled"
             both == dep /\ myClient.deprecateEof
             up == [myUp EXCEPT !.tls = tls, !.deprecateEof = both]
  <2>2. ASSUME ~Refuses(Negotiated(ssl, dep)), both \in BOOLEAN
        PROVE  /\ Negotiated(ssl, dep) \in MyUps
               /\ Negotiated(ssl, dep).exposed => Negotiated(ssl, dep).mode = "disabled"
               /\ \/ Negotiated(ssl, dep).mode = "disabled"
                  \/ Negotiated(ssl, dep).tls \/ ~Negotiated(ssl, dep).password
    <3>1. Negotiated(ssl, dep) = up
      BY DEF Negotiated
    <3>2. tls \in BOOLEAN
      OBVIOUS
    <3> HIDE DEF tls, both
    <3>3. /\ up \in MyUps /\ up.exposed = myUp.exposed /\ up.mode = myUp.mode /\ up.tls = tls
          /\ up.password = myUp.password
      BY <2>2, <3>2 DEF MyUps
    <3>4. ~Refuses(up)
      BY <2>2, <3>1
    <3> HIDE DEF up
    <3> QED BY <3>1, <3>3, <3>4 DEF Refuses, MySqlSecretKept
  <2>3. both \in BOOLEAN
    OBVIOUS
  <2> HIDE DEF tls, both, up
  <2>4. ASSUME NEW u, u = Answer(Negotiated(ssl, dep), plugin), ~Refuses(Negotiated(ssl, dep)),
               myUp' = u, myPc' = "authenticate"
        PROVE  MyInv'
    BY <2>2, <2>3, <2>4, AnswerKeeps DEF MySqlSecretKept
  <2> QED BY <1>2, <2>1, <2>4
<1>6. CASE UpstreamAuthenticates
  <2>1. /\ myUp.exposed => myUp.mode = "disabled"
        /\ myUp.mode = "disabled" \/ myUp.tls \/ ~myUp.password
    BY <1>6 DEF UpstreamAuthenticates, MySqlSecretKept
  <2>2. ASSUME NEW plugin, myUp' = Answer(myUp, plugin) PROVE MyInv'
    BY <2>1, <2>2, AnswerKeeps DEF MySqlSecretKept
  <2> QED BY <1>1, <1>2, <1>6, <2>2 DEF UpstreamAuthenticates, handle_caching_sha2_more_data
<1>7. CASE UNCHANGED myVars
  BY <1>1, <1>7 DEF myVars
<1> QED BY <1>3, <1>4, <1>5, <1>6, <1>7 DEF MySqlNext

\* A connection begins with it.
LEMMA InitMyInv ==
    ASSUME MySqlInit
    PROVE  MyInv
<1>1. PICK mode \in Modes, password \in BOOLEAN :
        myUp = [mode |-> mode, password |-> password, tls |-> FALSE,
                deprecateEof |-> FALSE, exposed |-> FALSE]
  BY DEF MySqlInit
<1> QED BY <1>1 DEF MySqlInit, MyInv, MyUps, MySqlSecretKept

-----------------------------------------------------------------------------
(* The theorems about the database proxies. *)

\* A session of the PostgreSQL proxy keeps its invariant, whatever the client sends, the rules
\* decide and the target answers.
THEOREM PostgresKeepsInv == PostgresSpec => []PgInv
<1>1. PostgresInit => PgInv
  BY InitPgInv
<1>2. PgInv /\ [PostgresNext]_pgVars => PgInv'
  BY NextKeepsPgInv
<1> QED BY <1>1, <1>2, PTL DEF PostgresSpec

\* What the target runs is what the command rules were asked about, until the target refuses
\* a Parse: the proxy's prepared_sql and portal_sql stay the target's own (session.rs).
THEOREM PostgresGatedAsRun == PostgresSpec => []GatedAsRun
<1>1. PgInv => GatedAsRun
  BY DEF PgInv
<1> QED BY <1>1, PostgresKeepsInv, PTL

\* Every Query and Sync is answered with exactly one ReadyForQuery, blocked or not, skipped or
\* not, however many are sent before the first answer is read (session.rs).
THEOREM PostgresReadyPerCycle == PostgresSpec => []ReadyPerCycle
<1>1. PgInv => ReadyPerCycle
  BY DEF PgInv
<1> QED BY <1>1, PostgresKeepsInv, PTL

\* An audit item is about the statement that was answered, while the client has one in flight
\* and the target refused no Parse (session.rs, pending_audit).
THEOREM PostgresAuditedAsAnswered == PostgresSpec => []AuditedAsAnswered
<1>1. PgInv => AuditedAsAnswered
  BY DEF PgInv
<1> QED BY <1>1, PostgresKeepsInv, PTL

\* A session of the MySQL proxy keeps its invariant, whatever the target offers and asks for.
THEOREM MySqlKeepsInv == MySqlSpec => []MyInv
<1>1. MySqlInit => MyInv
  BY InitMyInv
<1>2. MyInv /\ [MySqlNext]_myVars => MyInv'
  BY NextKeepsMyInv
<1> QED BY <1>1, <1>2, PTL DEF MySqlSpec

\* The checked composition is a session of each proxy.
THEOREM DbProxyComposes == DbProxySpec => PostgresSpec /\ MySqlSpec
<1>1. DbProxyInit => PostgresInit /\ MySqlInit
  BY DEF DbProxyInit
<1>2. [DbProxyNext]_dbProxyVars => [PostgresNext]_pgVars
  BY DEF DbProxyNext, dbProxyVars
<1>3. [DbProxyNext]_dbProxyVars => [MySqlNext]_myVars
  BY DEF DbProxyNext, dbProxyVars
<1> QED BY <1>1, <1>2, <1>3, PTL DEF DbProxySpec, PostgresSpec, MySqlSpec

\* No stored password leaves on a plain link that was meant to be TLS, and no user is asked for
\* one there, whatever either target offers, switches to or asks for (both client.rs).
THEOREM DbProxySecretsOverTls == DbProxySpec => []SecretsOverTls
<1>1. PgInv /\ MyInv => SecretsOverTls
  BY DEF PgInv, MyInv, SecretsOverTls
<1> QED BY <1>1, DbProxyComposes, PostgresKeepsInv, MySqlKeepsInv, PTL
=============================================================================
