------------------------ MODULE ProfileManagerProofs ------------------------
(***************************************************************************)
(* Proofs about ProfileManager: what the manager takes for connected is    *)
(* connected, and neither of its two reconnections stalls, for every limit *)
(* and with requests at power up and at any later time.                    *)
(***************************************************************************)
EXTENDS ProfileManager, TLAPS

(***************************************************************************)
(* The invariant                                                           *)
(***************************************************************************)
\* Statuses and the profiles' states; a profile that is not closed has been used.
StatusesTrue ==
    /\ hfp_connect = "success" <=> hf = "open"
    /\ a2dp_connect = "success" <=> a2dp = "open"
    /\ has_connected <=> (hf = "open" \/ a2dp = "open")
    /\ hf # "closed" \/ hfp_connect # "unknow" => hfp_act

\* Nothing has happened before the first request.
NothingYet ==
    asked = "never" => /\ reconnect_mode = "null" /\ hf = "closed" /\ a2dp = "closed"
                       /\ handler = "idle" /\ ~connect_timer /\ ~expired

\* The retry of A2DP is only called in the reconnection at power up, with hands-free open.
CallFits == connect_timer_cb => reconnect_mode = "openreconnecting" /\ hf = "open"

(* In the reconnection at power up an open A2DP waits for hands-free.  The *)
(* first one begins with both profiles closed, so it is not refused; and   *)
(* once its retry has been called A2DP is being opened or open, so no      *)
(* event sets the call before the timer thread has cleared it.             *)
OpeningFits ==
    /\ reconnect_mode = "openreconnecting" /\ stall = "none" /\ a2dp = "open" => hf = "trying"
    /\ asked # "again" =>
         /\ stall = "none"
         /\ reconnect_mode = "openreconnecting" /\ handler = "clear" => a2dp # "closed"

\* A phone without hands-free that is reconnected has used A2DP, which is not open.
MusicOnly == reconnect_mode = "reconnecting" /\ ~hfp_act => a2dp_act /\ a2dp # "open"

IInv ==
    /\ TypeOK /\ StatusesTrue /\ NothingYet /\ CallFits
    /\ OpeningFits /\ MusicOnly /\ OpeningAlive /\ RetryComing

LEMMA InitIInv == Init => IInv
  <1> SUFFICES ASSUME Init PROVE IInv
    OBVIOUS
  <1> USE DEF Init
  <1>1. TypeOK /\ StatusesTrue
    BY DEF TypeOK, StatusesTrue
  <1>2. NothingYet /\ CallFits /\ OpeningFits /\ MusicOnly
    BY DEF NothingYet, CallFits, OpeningFits, MusicOnly
  <1>3. OpeningAlive /\ RetryComing
    BY DEF OpeningAlive, RetryComing
  <1>4. QED
    BY <1>1, <1>2, <1>3 DEF IInv

(***************************************************************************)
(* Every conjunct is kept by every action                                  *)
(***************************************************************************)
\* What an event that counts a failure leaves.
LEMMA TypeRetry ==
  TypeOK /\ Retry =>
    /\ reconnect_cnt' \in Nat /\ reconnect_mode' \in {"null", "reconnecting"}
    /\ connect_timer' \in BOOLEAN /\ connect_timer_cb' \in BOOLEAN
    /\ UNCHANGED <<expired, handler>>
  <1> SUFFICES ASSUME TypeOK, Retry
               PROVE  /\ reconnect_cnt' \in Nat /\ reconnect_mode' \in {"null", "reconnecting"}
                      /\ connect_timer' \in BOOLEAN /\ connect_timer_cb' \in BOOLEAN
                      /\ UNCHANGED <<expired, handler>>
    OBVIOUS
  <1>1. reconnect_cnt \in Nat
    BY DEF TypeOK
  <1>2. reconnect_cnt' \in Nat
    BY <1>1 DEF Retry
  <1>3. reconnect_mode' \in {"null", "reconnecting"}
    BY DEF Retry
  <1>4. (reconnect_cnt + 1 < LIMIT) \in BOOLEAN
    OBVIOUS
  <1>5. connect_timer' \in BOOLEAN
    BY <1>4, Zenon DEF Retry, Timer
  <1>6. connect_timer_cb' \in BOOLEAN /\ UNCHANGED <<expired, handler>>
    BY Zenon DEF Retry, Timer
  <1>7. QED
    BY <1>2, <1>3, <1>5, <1>6

LEMMA TypeHfDisconnected ==
  ASSUME TypeOK, HfDisconnected
  PROVE  TypeOK'
  <1>1. /\ UNCHANGED <<a2dp_connect, hfp_act, a2dp_act, a2dp, near, asked, stall>>
        /\ hf' = "closed" /\ acl' \in {"none", "up", "lost"}
    BY DEF HfDisconnected, record, LinkAfter, TypeOK
  <1>2. has_connected' \in BOOLEAN /\ hfp_connect' \in {"unknow", "failure"}
    BY DEF HfDisconnected, Report
  <1>3. /\ reconnect_cnt' \in Nat /\ reconnect_mode' \in {"null", "reconnecting"}
        /\ connect_timer' \in BOOLEAN /\ connect_timer_cb' \in BOOLEAN
        /\ UNCHANGED <<expired, handler>>
    BY TypeRetry DEF HfDisconnected, Timer, TypeOK
  <1>4. QED
    BY <1>1, <1>2, <1>3 DEF TypeOK

LEMMA TypeA2dpClosed ==
  ASSUME TypeOK, A2dpClosed
  PROVE  TypeOK'
  <1>1. /\ UNCHANGED <<hfp_connect, hfp_act, a2dp_act, hf, near, asked, stall>>
        /\ a2dp' = "closed" /\ acl' \in {"none", "up", "lost"}
    BY DEF A2dpClosed, record, LinkAfter, TypeOK
  <1>2. has_connected' \in BOOLEAN /\ a2dp_connect' \in {"unknow", "failure"}
    BY DEF A2dpClosed, Report
  <1>3. /\ reconnect_cnt' \in Nat /\ reconnect_mode' \in {"null", "reconnecting"}
        /\ connect_timer' \in BOOLEAN /\ connect_timer_cb' \in BOOLEAN
        /\ UNCHANGED <<expired, handler>>
    BY TypeRetry DEF A2dpClosed, Timer, TypeOK
  <1>4. QED
    BY <1>1, <1>2, <1>3 DEF TypeOK

LEMMA TypeHfConnected ==
  ASSUME TypeOK, HfConnected
  PROVE  TypeOK'
  <1>1. /\ UNCHANGED <<a2dp_connect, a2dp_act, near, asked, stall>>
        /\ hf' = "open" /\ acl' = "up" /\ hfp_act' = TRUE
        /\ hfp_connect' = "success" /\ reconnect_cnt' = 0
    BY DEF HfConnected
  <1>2. has_connected' \in BOOLEAN
    BY DEF HfConnected, Report
  <1>3. reconnect_mode' \in {"null", "openreconnecting", "reconnecting"}
    BY DEF HfConnected, TypeOK
  <1>4. a2dp' \in {"closed", "trying", "open"}
    BY DEF HfConnected, Attempt, TypeOK
  <1>5. /\ connect_timer' \in BOOLEAN /\ connect_timer_cb' \in BOOLEAN
        /\ UNCHANGED <<expired, handler>>
    BY DEF HfConnected, CallLater, Timer, TypeOK
  <1>6. QED
    BY <1>1, <1>2, <1>3, <1>4, <1>5 DEF TypeOK

LEMMA TypeA2dpOpen ==
  ASSUME TypeOK, A2dpOpen
  PROVE  TypeOK'
  <1>1. /\ UNCHANGED <<hfp_connect, hfp_act, near, asked, stall>>
        /\ a2dp' = "open" /\ acl' = "up" /\ a2dp_act' = TRUE
        /\ a2dp_connect' = "success" /\ reconnect_cnt' = 0
    BY DEF A2dpOpen
  <1>2. has_connected' \in BOOLEAN
    BY DEF A2dpOpen, Report
  <1>3. reconnect_mode' \in {"null", "openreconnecting", "reconnecting"}
    BY DEF A2dpOpen, TypeOK
  <1>4. hf' \in {"closed", "trying", "open"}
    BY DEF A2dpOpen, Attempt, TypeOK
  <1>5. /\ connect_timer' \in BOOLEAN /\ connect_timer_cb' \in BOOLEAN
        /\ UNCHANGED <<expired, handler>>
    BY DEF A2dpOpen, Timer, TypeOK
  <1>6. QED
    BY <1>1, <1>2, <1>3, <1>4, <1>5 DEF TypeOK

\* The timer's steps and the request.
LEMMA TypeExpire == TypeOK /\ Expire => TypeOK'
  BY DEF TypeOK, Expire, status, record, library

LEMMA TypeTimerHandler == TypeOK /\ TimerHandler => TypeOK'
  BY DEF TypeOK, TimerHandler, status, record, library

LEMMA TypeRequest ==
  ASSUME TypeOK, OpeningReconnect
  PROVE  TypeOK'
  <1>1. UNCHANGED <<hfp_connect, a2dp_connect, has_connected, reconnect_cnt, connect_timer,
                    expired, connect_timer_cb, handler, hfp_act, a2dp_act, acl, near>>
    BY DEF OpeningReconnect, timer, record
  <1>2. reconnect_mode' \in {"null", "openreconnecting", "reconnecting"}
    BY DEF OpeningReconnect, TypeOK
  <1>3. hf' \in {"closed", "trying", "open"} /\ a2dp' \in {"closed", "trying", "open"}
    BY DEF OpeningReconnect, Attempt, TypeOK
  <1>4. asked' \in {"never", "once", "again"} /\ stall' \in {"none", "refused", "wiped"}
    BY DEF OpeningReconnect, TypeOK
  <1>5. QED
    BY <1>1, <1>2, <1>3, <1>4 DEF TypeOK

LEMMA TypeTimerClear == TypeOK /\ TimerClear => TypeOK'
  BY DEF TypeOK, TimerClear, status, record, library

\* The values of the variables.
LEMMA TypeStep ==
  ASSUME TypeOK, [Next]_vars
  PROVE  TypeOK'
  <1>1. CASE OpeningReconnect
    BY <1>1, TypeRequest
  <1>2. CASE Expire
    BY <1>2, TypeExpire
  <1>3. CASE TimerHandler
    BY <1>3, TypeTimerHandler
  <1>4. CASE TimerConnect
    <2>1. UNCHANGED <<status, connect_timer, expired, connect_timer_cb, record, acl, near, asked, stall>>
      BY <1>4 DEF TimerConnect
    <2>2. handler' = "idle" /\ hf' \in {"closed", "trying", "open"} /\ a2dp' \in {"closed", "trying", "open"}
      BY <1>4 DEF TimerConnect, Attempt, TypeOK
    <2>3. QED
      BY <2>1, <2>2 DEF TypeOK, status, record
  <1>5. CASE TimerRetry
    <2>1. UNCHANGED <<status, connect_timer, expired, connect_timer_cb, record, hf, acl, near, asked, stall>>
      BY <1>5 DEF TimerRetry
    <2>2. handler' = "clear" /\ a2dp' \in {"closed", "trying", "open"}
      BY <1>5 DEF TimerRetry, Attempt, TypeOK
    <2>3. QED
      BY <2>1, <2>2 DEF TypeOK, status, record
  <1>6. CASE TimerClear
    BY <1>6, TypeTimerClear
  <1>7. CASE HfConnected
    BY <1>7, TypeHfConnected
  <1>8. CASE HfDisconnected
    BY <1>8, TypeHfDisconnected
  <1>9. CASE A2dpOpen
    BY <1>9, TypeA2dpOpen
  <1>10. CASE A2dpClosed
    BY <1>10, TypeA2dpClosed
  <1>11. CASE Move
    BY <1>11 DEF TypeOK, Move, status, timer, record, library
  <1>12. CASE LinkLost
    BY <1>12 DEF TypeOK, LinkLost, status, timer, record
  <1>13. CASE UNCHANGED vars
    BY <1>13 DEF TypeOK, vars, status, timer, record, library
  <1>14. QED
    BY <1>1, <1>2, <1>3, <1>4, <1>5, <1>6, <1>7,
       <1>8, <1>9, <1>10, <1>11, <1>12, <1>13 DEF Next

\* Both handlers keep the status of their profile and what the user was told.
LEMMA StatusesStep ==
  ASSUME TypeOK, StatusesTrue, NothingYet, [Next]_vars
  PROVE  StatusesTrue'
  <1> USE DEF TypeOK, StatusesTrue, NothingYet
  <1>1. CASE OpeningReconnect
    BY <1>1 DEF OpeningReconnect, Refusal, Paging, Attempt, timer, record
  <1>2. CASE Expire
    BY <1>2 DEF Expire, status, record, library
  <1>3. CASE TimerHandler
    BY <1>3 DEF TimerHandler, status, record, library
  <1>4. CASE TimerConnect
    BY <1>4 DEF TimerConnect, Attempt, status, record
  <1>5. CASE TimerRetry
    BY <1>5 DEF TimerRetry, Attempt, status, record
  <1>6. CASE TimerClear
    BY <1>6 DEF TimerClear, CallPending, status, record, library
  <1>7. CASE HfConnected
    BY <1>7 DEF HfConnected, CallLater, Attempt, Timer, Report
  <1>8. CASE HfDisconnected
    BY <1>8 DEF HfDisconnected, LinkAfter, Retry, Timer, Report, record
  <1>9. CASE A2dpOpen
    BY <1>9 DEF A2dpOpen, Attempt, Timer, Report
  <1>10. CASE A2dpClosed
    BY <1>10 DEF A2dpClosed, LinkAfter, Retry, Timer, Report, record
  <1>11. CASE Move
    BY <1>11 DEF Move, status, timer, record, library
  <1>12. CASE LinkLost
    BY <1>12 DEF LinkLost, status, timer, record
  <1>13. CASE UNCHANGED vars
    BY <1>13 DEF vars, status, timer, record, library
  <1>14. QED
    BY <1>1, <1>2, <1>3, <1>4, <1>5, <1>6, <1>7,
       <1>8, <1>9, <1>10, <1>11, <1>12, <1>13 DEF Next

\* An attempt or an event needs the first request.
LEMMA NothingStep ==
  ASSUME TypeOK, NothingYet, [Next]_vars
  PROVE  NothingYet'
  <1> USE DEF TypeOK, NothingYet
  <1>1. CASE OpeningReconnect
    BY <1>1 DEF OpeningReconnect, Refusal, Paging, Attempt, timer, record
  <1>2. CASE Expire
    BY <1>2 DEF Expire, status, record, library
  <1>3. CASE TimerHandler
    BY <1>3 DEF TimerHandler, status, record, library
  <1>4. CASE TimerConnect
    BY <1>4 DEF TimerConnect, Attempt, status, record
  <1>5. CASE TimerRetry
    BY <1>5 DEF TimerRetry, Attempt, status, record
  <1>6. CASE TimerClear
    BY <1>6 DEF TimerClear, CallPending, status, record, library
  <1>7. CASE HfConnected
    BY <1>7 DEF HfConnected, CallLater, Attempt, Timer, Report
  <1>8. CASE HfDisconnected
    BY <1>8 DEF HfDisconnected, LinkAfter, Retry, Timer, Report, record
  <1>9. CASE A2dpOpen
    BY <1>9 DEF A2dpOpen, Attempt, Timer, Report
  <1>10. CASE A2dpClosed
    BY <1>10 DEF A2dpClosed, LinkAfter, Retry, Timer, Report, record
  <1>11. CASE Move
    BY <1>11 DEF Move, status, timer, record, library
  <1>12. CASE LinkLost
    BY <1>12 DEF LinkLost, status, timer, record
  <1>13. CASE UNCHANGED vars
    BY <1>13 DEF vars, status, timer, record, library
  <1>14. QED
    BY <1>1, <1>2, <1>3, <1>4, <1>5, <1>6, <1>7,
       <1>8, <1>9, <1>10, <1>11, <1>12, <1>13 DEF Next

\* The call is set with hands-free open and cleared by the event that ends this.
LEMMA CallStep ==
  ASSUME TypeOK, CallFits, StatusesTrue, [Next]_vars
  PROVE  CallFits'
  <1> USE DEF TypeOK, CallFits, StatusesTrue
  <1>1. CASE OpeningReconnect
    BY <1>1 DEF OpeningReconnect, Refusal, Paging, Attempt, timer, record
  <1>2. CASE Expire
    BY <1>2 DEF Expire, status, record, library
  <1>3. CASE TimerHandler
    BY <1>3 DEF TimerHandler, status, record, library
  <1>4. CASE TimerConnect
    BY <1>4 DEF TimerConnect, Attempt, status, record
  <1>5. CASE TimerRetry
    BY <1>5 DEF TimerRetry, Attempt, status, record
  <1>6. CASE TimerClear
    BY <1>6 DEF TimerClear, CallPending, status, record, library
  <1>7. CASE HfConnected
    BY <1>7 DEF HfConnected, CallLater, Attempt, Timer, Report
  <1>8. CASE HfDisconnected
    BY <1>8 DEF HfDisconnected, LinkAfter, Retry, Timer, Report, record
  <1>9. CASE A2dpOpen
    BY <1>9 DEF A2dpOpen, Attempt, Timer, Report
  <1>10. CASE A2dpClosed
    BY <1>10 DEF A2dpClosed, LinkAfter, Retry, Timer, Report, record
  <1>11. CASE Move
    BY <1>11 DEF Move, status, timer, record, library
  <1>12. CASE LinkLost
    BY <1>12 DEF LinkLost, status, timer, record
  <1>13. CASE UNCHANGED vars
    BY <1>13 DEF vars, status, timer, record, library
  <1>14. QED
    BY <1>1, <1>2, <1>3, <1>4, <1>5, <1>6, <1>7,
       <1>8, <1>9, <1>10, <1>11, <1>12, <1>13 DEF Next

\* Once A2DP has been tried, its closing ends the reconnection at power up.
LEMMA OpeningFitsStep ==
  ASSUME TypeOK, OpeningFits, CallFits, StatusesTrue, NothingYet, [Next]_vars
  PROVE  OpeningFits'
  <1> USE DEF TypeOK, OpeningFits, CallFits, StatusesTrue, NothingYet
  <1>1. CASE OpeningReconnect
    BY <1>1 DEF OpeningReconnect, Refusal, Paging, Attempt, timer, record
  <1>2. CASE Expire
    BY <1>2 DEF Expire, status, record, library
  <1>3. CASE TimerHandler
    BY <1>3 DEF TimerHandler, status, record, library
  <1>4. CASE TimerConnect
    BY <1>4 DEF TimerConnect, Attempt, status, record
  <1>5. CASE TimerRetry
    BY <1>5 DEF TimerRetry, Attempt, status, record
  <1>6. CASE TimerClear
    BY <1>6 DEF TimerClear, CallPending, status, record, library
  <1>7. CASE HfConnected
    BY <1>7 DEF HfConnected, CallLater, Attempt, Timer, Report
  <1>8. CASE HfDisconnected
    BY <1>8 DEF HfDisconnected, LinkAfter, Retry, Timer, Report, record
  <1>9. CASE A2dpOpen
    BY <1>9 DEF A2dpOpen, Attempt, Timer, Report
  <1>10. CASE A2dpClosed
    BY <1>10 DEF A2dpClosed, LinkAfter, Retry, Timer, Report, record
  <1>11. CASE Move
    BY <1>11 DEF Move, status, timer, record, library
  <1>12. CASE LinkLost
    BY <1>12 DEF LinkLost, status, timer, record
  <1>13. CASE UNCHANGED vars
    BY <1>13 DEF vars, status, timer, record, library
  <1>14. QED
    BY <1>1, <1>2, <1>3, <1>4, <1>5, <1>6, <1>7,
       <1>8, <1>9, <1>10, <1>11, <1>12, <1>13 DEF Next

\* Only a phone without hands-free is reconnected because A2DP was lost.
LEMMA MusicStep ==
  ASSUME TypeOK, MusicOnly, StatusesTrue, [Next]_vars
  PROVE  MusicOnly'
  <1> USE DEF TypeOK, MusicOnly, StatusesTrue
  <1>1. CASE OpeningReconnect
    BY <1>1 DEF OpeningReconnect, Refusal, Paging, Attempt, timer, record
  <1>2. CASE Expire
    BY <1>2 DEF Expire, status, record, library
  <1>3. CASE TimerHandler
    BY <1>3 DEF TimerHandler, status, record, library
  <1>4. CASE TimerConnect
    BY <1>4 DEF TimerConnect, Attempt, status, record
  <1>5. CASE TimerRetry
    BY <1>5 DEF TimerRetry, Attempt, status, record
  <1>6. CASE TimerClear
    BY <1>6 DEF TimerClear, CallPending, status, record, library
  <1>7. CASE HfConnected
    BY <1>7 DEF HfConnected, CallLater, Attempt, Timer, Report
  <1>8. CASE HfDisconnected
    BY <1>8 DEF HfDisconnected, LinkAfter, Retry, Timer, Report, record
  <1>9. CASE A2dpOpen
    BY <1>9 DEF A2dpOpen, Attempt, Timer, Report
  <1>10. CASE A2dpClosed
    BY <1>10 DEF A2dpClosed, LinkAfter, Retry, Timer, Report, record
  <1>11. CASE Move
    BY <1>11 DEF Move, status, timer, record, library
  <1>12. CASE LinkLost
    BY <1>12 DEF LinkLost, status, timer, record
  <1>13. CASE UNCHANGED vars
    BY <1>13 DEF vars, status, timer, record, library
  <1>14. QED
    BY <1>1, <1>2, <1>3, <1>4, <1>5, <1>6, <1>7,
       <1>8, <1>9, <1>10, <1>11, <1>12, <1>13 DEF Next

\* What is outstanding at power up stays so until an event that ends or goes on.
LEMMA OpeningStep ==
  ASSUME TypeOK, OpeningAlive, OpeningFits, CallFits, StatusesTrue, NothingYet, [Next]_vars
  PROVE  OpeningAlive'
  <1> USE DEF TypeOK, OpeningAlive, CallPending, Trying, OpeningFits, CallFits, StatusesTrue, NothingYet
  <1>1. CASE OpeningReconnect
    BY <1>1 DEF OpeningReconnect, Refusal, Paging, Attempt, timer, record
  <1>2. CASE Expire
    BY <1>2 DEF Expire, status, record, library
  <1>3. CASE TimerHandler
    BY <1>3 DEF TimerHandler, status, record, library
  <1>4. CASE TimerConnect
    BY <1>4 DEF TimerConnect, Attempt, status, record
  <1>5. CASE TimerRetry
    BY <1>5 DEF TimerRetry, Attempt, status, record
  <1>6. CASE TimerClear
    BY <1>6 DEF TimerClear, CallPending, status, record, library
  <1>7. CASE HfConnected
    BY <1>7 DEF HfConnected, CallLater, Attempt, Timer, Report
  <1>8. CASE HfDisconnected
    BY <1>8 DEF HfDisconnected, LinkAfter, Retry, Timer, Report, record
  <1>9. CASE A2dpOpen
    BY <1>9 DEF A2dpOpen, Attempt, Timer, Report
  <1>10. CASE A2dpClosed
    BY <1>10 DEF A2dpClosed, LinkAfter, Retry, Timer, Report, record
  <1>11. CASE Move
    BY <1>11 DEF Move, status, timer, record, library
  <1>12. CASE LinkLost
    BY <1>12 DEF LinkLost, status, timer, record
  <1>13. CASE UNCHANGED vars
    BY <1>13 DEF vars, status, timer, record, library
  <1>14. QED
    BY <1>1, <1>2, <1>3, <1>4, <1>5, <1>6, <1>7,
       <1>8, <1>9, <1>10, <1>11, <1>12, <1>13 DEF Next

\* The timer's function finds a profile to try, and every failure starts the timer.
LEMMA RetryStep ==
  ASSUME TypeOK, RetryComing, CallFits, StatusesTrue, MusicOnly, [Next]_vars
  PROVE  RetryComing'
  <1> USE DEF TypeOK, RetryComing, Trying, CallFits, StatusesTrue, MusicOnly
  <1>1. CASE OpeningReconnect
    BY <1>1 DEF OpeningReconnect, Refusal, Paging, Attempt, timer, record
  <1>2. CASE Expire
    BY <1>2 DEF Expire, status, record, library
  <1>3. CASE TimerHandler
    BY <1>3 DEF TimerHandler, status, record, library
  <1>4. CASE TimerConnect
    BY <1>4 DEF TimerConnect, Attempt, status, record
  <1>5. CASE TimerRetry
    BY <1>5 DEF TimerRetry, Attempt, status, record
  <1>6. CASE TimerClear
    BY <1>6 DEF TimerClear, CallPending, status, record, library
  <1>7. CASE HfConnected
    BY <1>7 DEF HfConnected, CallLater, Attempt, Timer, Report
  <1>8. CASE HfDisconnected
    BY <1>8 DEF HfDisconnected, LinkAfter, Retry, Timer, Report, record
  <1>9. CASE A2dpOpen
    BY <1>9 DEF A2dpOpen, Attempt, Timer, Report
  <1>10. CASE A2dpClosed
    BY <1>10 DEF A2dpClosed, LinkAfter, Retry, Timer, Report, record
  <1>11. CASE Move
    BY <1>11 DEF Move, status, timer, record, library
  <1>12. CASE LinkLost
    BY <1>12 DEF LinkLost, status, timer, record
  <1>13. CASE UNCHANGED vars
    BY <1>13 DEF vars, status, timer, record, library
  <1>14. QED
    BY <1>1, <1>2, <1>3, <1>4, <1>5, <1>6, <1>7,
       <1>8, <1>9, <1>10, <1>11, <1>12, <1>13 DEF Next

LEMMA NextIInv == IInv /\ [Next]_vars => IInv'
  BY TypeStep, StatusesStep, NothingStep, CallStep, OpeningFitsStep, MusicStep,
     OpeningStep, RetryStep DEF IInv

LEMMA IInvAlways == Spec => []IInv
  BY InitIInv, NextIInv, PTL DEF Spec

(***************************************************************************)
(* The theorems                                                            *)
(***************************************************************************)
\* Every variable keeps its type, whatever the phone and the timer thread do.
THEOREM TypeCorrect == Spec => []TypeOK
  <1>1. IInv => TypeOK
    BY DEF IInv
  <1>2. QED
    BY <1>1, IInvAlways, PTL

\* What the user was told last is whether a profile of the phone is open.
THEOREM ConnectedIsTrue == Spec => []ConnectedTrue
  <1>1. IInv => ConnectedTrue
    BY DEF IInv, TypeOK, StatusesTrue, ConnectedTrue
  <1>2. QED
    BY <1>1, IInvAlways, PTL

\* The reconnection at power up never waits for nothing, but for a repeated
\* request that was refused or whose call was wiped.
THEOREM OpeningNeverStalls == Spec => []OpeningAlive
  <1>1. IInv => OpeningAlive
    BY DEF IInv
  <1>2. QED
    BY <1>1, IInvAlways, PTL

\* A reconnection after a loss never waits for nothing while hands-free is down.
THEOREM RetryNeverStalls == Spec => []RetryComing
  <1>1. IInv => RetryComing
    BY DEF IInv
  <1>2. QED
    BY <1>1, IInvAlways, PTL
=============================================================================
