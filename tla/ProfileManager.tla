--------------------------- MODULE ProfileManager ---------------------------
(***************************************************************************)
(* How an earbud connects the two profiles of a phone, hands-free (HFP)    *)
(* and music (A2DP), and gets them back after the link is lost: the        *)
(* profile connect manager of services/bt_app/app_bt.cpp, for one phone,   *)
(* in the bud that talks to the phone (config/JBL-C330-R).                 *)
(*                                                                         *)
(* The profile library is external: what its headers promise.  An attempt  *)
(* is answered once, by a connected or a disconnected event; an attempt on *)
(* a profile that is open or being opened is refused with BT_STATUS_BUSY   *)
(* (hf.h:2569), and the manager ignores what the call returns.  Events are *)
(* handled by the thread of the stack, the timer's function by the timer   *)
(* thread of the kernel: osTimerStop does not take back an expiry that is  *)
(* waiting for that thread (rtx/TARGET_CORTEX_M/rt_CMSIS.c:964).           *)
(***************************************************************************)
EXTENDS Naturals

CONSTANT LIMIT      \* APP_BT_PROFILE_RECONNECT_RETRY_LIMIT_CNT

ASSUME LimitAssumption == LIMIT \in Nat \ {0}

VARIABLES
    reconnect_mode,     \* "null", "openreconnecting" or "reconnecting"
    hfp_connect,        \* "unknow", "success" or "failure"
    a2dp_connect,
    has_connected,
    reconnect_cnt,
    connect_timer,      \* whether the timer runs
    expired,            \* an expiry waits for the timer thread
    connect_timer_cb,   \* whether the retry of A2DP is to be called
    handler,            \* what the timer thread is at: "idle", "connect" the
                        \* profile, "retry" A2DP or "clear" the call
    hfp_act, a2dp_act,  \* the record's flags: the phone has used the profile
    hf, a2dp,           \* external: "closed", "trying" or "open"
    acl,                \* external: the link is "none", "up" or "lost"
    near,               \* the phone is in range
    asked,              \* opening_reconnect was called "never", "once", when
                        \* booted, or "again", by the true-wireless code
    stall               \* history: the last reconnection at power up began with
                        \* an attempt that was "refused", or its call of the
                        \* retry was "wiped" by the timer thread; or "none"

status == <<reconnect_mode, hfp_connect, a2dp_connect, has_connected, reconnect_cnt>>
timer == <<connect_timer, expired, connect_timer_cb, handler>>
record == <<hfp_act, a2dp_act>>
library == <<hf, a2dp, acl>>
vars == <<status, timer, record, library, near, asked, stall>>

(***************************************************************************)
(* The library                                                             *)
(***************************************************************************)
\* HF_CreateServiceLink and A2DP_OpenStream
Attempt(profile) == IF profile = "closed" THEN "trying" ELSE profile

\* MEC(pendCons): a link that does not exist yet is being made
Paging == acl = "none" /\ "trying" \in {hf, a2dp}

\* The link once a profile has closed and the other is as given
LinkAfter(other) == IF other = "closed" THEN "none" ELSE acl

(***************************************************************************)
(* The start                                                               *)
(***************************************************************************)
\* app_bt_profile_connect_manager_open, for a phone whose record says what it has used
Init ==
    /\ reconnect_mode = "null" /\ hfp_connect = "unknow" /\ a2dp_connect = "unknow"
    /\ has_connected = FALSE /\ reconnect_cnt = 0
    /\ connect_timer = FALSE /\ expired = FALSE
    /\ connect_timer_cb = FALSE /\ handler = "idle"
    /\ hfp_act \in BOOLEAN /\ a2dp_act \in BOOLEAN
    /\ hf = "closed" /\ a2dp = "closed" /\ acl = "none"
    /\ near \in BOOLEAN /\ asked = "never" /\ stall = "none"

\* The attempt of the request is on a profile that is open
Refusal == IF hfp_act THEN hf = "open" ELSE a2dp = "open"

(* opening_reconnect: a record of which neither profile was used has been  *)
(* deleted; nothing happens while a link is being made.                    *)
OpeningReconnect ==
    /\ asked' = IF asked = "never" THEN "once" ELSE "again"
    /\ IF (hfp_act \/ a2dp_act) /\ ~Paging
       THEN /\ reconnect_mode' = "openreconnecting"
            /\ hf' = IF hfp_act THEN Attempt(hf) ELSE hf
            /\ a2dp' = IF hfp_act THEN a2dp ELSE Attempt(a2dp)
            /\ stall' = IF reconnect_mode = "openreconnecting" THEN stall
                        ELSE IF Refusal THEN "refused" ELSE "none"
       ELSE UNCHANGED <<reconnect_mode, hf, a2dp, stall>>
    /\ UNCHANGED <<hfp_connect, a2dp_connect, has_connected, reconnect_cnt, timer, record, acl, near>>

(***************************************************************************)
(* The timer                                                               *)
(***************************************************************************)
(* The timer thread has dealt with an expiry before the next: intervals   *)
(* are 300 ms and longer.                                                  *)
Expire ==
    /\ connect_timer /\ ~expired /\ handler = "idle"
    /\ connect_timer' = FALSE /\ expired' = TRUE
    /\ UNCHANGED <<status, connect_timer_cb, handler, record, library, near, asked, stall>>

\* app_bt_profile_reconnect_timehandler, the test of connect_timer_cb
TimerHandler ==
    /\ expired /\ handler = "idle"
    /\ expired' = FALSE
    /\ handler' = IF connect_timer_cb THEN "retry" ELSE "connect"
    /\ UNCHANGED <<status, connect_timer, connect_timer_cb, record, library, near, asked, stall>>

\* Fault: A2DP is tried before hands-free
TimerConnectFault ==
    /\ handler = "connect" /\ handler' = "idle"
    /\ a2dp' = IF a2dp_act THEN Attempt(a2dp) ELSE a2dp
    /\ hf' = IF ~a2dp_act /\ hfp_act THEN Attempt(hf) ELSE hf
    /\ UNCHANGED <<status, connect_timer, expired, connect_timer_cb, record, acl, near, asked, stall>>

TimerConnect ==
    /\ handler = "connect" /\ handler' = "idle"
    /\ hf' = IF hfp_act THEN Attempt(hf) ELSE hf
    /\ a2dp' = IF ~hfp_act /\ a2dp_act THEN Attempt(a2dp) ELSE a2dp
    /\ UNCHANGED <<status, connect_timer, expired, connect_timer_cb, record, acl, near, asked, stall>>

\* app_bt_profile_connect_a2dp_retry_timehandler, the only connect_timer_cb
TimerRetry ==
    /\ handler = "retry" /\ handler' = "clear"
    /\ a2dp' = Attempt(a2dp)
    /\ UNCHANGED <<status, connect_timer, expired, connect_timer_cb, record, hf, acl, near, asked, stall>>

\* The call is set, and the timer's function will find it
CallPending == connect_timer_cb /\ (connect_timer \/ expired)

\* A call that is pending here has been set anew since it was called
TimerClear ==
    /\ handler = "clear" /\ handler' = "idle"
    /\ connect_timer_cb' = FALSE
    /\ stall' = IF CallPending /\ a2dp = "closed" THEN "wiped" ELSE stall
    /\ UNCHANGED <<status, connect_timer, expired, record, library, near, asked>>

(* What an event leaves of the timer: both handlers first stop it and      *)
(* clear its call, then some start it again.                               *)
Timer(start, cb) ==
    /\ connect_timer' = start /\ connect_timer_cb' = cb
    /\ UNCHANGED <<expired, handler>>

(***************************************************************************)
(* Events of the hands-free profile: app_bt_profile_connect_manager_hf     *)
(***************************************************************************)
\* Fault: only hands-free counts as a connection
ReportHfFault == has_connected' = (hfp_connect' = "success")

\* The last part of both handlers: what the user is told
Report ==
    has_connected' = (hfp_connect' = "success" \/ a2dp_connect' = "success")

\* Fault: failures are not counted
RetryUncountedFault ==
    /\ UNCHANGED reconnect_cnt
    /\ Timer(TRUE, FALSE) /\ reconnect_mode' = "reconnecting"

\* A lost connection is tried again until reconnect_cnt reaches the limit
Retry ==
    /\ reconnect_cnt' = reconnect_cnt + 1
    /\ Timer(reconnect_cnt + 1 < LIMIT, FALSE)
    /\ reconnect_mode' = IF reconnect_cnt + 1 < LIMIT THEN "reconnecting" ELSE "null"

\* Fault: the timer is not started
CallLaterFault(goOn) == Timer(FALSE, goOn)

\* A2DP is tried 300 ms after hands-free
CallLater(goOn) == Timer(goOn, goOn)

HfConnected ==
    /\ asked # "never" /\ near /\ acl # "lost" /\ hf # "open"
    /\ hf' = "open" /\ acl' = "up"
    /\ hfp_act' = TRUE /\ hfp_connect' = "success" /\ reconnect_cnt' = 0
    /\ CASE reconnect_mode = "openreconnecting" ->
              LET goOn == a2dp_act /\ a2dp_connect = "unknow"
              IN /\ reconnect_mode' = IF goOn THEN "openreconnecting" ELSE "null"
                 /\ CallLater(goOn)
                 /\ a2dp' = a2dp
         [] reconnect_mode = "reconnecting" ->
              /\ a2dp' = IF a2dp_act /\ a2dp_connect # "success" THEN Attempt(a2dp) ELSE a2dp
              /\ reconnect_mode' = IF a2dp_connect = "failure" THEN "reconnecting" ELSE "null"
              /\ Timer(FALSE, FALSE)
         [] OTHER -> Timer(FALSE, FALSE) /\ UNCHANGED <<reconnect_mode, a2dp>>
    /\ UNCHANGED <<a2dp_connect, a2dp_act, near, asked, stall>>
    /\ Report

(* The reason is 0x8 when the link was lost; discReason_saved is the       *)
(* library's and may hold 0x8 after any other disconnection.               *)
Lost8 == IF acl = "lost" THEN {TRUE} ELSE BOOLEAN

HfDisconnected ==
    /\ hf = "trying" \/ (hf = "open" /\ (near \/ acl = "lost"))
    /\ hf' = "closed" /\ acl' = LinkAfter(a2dp)
    /\ \E lost8 \in Lost8 :
         LET again == reconnect_mode = "null" /\ lost8
         IN /\ hfp_connect' = IF reconnect_mode = "null" /\ ~lost8 THEN "unknow" ELSE "failure"
            /\ \/ reconnect_mode = "reconnecting" /\ Retry
               \/ /\ reconnect_mode # "reconnecting"
                  /\ reconnect_mode' = IF again THEN "reconnecting" ELSE "null"
                  /\ Timer(again, FALSE)
                  /\ UNCHANGED reconnect_cnt
    /\ UNCHANGED <<a2dp_connect, record, a2dp, near, asked, stall>>
    /\ Report

(***************************************************************************)
(* Events of A2DP: app_bt_profile_connect_manager_a2dp                     *)
(***************************************************************************)
A2dpOpen ==
    /\ asked # "never" /\ near /\ acl # "lost" /\ a2dp # "open"
    /\ a2dp' = "open" /\ acl' = "up"
    /\ a2dp_act' = TRUE /\ a2dp_connect' = "success" /\ reconnect_cnt' = 0
    /\ Timer(FALSE, FALSE)
    /\ CASE reconnect_mode = "openreconnecting" ->
              LET goOn == hfp_act /\ hfp_connect = "unknow"
              IN /\ reconnect_mode' = IF goOn THEN "openreconnecting" ELSE "null"
                 /\ hf' = IF goOn THEN Attempt(hf) ELSE hf
         [] reconnect_mode = "reconnecting" ->
              /\ hf' = IF hfp_act /\ hfp_connect # "success" THEN Attempt(hf) ELSE hf
              /\ reconnect_mode' = IF hfp_connect = "failure" THEN "reconnecting" ELSE "null"
         [] OTHER -> UNCHANGED <<reconnect_mode, hf>>
    /\ UNCHANGED <<hfp_connect, hfp_act, near, asked, stall>>
    /\ Report

A2dpClosed ==
    /\ a2dp = "trying" \/ (a2dp = "open" /\ (near \/ acl = "lost"))
    /\ a2dp' = "closed" /\ acl' = LinkAfter(hf)
    /\ \E lost8 \in Lost8 :
         LET again == reconnect_mode = "null" /\ lost8 /\ a2dp_act /\ ~hfp_act
         IN /\ a2dp_connect' = IF reconnect_mode = "null" /\ ~again THEN "unknow" ELSE "failure"
            /\ \/ reconnect_mode = "reconnecting" /\ Retry
               \/ /\ reconnect_mode # "reconnecting"
                  /\ reconnect_mode' = IF again THEN "reconnecting" ELSE "null"
                  /\ Timer(again, FALSE)
                  /\ UNCHANGED reconnect_cnt
    /\ UNCHANGED <<hfp_connect, record, hf, near, asked, stall>>
    /\ Report

(***************************************************************************)
(* The phone                                                               *)
(***************************************************************************)
Move ==
    /\ near' = ~near
    /\ UNCHANGED <<status, timer, record, library, asked, stall>>

\* The supervision timeout of the link: both profiles will be told
LinkLost ==
    /\ acl = "up" /\ ~near
    /\ acl' = "lost"
    /\ UNCHANGED <<status, timer, record, hf, a2dp, near, asked, stall>>

Next ==
    \/ OpeningReconnect \/ Expire \/ TimerHandler
    \/ TimerConnect \/ TimerRetry \/ TimerClear
    \/ HfConnected \/ HfDisconnected \/ A2dpOpen \/ A2dpClosed
    \/ Move \/ LinkLost

Spec == Init /\ [][Next]_vars

(* The kernel's timers expire and its timer thread runs; the library       *)
(* answers every attempt, and reports a lost link to both profiles.        *)
Answered ==
    \/ (hf = "trying" \/ acl = "lost") /\ HfDisconnected
    \/ (a2dp = "trying" \/ acl = "lost") /\ A2dpClosed
    \/ hf = "trying" /\ HfConnected
    \/ a2dp = "trying" /\ A2dpOpen

FairSpec ==
    /\ Spec
    /\ WF_vars(Expire)
    /\ WF_vars(TimerHandler \/ TimerConnect \/ TimerRetry \/ TimerClear)
    /\ WF_vars(LinkLost) /\ WF_vars(Answered)

(***************************************************************************)
(* Properties                                                              *)
(***************************************************************************)
\* The values of app_bt_profile_manager and of the library's states.
TypeOK ==
    /\ reconnect_mode \in {"null", "openreconnecting", "reconnecting"}
    /\ hfp_connect \in {"unknow", "success", "failure"}
    /\ a2dp_connect \in {"unknow", "success", "failure"}
    /\ has_connected \in BOOLEAN /\ reconnect_cnt \in Nat
    /\ connect_timer \in BOOLEAN /\ expired \in BOOLEAN /\ connect_timer_cb \in BOOLEAN
    /\ handler \in {"idle", "connect", "retry", "clear"}
    /\ hfp_act \in BOOLEAN /\ a2dp_act \in BOOLEAN
    /\ hf \in {"closed", "trying", "open"} /\ a2dp \in {"closed", "trying", "open"}
    /\ acl \in {"none", "up", "lost"} /\ near \in BOOLEAN
    /\ asked \in {"never", "once", "again"} /\ stall \in {"none", "refused", "wiped"}

(* What app_bt_mobile_hasConnected says and the user was told last: a      *)
(* profile of the phone is open.  It depends on every event, of either     *)
(* profile and in any mode, having kept both statuses true.                *)
ConnectedTrue == has_connected = ("open" \in {hf, a2dp})

Trying == "trying" \in {hf, a2dp}

(* The reconnection at power up does not wait for nothing: an attempt is   *)
(* under way, or the timer is and its function will call the retry of A2DP *)
(* (app_bt.cpp:1684), whatever the timer thread was doing when an event    *)
(* stopped the timer or set the call.  It is so without exception for the  *)
(* first request.  A later one does wait for nothing if its attempt was    *)
(* refused by an open profile; or if A2DP closed, the request was made and *)
(* hands-free connected all between the call of an earlier retry and line  *)
(* 1353, which then clears the new call.                                   *)
OpeningAlive ==
    reconnect_mode = "openreconnecting" =>
        \/ Trying \/ handler = "retry" \/ CallPending
        \/ asked = "again" /\ stall # "none"

(* A lost phone is tried for as long as the reconnection lasts             *)
(* (app_bt.cpp:1602): without hands-free an attempt is under way or the    *)
(* timer is, and what its function then tries is not refused.  With        *)
(* hands-free back and A2DP refused once it does stall: the timer's        *)
(* function tries hands-free, which is open, and never A2DP.               *)
RetryComing ==
    reconnect_mode = "reconnecting" /\ hf # "open" =>
        Trying \/ connect_timer \/ expired \/ handler = "connect"

(* With the phone gone for good and no further request, the bud stops      *)
(* trying: LIMIT failures end it, in whatever state the phone left.        *)
GivesUp ==
    <>[]~near /\ <>[][~OpeningReconnect]_vars
        => <>[](reconnect_mode = "null" /\ ~Trying /\ ~connect_timer)
=============================================================================
