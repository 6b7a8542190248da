---------------------------- MODULE MediaManager ----------------------------
(***************************************************************************)
(* Which of music, a voice prompt and a call is heard: the media manager   *)
(* (services/bt_app/app_bt_media_manager.cpp), the prompt list             *)
(* (apps/audioplayers/app_audio.cpp) and the players                       *)
(* (services/bt_app/app_bt_stream.cpp, app_media_player.cpp), in a build   *)
(* with __TWS__, __TWS_CALL_DUAL_CHANNEL__ and one phone.                  *)
(*                                                                         *)
(* Manager and list are two handlers of the app thread.  Other threads     *)
(* post requests to the manager; the manager decides and posts requests to *)
(* open and close players, which are handled after everything that waits   *)
(* in the mailbox by then.  A prompt that ends posts its own close.        *)
(*                                                                         *)
(* A stream and its player have one name: SBC stands for BT_STREAM_SBC and *)
(* APP_BT_STREAM_A2DP_SBC, MEDIA for BT_STREAM_MEDIA and                   *)
(* APP_PLAY_BACK_AUDIO, VOICE for BT_STREAM_VOICE and APP_BT_STREAM_HFP_PCM.*)
(***************************************************************************)
EXTENDS Lists, FiniteSets

CONSTANTS
    Prompts,               \* AUD_ID_ENUM
    NoPrompt,              \* the aud_id of a request for no prompt
    Mergeable,             \* prompts a running stream can be mixed with
    Silent,                \* prompts with no data
    Single,                \* prompts that are not listed twice
    Few, FEW,              \* prompts that are refused when more than FEW are listed
    MAX_AUDIO_BUF_LIST,    \* length at which the list is flushed
    RETRIGGER_VOICE,       \* whether the build has __TWS_RETRIGGER_VOICE__
    MaxWaiting             \* bound: others post while fewer messages wait

ASSUME MediaAssumption ==
    /\ NoPrompt \notin Prompts
    /\ (Mergeable \cup Silent \cup Single \cup Few) \subseteq Prompts
    /\ FEW \in Nat /\ MAX_AUDIO_BUF_LIST \in Nat \ {0} /\ MaxWaiting \in Nat
    /\ RETRIGGER_VOICE \in BOOLEAN

Streams == {"SBC", "MEDIA", "VOICE"}
Callbacks == {"none", "tws_stop_sco_callback", "tws_restart_voice_callback"}

VARIABLES
    media_active,       \* bt_meida.media_active[0]
    curr_active_media,  \* bt_meida.curr_active_media
    media_curr_sbc,     \* whether bt_meida.media_curr_sbc names the phone
    audio_list,         \* app_audio_conifg.audio_list
    gStreamplayer,      \* the player that is open
    prompt,             \* the prompt's thread: "off", "running" or "ended"
    mailbox,            \* what waits for the app thread
    out,                \* what the handler that has run has still to post
    sco,                \* the call's link: "off", "connecting" or "on"
    sco_trigger,        \* sco_trigger_time is set
    asserted            \* an ASSERT has failed

manager == <<media_active, curr_active_media, media_curr_sbc>>
audio == <<audio_list, gStreamplayer, prompt>>
link == <<sco, sco_trigger>>
vars == <<manager, audio, mailbox, out, link, asserted>>

(***************************************************************************)
(* Messages                                                                *)
(***************************************************************************)
Message(mod, op, stream, aud, cb) ==
    [mod |-> mod, op |-> op, stream |-> stream, aud |-> aud, cb |-> cb]

\* app_audio_manager_sendrequest and app_audio_sendrequest
Request(op, stream) == Message("AUDIO_MANAGE", op, stream, NoPrompt, "none")
OpenPlayer(stream, aud, cb) == Message("AUDIO", "OPEN", stream, aud, cb)
ClosePlayer(stream, cb) == Message("AUDIO", "CLOSE", stream, NoPrompt, cb)

\* Fault: the link is not looked at again after a restart
AnswerFault(cb) ==
    IF cb = "tws_stop_sco_callback" /\ sco # "off"
    THEN <<[Request("START", "VOICE") EXCEPT !.cb = "tws_restart_voice_callback"]>> ELSE <<>>

(* What a callback posts when the request it came with has been handled:   *)
(* both look at the call's link by then.                                   *)
Answer(cb) ==
    CASE cb = "tws_stop_sco_callback" /\ sco # "off" ->
           <<[Request("START", "VOICE") EXCEPT !.cb = "tws_restart_voice_callback"]>>
      [] cb = "tws_restart_voice_callback" /\ sco = "off" -> <<Request("STOP", "VOICE")>>
      [] OTHER -> <<>>

\* The app thread takes message m and starts its handler
Take(m) == out = <<>> /\ mailbox # <<>> /\ m = Head(mailbox) /\ mailbox' = Tail(mailbox)

Posts == out # <<>> /\ out' = Tail(out) /\ mailbox' = Append(mailbox, Head(out))
         /\ UNCHANGED <<manager, audio, link, asserted>>

(***************************************************************************)
(* bt_media_start                                                          *)
(***************************************************************************)
Active(stream) == stream \in media_active
Current(stream) == curr_active_media = stream

(* A handler of the manager leaves media_active, curr_active_media and the *)
(* list like this and sends the messages; a callback whose request sends   *)
(* none is called at once.                                                 *)
Decide(m, active, current, list, sent) ==
    /\ media_active' = active
    /\ curr_active_media' = current
    /\ audio_list' = list
    /\ out' = IF sent = <<>> THEN Answer(m.cb) ELSE sent
    /\ UNCHANGED <<gStreamplayer, prompt, link>>

Starts(m, stream) ==
    /\ Take(m) /\ m.mod = "AUDIO_MANAGE" /\ m.op = "START" /\ m.stream = stream

StartSbc(m) ==
    /\ Starts(m, "SBC")
    /\ media_curr_sbc' = TRUE
    /\ UNCHANGED asserted
    /\ LET active == media_active \cup {"SBC"}
       IN  IF Active("MEDIA") \/ Active("VOICE")
           THEN Decide(m, active, curr_active_media, audio_list, <<>>)
           ELSE Decide(m, active, "SBC", audio_list,
                       <<OpenPlayer("SBC", NoPrompt, m.cb)>>)

\* Fault: the prompt that is mixed in stays on
StartMediaMergedFault(m) ==
    /\ Starts(m, "MEDIA") /\ m.aud \in Mergeable
    /\ Active("VOICE") \/ (Active("SBC") /\ Current("SBC"))
    /\ Decide(m, media_active \cup {"MEDIA"}, curr_active_media, audio_list, <<>>)
    /\ UNCHANGED <<media_curr_sbc, asserted>>

(* app_ring_merge_start mixes some prompts into a stream of the right      *)
(* sample rate, and a call or music goes on.                               *)
StartMediaMerged(m) ==
    /\ Starts(m, "MEDIA") /\ m.aud \in Mergeable
    /\ Active("VOICE") \/ (Active("SBC") /\ Current("SBC"))
    /\ Decide(m, media_active \ {"MEDIA"}, curr_active_media, audio_list, <<>>)
    /\ UNCHANGED <<media_curr_sbc, asserted>>

\* ... and otherwise is closed for the prompt
StartMediaInStream(m) ==
    /\ Starts(m, "MEDIA")
    /\ \E stream \in {"VOICE", "SBC"} :
         /\ IF stream = "VOICE" THEN Active("VOICE")
            ELSE ~Active("VOICE") /\ Active("SBC") /\ Current("SBC")
         /\ Decide(m, media_active \cup {"MEDIA"}, "MEDIA", audio_list,
                   <<ClosePlayer(stream, IF stream = "VOICE" THEN m.cb ELSE "none"),
                     OpenPlayer("MEDIA", m.aud, m.cb)>>)
    /\ UNCHANGED <<media_curr_sbc, asserted>>

\* ... or it finds music or nothing before it.  ASSERT "media in sbc current wrong"
StartMedia(m) ==
    /\ Starts(m, "MEDIA")
    /\ ~Active("VOICE") /\ ~(Active("SBC") /\ Current("SBC"))
    /\ Decide(m, media_active \cup {"MEDIA"}, "MEDIA", audio_list,
              <<OpenPlayer("MEDIA", m.aud, m.cb)>>)
    /\ asserted' = (asserted \/ (Active("SBC") /\ ~Current("MEDIA")))
    /\ UNCHANGED media_curr_sbc

(* A call comes first: prompts are dropped and music is closed             *)
StartVoice(m) ==
    /\ Starts(m, "VOICE")
    /\ LET open == OpenPlayer("VOICE", NoPrompt, m.cb)
           active == (media_active \ {"MEDIA"}) \cup {"VOICE"}
       IN  IF Active("MEDIA")
           THEN IF Current("MEDIA")
                THEN Decide(m, active, "VOICE", <<>>, <<ClosePlayer("MEDIA", m.cb), open>>)
                ELSE Decide(m, active, "VOICE", audio_list, <<open>>)
           ELSE IF Active("SBC")
           THEN Decide(m, active, "VOICE", audio_list,
                       IF Current("SBC") THEN <<ClosePlayer("SBC", "none"), open>>
                       ELSE <<open>>)
           ELSE Decide(m, active, "VOICE", audio_list,
                       IF Current("VOICE") THEN <<>> ELSE <<open>>)
    /\ UNCHANGED <<media_curr_sbc, asserted>>

(***************************************************************************)
(* bt_media_stop                                                           *)
(***************************************************************************)
Stops(m, stream) ==
    /\ Take(m) /\ m.mod = "AUDIO_MANAGE" /\ m.op = "STOP" /\ m.stream = stream

StopSbc(m) ==
    /\ Stops(m, "SBC")
    /\ media_curr_sbc' = FALSE
    /\ UNCHANGED asserted
    /\ IF Current("SBC") /\ media_curr_sbc
       THEN Decide(m, media_active \ {"SBC"}, "NULL", audio_list, <<ClosePlayer("SBC", m.cb)>>)
       ELSE Decide(m, media_active \ {"SBC"}, curr_active_media, audio_list, <<>>)

\* Faults: music stays on, and the call is not opened again
ResumeMusicFault(m, active, idle, list, sent) ==
    IF "VOICE" \in active
    THEN Decide(m, active, "VOICE", list, Append(sent, OpenPlayer("VOICE", NoPrompt, m.cb)))
    ELSE Decide(m, active, IF "SBC" \in active THEN "NULL" ELSE idle, list, sent)
ResumeVoiceFault(m, active, idle, list, sent) ==
    IF "VOICE" \in active
    THEN Decide(m, active, "VOICE", list, sent)
    ELSE Decide(m, active \ {"SBC"}, IF "SBC" \in active THEN "NULL" ELSE idle, list, sent)

\* What is left when prompts are over: the call is opened again, and music is
\* forgotten until the other earbud has been told and asks for it
Resume(m, active, idle, list, sent) ==
    IF "VOICE" \in active
    THEN Decide(m, active, "VOICE", list, Append(sent, OpenPlayer("VOICE", NoPrompt, m.cb)))
    ELSE Decide(m, active \ {"SBC"}, IF "SBC" \in active THEN "NULL" ELSE idle, list, sent)

\* Fault: a call that is on is not opened after the prompt
StopMediaFault(m) ==
    /\ Stops(m, "MEDIA")
    /\ IF Active("VOICE")
       THEN Decide(m, media_active \ {"MEDIA"}, "VOICE", audio_list, <<>>)
       ELSE Resume(m, media_active \ {"MEDIA"}, "NULL", audio_list, <<>>)
    /\ UNCHANGED <<media_curr_sbc, asserted>>

StopMedia(m) ==
    /\ Stops(m, "MEDIA")
    /\ IF Active("VOICE") /\ ~Current("MEDIA")
       THEN Decide(m, media_active \ {"MEDIA"}, curr_active_media, audio_list, <<>>)
       ELSE Resume(m, media_active \ {"MEDIA"}, "NULL", audio_list, <<>>)
    /\ UNCHANGED <<media_curr_sbc, asserted>>

(* ASSERT "if voice and media is all on,media should be the current media" *)
StopVoice(m) ==
    /\ Stops(m, "VOICE")
    /\ IF ~Active("VOICE")
       THEN Decide(m, media_active, curr_active_media, audio_list, <<>>)
       ELSE IF Active("MEDIA")
       THEN Decide(m, media_active \ {"VOICE"}, curr_active_media, audio_list, <<>>)
       ELSE Decide(m, media_active \ {"VOICE", "SBC"}, "NULL", audio_list,
                   <<ClosePlayer("VOICE", m.cb)>>)
    /\ asserted' = (asserted \/ (Active("VOICE") /\ Active("MEDIA") /\ ~Current("MEDIA")))
    /\ UNCHANGED media_curr_sbc

(* app_media_stop_media, alone or in bt_media_switch_to_voice              *)
StopPrompts(m) ==
    /\ Take(m) /\ m.mod = "AUDIO_MANAGE" /\ m.op \in {"STOP_MEDIA", "SWITCHTO_SCO"}
    /\ IF (m.op = "SWITCHTO_SCO" /\ Current("VOICE")) \/ ~Active("MEDIA")
       THEN Decide(m, media_active, curr_active_media, audio_list, <<>>)
       ELSE Resume(m, media_active \ {"MEDIA"},
                   IF Current("MEDIA") THEN "NULL" ELSE curr_active_media, <<>>,
                   IF Current("MEDIA") THEN <<ClosePlayer("MEDIA", m.cb)>> ELSE <<>>)
    /\ UNCHANGED <<media_curr_sbc, asserted>>

Manage(m) ==
    \/ StartSbc(m) \/ StartMediaMerged(m) \/ StartMediaInStream(m) \/ StartMedia(m)
    \/ StartVoice(m)
    \/ StopSbc(m) \/ StopMedia(m) \/ StopVoice(m) \/ StopPrompts(m)

(***************************************************************************)
(* The list of what plays and of prompts that wait                         *)
(***************************************************************************)
Entry(m) == [stream |-> m.stream, aud |-> m.aud]

Playbacks == {i \in DOMAIN audio_list : audio_list[i].stream = "MEDIA"}
StreamListed == \E i \in DOMAIN audio_list : audio_list[i].stream # "MEDIA"

\* app_bt_stream_open closes the player that is open; a prompt without data
\* posts its close and starts no thread
Play(e, before, after) ==
    /\ gStreamplayer' = e.stream
    /\ prompt' = IF e.stream # "MEDIA" THEN "off"
                 ELSE IF e.aud \in Silent THEN "ended" ELSE "running"
    /\ sco_trigger' = (e.stream = "VOICE")
    /\ out' = before
               \o (IF e.stream = "MEDIA" /\ e.aud \in Silent
                   THEN <<ClosePlayer("MEDIA", "none")>> ELSE <<>>)
               \o after

NoPlay(after) == UNCHANGED <<gStreamplayer, prompt, sco_trigger>> /\ out' = after

Opens(m) ==
    /\ Take(m) /\ m.mod = "AUDIO" /\ m.op = "OPEN"
    /\ UNCHANGED <<manager, sco, asserted>>

(* A stream takes the place of everything listed ...                       *)
OpenStream(m) ==
    /\ Opens(m) /\ m.stream # "MEDIA"
    /\ audio_list' = <<Entry(m)>>
    /\ Play(Entry(m), <<>>, Answer(m.cb))

\* app_audio_list_filter_exist
Refused(m) ==
    LET listed == Cardinality({i \in Playbacks : audio_list[i].aud = m.aud})
    IN  (m.aud \in Single /\ listed > 0) \/ (m.aud \in Few /\ listed > FEW)

OpenRefused(m) ==
    /\ Opens(m) /\ m.stream = "MEDIA" /\ Refused(m)
    /\ UNCHANGED audio_list
    /\ NoPlay(Answer(m.cb))

\* ... the first prompt plays at once ...
OpenPrompt(m) ==
    /\ Opens(m) /\ m.stream = "MEDIA" /\ ~Refused(m) /\ Playbacks = {}
    /\ audio_list' = Append(audio_list, Entry(m))
    /\ Play(Entry(m), <<>>, Answer(m.cb))

\* ... the others wait ...
OpenLater(m) ==
    /\ Opens(m) /\ m.stream = "MEDIA" /\ ~Refused(m) /\ Playbacks # {}
    /\ Len(audio_list) < MAX_AUDIO_BUF_LIST
    /\ audio_list' = Append(audio_list, Entry(m))
    /\ NoPlay(Answer(m.cb))

\* ... and one that finds the list full cuts the others off.
OpenFull(m) ==
    /\ Opens(m) /\ m.stream = "MEDIA" /\ ~Refused(m) /\ Playbacks # {}
    /\ Len(audio_list) >= MAX_AUDIO_BUF_LIST
    /\ audio_list' = IF StreamListed THEN <<Head(audio_list)>> ELSE <<Entry(m)>>
    /\ Play(Entry(m), <<>>, Answer(m.cb))

\* Fault: whatever player is open is closed
ClosedFault(stream) ==
    gStreamplayer' = "NULL" /\ prompt' = "off" /\ sco_trigger' = FALSE

(* app_bt_stream_close closes the player if it is the one that is open; it *)
(* is the first thing a close does.                                        *)
Closed(stream) ==
    IF gStreamplayer = stream
    THEN gStreamplayer' = "NULL" /\ prompt' = "off" /\ sco_trigger' = FALSE
    ELSE UNCHANGED <<gStreamplayer, prompt, sco_trigger>>

Closes(m) ==
    /\ Take(m) /\ m.mod = "AUDIO" /\ m.op = "CLOSE"
    /\ UNCHANGED <<manager, sco>>

CloseStream(m) ==
    /\ Closes(m) /\ m.stream # "MEDIA"
    /\ Closed(m.stream)
    /\ audio_list' = IF StreamListed THEN Tail(audio_list) ELSE audio_list
    /\ out' = Answer(m.cb)
    /\ UNCHANGED asserted

\* Fault: the prompts are counted too late
OverLateFault == IF Cardinality(Playbacks) = 0 THEN <<Request("STOP", "MEDIA")>> ELSE <<>>

\* The manager is told when the last prompt is over
Over == IF Cardinality(Playbacks) = 1 THEN <<Request("STOP", "MEDIA")>> ELSE <<>>

(* The first prompt of the list is removed, and the next one plays, or a   *)
(* stream that has stayed in the list.  ASSERT "status_next->id"           *)
CloseMedia(m) ==
    /\ Closes(m) /\ m.stream = "MEDIA"
    /\ IF Playbacks = {}
       THEN /\ Closed("MEDIA")
            /\ out' = Answer(m.cb)
            /\ UNCHANGED <<audio_list, asserted>>
       ELSE \E i \in Playbacks :
              /\ \A j \in Playbacks : i <= j
              /\ audio_list' = Without(audio_list, i)
              /\ IF i < Len(audio_list)
                 THEN /\ Play(audio_list[i + 1], Over, Answer(m.cb))
                      /\ asserted' = (asserted \/ audio_list[i + 1].stream # "MEDIA")
                 ELSE IF StreamListed
                 THEN /\ Play(Head(audio_list), Over, Answer(m.cb))
                      /\ asserted' = (asserted \/ Head(audio_list).stream = "MEDIA")
                 ELSE /\ Closed("MEDIA")
                      /\ out' = Over \o Answer(m.cb)
                      /\ UNCHANGED asserted

Handle(m) ==
    \/ OpenStream(m) \/ OpenRefused(m) \/ OpenPrompt(m) \/ OpenLater(m) \/ OpenFull(m)
    \/ CloseStream(m) \/ CloseMedia(m)

(***************************************************************************)
(* The other threads                                                       *)
(***************************************************************************)
Post(m) ==
    /\ Len(mailbox) < MaxWaiting
    /\ mailbox' = Append(mailbox, m)
    /\ UNCHANGED <<manager, audio, out, asserted>>

\* The library of the earbud pair starts and stops music as the phone does and
\* when it is told to go on
MusicRequest ==
    /\ \E op \in {"START", "STOP"} : Post(Request(op, "SBC"))
    /\ UNCHANGED link

media_PlayAudio ==
    /\ \E p \in Prompts : Post([Request("START", "MEDIA") EXCEPT !.aud = p])
    /\ UNCHANGED link

\* A call is answered, refused or hung up
CallEvent ==
    /\ \E op \in {"STOP_MEDIA", "SWITCHTO_SCO"} : Post(Request(op, "VOICE"))
    /\ UNCHANGED link

\* HF_EVENT_AUDIO_CONNECTED waits 650 ms before it posts
ScoConnected ==
    /\ sco = "off" /\ sco' = "connecting"
    /\ UNCHANGED <<manager, audio, mailbox, out, sco_trigger, asserted>>

ScoStart ==
    /\ sco = "connecting" /\ sco' = "on"
    /\ Post(Request("START", "VOICE"))
    /\ UNCHANGED sco_trigger

\* HF_EVENT_AUDIO_DISCONNECTED
ScoDisconnected ==
    /\ sco = "on" /\ sco' = "off"
    /\ Post(Request("STOP", "VOICE"))
    /\ UNCHANGED sco_trigger

(* HF_EVENT_SERVICE_DISCONNECTED, which comes when the audio's link is     *)
(* down, also because hands-free could not be connected                    *)
ServiceDisconnected ==
    /\ sco = "off" /\ Post(Request("STOP", "VOICE"))
    /\ UNCHANGED link

(* No samples have come from the call for a while: close and open again    *)
bt_sco_check_pcm ==
    /\ RETRIGGER_VOICE /\ sco = "on" /\ sco_trigger
    /\ sco_trigger' = FALSE
    /\ Post([Request("STOP", "VOICE") EXCEPT !.cb = "tws_stop_sco_callback"])
    /\ UNCHANGED sco

\* app_play_sbc_more_data has no more data; once for each prompt
PromptEnds ==
    /\ prompt = "running" /\ prompt' = "ended"
    /\ mailbox' = Append(mailbox, ClosePlayer("MEDIA", "none"))
    /\ UNCHANGED <<manager, audio_list, gStreamplayer, out, link, asserted>>

-----------------------------------------------------------------------------
Init ==
    /\ media_active = {} /\ curr_active_media = "NULL" /\ media_curr_sbc = FALSE
    /\ audio_list = <<>> /\ gStreamplayer = "NULL" /\ prompt = "off"
    /\ mailbox = <<>> /\ out = <<>>
    /\ sco = "off" /\ sco_trigger = FALSE
    /\ asserted = FALSE

AppThread == Posts \/ (mailbox # <<>> /\ (Manage(Head(mailbox)) \/ Handle(Head(mailbox))))

Others ==
    \/ MusicRequest \/ media_PlayAudio \/ CallEvent
    \/ ScoConnected \/ ScoStart \/ ScoDisconnected \/ ServiceDisconnected \/ bt_sco_check_pcm
    \/ PromptEnds

Next == AppThread \/ Others

Spec == Init /\ [][Next]_vars

\* The app thread handles what waits, and no prompt plays for ever
FairSpec == Spec /\ WF_vars(AppThread) /\ WF_vars(PromptEnds)

-----------------------------------------------------------------------------
Messages == [mod : {"AUDIO_MANAGE", "AUDIO"},
             op : {"START", "STOP", "STOP_MEDIA", "SWITCHTO_SCO", "OPEN", "CLOSE"},
             stream : Streams, aud : Prompts \cup {NoPrompt}, cb : Callbacks]

Entries == [stream : Streams, aud : Prompts \cup {NoPrompt}]

\* Every variable has its type.
TypeOK ==
    /\ media_active \in SUBSET Streams
    /\ curr_active_media \in Streams \cup {"NULL"}
    /\ media_curr_sbc \in BOOLEAN
    /\ audio_list \in Seq(Entries)
    /\ gStreamplayer \in Streams \cup {"NULL"}
    /\ prompt \in {"off", "running", "ended"}
    /\ mailbox \in Seq(Messages) /\ out \in Seq(Messages)
    /\ sco \in {"off", "connecting", "on"} /\ sco_trigger \in BOOLEAN
    /\ asserted \in BOOLEAN

(* The manager's state is one its branches expect: a prompt that is on is  *)
(* what is current, a call gives way to nothing but a prompt, and music    *)
(* that is on is the phone's (bt_media_get_active_sbc_device would return  *)
(* BT_DEVICE_NUM and bt_media_clear_media_type write past media_active).   *)
CurrentFits ==
    /\ Active("MEDIA") => Current("MEDIA")
    /\ Active("VOICE") => curr_active_media \in {"VOICE", "MEDIA"}
    /\ Active("SBC") => media_curr_sbc
    /\ Active("SBC") /\ ~Active("VOICE") => curr_active_media \in {"SBC", "MEDIA"}

\* A stream is listed before all prompts.
StreamsFirst == \A i \in DOMAIN audio_list : i > 1 => audio_list[i].stream = "MEDIA"

\* None of the asserts of the manager and the list fails.
AssertsHold == ~asserted

Waiting == InList(out \o mailbox)

(* When nothing waits to be opened or closed, the manager's choice of a    *)
(* call or of music is the player that is open.                            *)
ChoicePlays ==
    (\A m \in Waiting : m.mod # "AUDIO") =>
        \A stream \in {"VOICE", "SBC"} : Current(stream) => gStreamplayer = stream

Quiet == Waiting = {} /\ prompt # "running" /\ sco # "connecting"

(* When all is handled, no player is left open for a call that is over,    *)
(* whatever restarts went on meanwhile, and a call the manager has on is   *)
(* heard: no prompt keeps its place.                                       *)
CallSettles ==
    Quiet => /\ sco = "off" => gStreamplayer # "VOICE" /\ ~Active("VOICE")
             /\ Active("VOICE") => gStreamplayer = "VOICE"

\* ... and where calls are not restarted, each call that goes on is heard
CallHeard == Quiet /\ sco = "on" => gStreamplayer = "VOICE"

(* While a prompt keeps a call or music away, it is listed or is going to  *)
(* be, or the manager is going to be told that it is over: true as long as *)
(* the list is not flushed.                                                *)
PromptWillEnd ==
    Active("MEDIA") =>
        \/ Playbacks # {}
        \/ \E m \in Waiting : m.stream = "MEDIA" /\ <<m.mod, m.op>> \in
                {<<"AUDIO", "OPEN">>, <<"AUDIO_MANAGE", "STOP">>}

(* A call that goes on is heard sooner or later, again after the last of   *)
(* the prompts, whatever music and call events come between.               *)
CallHeardAgain ==
    <>[][~media_PlayAudio]_vars => (sco = "on" ~> gStreamplayer = "VOICE" \/ sco # "on")
=============================================================================
