------------------------- MODULE MediaManagerProofs -------------------------
(***************************************************************************)
(* For every set of prompts and every length of the list: the types, the   *)
(* states the media manager's branches expect, that its asserts and those  *)
(* of the list hold, and which player is open when what was decided has    *)
(* been handled.                                                           *)
(***************************************************************************)
EXTENDS MediaManager, SequenceTheorems, FiniteSetTheorems, TLAPS

LEMMA HeadAndTail ==
    ASSUME NEW S, NEW s \in Seq(S), s # <<>>
    PROVE  Head(s) \in S /\ Tail(s) \in Seq(S)
  OBVIOUS

\* Requests of the manager are messages, and so are those of the list.
LEMMA RequestType ==
    ASSUME NEW op \in {"START", "STOP", "STOP_MEDIA", "SWITCHTO_SCO"}, NEW stream \in Streams
    PROVE  Request(op, stream) \in Messages
  BY DEF Request, Message, Messages, Callbacks

LEMMA PlayerType ==
    ASSUME NEW stream \in Streams, NEW aud \in Prompts \cup {NoPrompt}, NEW cb \in Callbacks
    PROVE  OpenPlayer(stream, aud, cb) \in Messages /\ ClosePlayer(stream, cb) \in Messages
  BY DEF OpenPlayer, ClosePlayer, Message, Messages

LEMMA AnswerType ==
    ASSUME NEW cb \in Callbacks
    PROVE  Answer(cb) \in Seq(Messages)
  <1>1. "VOICE" \in Streams  BY DEF Streams
  <1>2. Request("START", "VOICE") \in Messages /\ Request("STOP", "VOICE") \in Messages
    BY <1>1, RequestType
  <1>3. [Request("START", "VOICE") EXCEPT !.cb = "tws_restart_voice_callback"] \in Messages
    BY <1>2 DEF Messages, Callbacks
  <1>4. <<>> \in Seq(Messages)  OBVIOUS
  <1>. QED  BY <1>2, <1>3, <1>4 DEF Answer, Callbacks

-----------------------------------------------------------------------------
(***************************************************************************)
(* The manager's state.  No other thread touches it, so each of its        *)
(* handlers has to keep it one the others expect.                          *)
(***************************************************************************)
LEMMA ManagerStep ==
    ASSUME CurrentFits, NEW m, Manage(m)
    PROVE  CurrentFits'
  <1>. USE DEF CurrentFits, Active, Current, Decide
  <1>1. CASE StartSbc(m)            BY <1>1 DEF StartSbc
  <1>2. CASE StartMediaMerged(m)    BY <1>2 DEF StartMediaMerged
  <1>3. CASE StartMediaInStream(m)  BY <1>3 DEF StartMediaInStream
  <1>4. CASE StartMedia(m)          BY <1>4 DEF StartMedia
  <1>5. CASE StartVoice(m)          BY <1>5 DEF StartVoice
  <1>6. CASE StopSbc(m)             BY <1>6 DEF StopSbc
  <1>7. CASE StopMedia(m)           BY <1>7 DEF StopMedia, Resume
  <1>8. CASE StopVoice(m)           BY <1>8 DEF StopVoice
  <1>9. CASE StopPrompts(m)         BY <1>9 DEF StopPrompts, Resume
  <1>. QED  BY <1>1, <1>2, <1>3, <1>4, <1>5, <1>6, <1>7, <1>8, <1>9 DEF Manage

\* Nothing else changes it.
LEMMA ManagerKept ==
    ASSUME [Next]_vars, ~(mailbox # <<>> /\ Manage(Head(mailbox)))
    PROVE  UNCHANGED manager
  BY DEF Next, AppThread, Others, vars, manager, Posts, Handle, OpenStream, OpenRefused,
         OpenPrompt, OpenLater, OpenFull, CloseStream, CloseMedia, Opens, Closes,
         MusicRequest, media_PlayAudio, CallEvent, ScoConnected, ScoStart, ScoDisconnected,
         ServiceDisconnected, link, bt_sco_check_pcm, PromptEnds, Post

(* The manager is always in a state that its branches expect, whatever is  *)
(* posted to it in whatever order (bt_media_start and bt_media_stop).      *)
THEOREM ManagerConsistent == Spec => []CurrentFits
  <1>1. Init => CurrentFits
    BY DEF Init, CurrentFits, Active, Current
  <1>2. CurrentFits /\ [Next]_vars => CurrentFits'
    <2>. SUFFICES ASSUME CurrentFits, [Next]_vars  PROVE CurrentFits'
      OBVIOUS
    <2>1. CASE mailbox # <<>> /\ Manage(Head(mailbox))
      BY <2>1, ManagerStep
    <2>2. CASE ~(mailbox # <<>> /\ Manage(Head(mailbox)))
      BY <2>2, ManagerKept DEF CurrentFits, Active, Current, manager
    <2>. QED  BY <2>1, <2>2
  <1>. QED  BY <1>1, <1>2, PTL DEF Spec

-----------------------------------------------------------------------------
(***************************************************************************)
(* Types.  What a handler takes is a message, and what it sends are.       *)
(***************************************************************************)
LEMMA TakeType ==
    ASSUME TypeOK, NEW m, Take(m)
    PROVE  m \in Messages /\ mailbox' \in Seq(Messages)
  BY HeadAndTail DEF TypeOK, Take

LEMMA MessageParts ==
    ASSUME NEW m \in Messages
    PROVE  /\ m.stream \in Streams /\ m.aud \in Prompts \cup {NoPrompt} /\ m.cb \in Callbacks
           /\ Entry(m) \in Entries /\ Entry(m).stream = m.stream
           /\ "SBC" \in Streams /\ "MEDIA" \in Streams /\ "VOICE" \in Streams
           /\ NoPrompt \in Prompts \cup {NoPrompt} /\ "none" \in Callbacks
  BY DEF Messages, Entry, Entries, Streams, Callbacks

LEMMA DecideType ==
    ASSUME TypeOK, NEW m, Take(m), m \in Messages,
           NEW active \in SUBSET Streams, NEW current \in Streams \cup {"NULL"},
           NEW list \in Seq(Entries), NEW sent \in Seq(Messages),
           Decide(m, active, current, list, sent),
           media_curr_sbc' \in BOOLEAN, asserted' \in BOOLEAN
    PROVE  TypeOK'
  <1>1. Answer(m.cb) \in Seq(Messages)
    BY AnswerType, MessageParts
  <1>2. mailbox' \in Seq(Messages)
    BY TakeType
  <1>. QED  BY <1>1, <1>2 DEF TypeOK, Decide, link

LEMMA ResumeType ==
    ASSUME TypeOK, NEW m, Take(m), m \in Messages,
           NEW active \in SUBSET Streams, NEW idle \in Streams \cup {"NULL"},
           NEW list \in Seq(Entries), NEW sent \in Seq(Messages),
           Resume(m, active, idle, list, sent),
           media_curr_sbc' \in BOOLEAN, asserted' \in BOOLEAN
    PROVE  TypeOK'
  <1>1. OpenPlayer("VOICE", NoPrompt, m.cb) \in Messages
    BY PlayerType, MessageParts
  <1>2. Append(sent, OpenPlayer("VOICE", NoPrompt, m.cb)) \in Seq(Messages)
    BY <1>1
  <1>3. active \ {"SBC"} \in SUBSET Streams /\ "VOICE" \in Streams
    BY DEF Streams
  <1>4. CASE "VOICE" \in active
    BY <1>2, <1>3, <1>4, DecideType DEF Resume
  <1>5. CASE "VOICE" \notin active
    <2>1. (IF "SBC" \in active THEN "NULL" ELSE idle) \in Streams \cup {"NULL"}
      OBVIOUS
    <2>. QED  BY <1>3, <1>5, <2>1, DecideType DEF Resume
  <1>. QED  BY <1>4, <1>5

LEMMA ManagerType ==
    ASSUME TypeOK, NEW m, Manage(m)
    PROVE  TypeOK'
  <1>1. Take(m) /\ m \in Messages
    BY TakeType DEF Manage, StartSbc, StartMediaMerged, StartMediaInStream, StartMedia,
       StartVoice, StopSbc, StopMedia, StopVoice, StopPrompts, Starts, Stops
  <1>2. /\ media_active \in SUBSET Streams /\ curr_active_media \in Streams \cup {"NULL"}
        /\ audio_list \in Seq(Entries) /\ media_curr_sbc \in BOOLEAN /\ asserted \in BOOLEAN
        /\ "NULL" \in Streams \cup {"NULL"} /\ Streams \subseteq Streams \cup {"NULL"}
    BY DEF TypeOK
  <1>3. <<>> \in Seq(Messages) /\ <<>> \in Seq(Entries)
    OBVIOUS
  <1>4. \A stream \in Streams, aud \in Prompts \cup {NoPrompt}, cb \in {m.cb, "none"} :
            OpenPlayer(stream, aud, cb) \in Messages /\ ClosePlayer(stream, cb) \in Messages
    BY <1>1, MessageParts, PlayerType
  <1>5. \A a, b \in Messages : <<a>> \in Seq(Messages) /\ <<a, b>> \in Seq(Messages)
    OBVIOUS
  <1>6. CASE StartSbc(m)
    <2>1. <<OpenPlayer("SBC", NoPrompt, m.cb)>> \in Seq(Messages)
      BY <1>1, <1>4, <1>5, MessageParts
    <2>2. media_active \cup {"SBC"} \in SUBSET Streams /\ "SBC" \in Streams
      BY <1>2 DEF Streams
    <2>. QED  BY <1>1, <1>2, <1>3, <1>6, <2>1, <2>2, DecideType DEF StartSbc
  <1>7. CASE StartMediaMerged(m)
    BY <1>1, <1>2, <1>3, <1>7, DecideType DEF StartMediaMerged
  <1>8. CASE StartMediaInStream(m)
    <2>1. PICK stream \in {"VOICE", "SBC"} :
             Decide(m, media_active \cup {"MEDIA"}, "MEDIA", audio_list,
                   <<ClosePlayer(stream, IF stream = "VOICE" THEN m.cb ELSE "none"),
                     OpenPlayer("MEDIA", m.aud, m.cb)>>)
      BY <1>8 DEF StartMediaInStream
    <2>2. <<ClosePlayer(stream, IF stream = "VOICE" THEN m.cb ELSE "none"),
            OpenPlayer("MEDIA", m.aud, m.cb)>> \in Seq(Messages)
      BY <1>1, <1>4, <1>5, MessageParts
    <2>3. media_active \cup {"MEDIA"} \in SUBSET Streams /\ "MEDIA" \in Streams
      BY <1>2 DEF Streams
    <2>4. media_curr_sbc' \in BOOLEAN /\ asserted' \in BOOLEAN
      BY <1>2, <1>8 DEF StartMediaInStream
    <2>. QED  BY <1>1, <1>2, <2>1, <2>2, <2>3, <2>4, DecideType
  <1>9. CASE StartMedia(m)
    <2>1. <<OpenPlayer("MEDIA", m.aud, m.cb)>> \in Seq(Messages)
      BY <1>1, <1>4, <1>5, MessageParts
    <2>2. media_active \cup {"MEDIA"} \in SUBSET Streams /\ "MEDIA" \in Streams
      BY <1>2 DEF Streams
    <2>3. media_curr_sbc' \in BOOLEAN /\ asserted' \in BOOLEAN
      BY <1>2, <1>9 DEF StartMedia
    <2>. QED  BY <1>1, <1>2, <1>9, <2>1, <2>2, <2>3, DecideType DEF StartMedia
  <1>10. CASE StartVoice(m)
    <2>. DEFINE open == OpenPlayer("VOICE", NoPrompt, m.cb)
                active == (media_active \ {"MEDIA"}) \cup {"VOICE"}
    <2>1. <<open>> \in Seq(Messages) /\ <<ClosePlayer("MEDIA", m.cb), open>> \in Seq(Messages)
          /\ <<ClosePlayer("SBC", "none"), open>> \in Seq(Messages)
      BY <1>1, <1>4, <1>5, MessageParts
    <2>2. active \in SUBSET Streams /\ "VOICE" \in Streams \cup {"NULL"}
      BY <1>2 DEF Streams
    <2>3. media_curr_sbc' \in BOOLEAN /\ asserted' \in BOOLEAN
      BY <1>2, <1>10 DEF StartVoice
    <2>4. \E list \in {audio_list, <<>>},
             sent \in {<<>>, <<open>>, <<ClosePlayer("MEDIA", m.cb), open>>,
                        <<ClosePlayer("SBC", "none"), open>>} :
             Decide(m, active, "VOICE", list, sent)
      BY <1>10 DEF StartVoice
    <2>. HIDE DEF open, active
    <2>. QED  BY <1>1, <1>2, <1>3, <2>1, <2>2, <2>3, <2>4, DecideType
  <1>11. CASE StopSbc(m)
    <2>1. <<ClosePlayer("SBC", m.cb)>> \in Seq(Messages)
      BY <1>1, <1>4, <1>5, MessageParts
    <2>2. media_active \ {"SBC"} \in SUBSET Streams
      BY <1>2
    <2>. QED  BY <1>1, <1>2, <1>3, <1>11, <2>1, <2>2, DecideType DEF StopSbc
  <1>12. CASE StopMedia(m)
    <2>1. media_active \ {"MEDIA"} \in SUBSET Streams
      BY <1>2
    <2>. QED  BY <1>1, <1>2, <1>3, <1>12, <2>1, DecideType, ResumeType DEF StopMedia
  <1>13. CASE StopVoice(m)
    <2>1. <<ClosePlayer("VOICE", m.cb)>> \in Seq(Messages)
      BY <1>1, <1>4, <1>5, MessageParts
    <2>2. media_active \ {"VOICE"} \in SUBSET Streams
          /\ media_active \ {"VOICE", "SBC"} \in SUBSET Streams
      BY <1>2
    <2>3. media_curr_sbc' \in BOOLEAN /\ asserted' \in BOOLEAN
      BY <1>2, <1>13 DEF StopVoice
    <2>. QED  BY <1>1, <1>2, <1>3, <1>13, <2>1, <2>2, <2>3, DecideType DEF StopVoice
  <1>14. CASE StopPrompts(m)
    <2>1. media_active \ {"MEDIA"} \in SUBSET Streams
      BY <1>2
    <2>2. <<ClosePlayer("MEDIA", m.cb)>> \in Seq(Messages)
      BY <1>1, <1>4, <1>5, MessageParts
    <2>3. media_curr_sbc' \in BOOLEAN /\ asserted' \in BOOLEAN
      BY <1>2, <1>14 DEF StopPrompts
    <2>4. (IF Current("MEDIA") THEN <<ClosePlayer("MEDIA", m.cb)>> ELSE <<>>) \in Seq(Messages)
          /\ (IF Current("MEDIA") THEN "NULL" ELSE curr_active_media) \in Streams \cup {"NULL"}
      BY <1>2, <1>3, <2>2
    <2>. QED  BY <1>1, <1>2, <1>3, <1>14, <2>1, <2>3, <2>4, DecideType, ResumeType
              DEF StopPrompts
  <1>. QED  BY <1>6, <1>7, <1>8, <1>9, <1>10, <1>11, <1>12, <1>13, <1>14 DEF Manage

LEMMA PlayType ==
    ASSUME TypeOK, NEW e \in Entries, NEW before \in Seq(Messages), NEW after \in Seq(Messages),
           Play(e, before, after)
    PROVE  /\ gStreamplayer' \in Streams \cup {"NULL"} /\ prompt' \in {"off", "running", "ended"}
           /\ sco_trigger' \in BOOLEAN /\ out' \in Seq(Messages)
  <1>1. ClosePlayer("MEDIA", "none") \in Messages
    BY DEF ClosePlayer, Message, Messages, Streams, Callbacks
  <1>2. (IF e.stream = "MEDIA" /\ e.aud \in Silent
         THEN <<ClosePlayer("MEDIA", "none")>> ELSE <<>>) \in Seq(Messages)
    BY <1>1
  <1>3. out' \in Seq(Messages)
    BY <1>2 DEF Play
  <1>. QED  BY <1>3 DEF Play, Entries

LEMMA ClosedType ==
    ASSUME TypeOK, NEW stream, Closed(stream)
    PROVE  /\ gStreamplayer' \in Streams \cup {"NULL"} /\ prompt' \in {"off", "running", "ended"}
           /\ sco_trigger' \in BOOLEAN
  BY DEF Closed, TypeOK

\* The list and its players stay in type.
LEMMA OpensType ==
    ASSUME TypeOK, NEW m,
           OpenStream(m) \/ OpenRefused(m) \/ OpenPrompt(m) \/ OpenLater(m) \/ OpenFull(m)
    PROVE  TypeOK'
  <1>1. Opens(m) /\ Take(m) /\ m \in Messages /\ mailbox' \in Seq(Messages)
    BY TakeType DEF OpenStream, OpenRefused, OpenPrompt, OpenLater, OpenFull, Opens
  <1>2. Answer(m.cb) \in Seq(Messages) /\ <<>> \in Seq(Messages)
    BY <1>1, AnswerType, MessageParts
  <1>3. Entry(m) \in Entries /\ audio_list \in Seq(Entries)
    BY <1>1, MessageParts DEF TypeOK
  <1>4. <<Entry(m)>> \in Seq(Entries) /\ Append(audio_list, Entry(m)) \in Seq(Entries)
        /\ (StreamListed => <<Head(audio_list)>> \in Seq(Entries))
    <2>1. <<Entry(m)>> \in Seq(Entries) /\ Append(audio_list, Entry(m)) \in Seq(Entries)
      BY <1>3
    <2>2. StreamListed => audio_list # <<>>
      BY <1>3 DEF StreamListed
    <2>3. audio_list # <<>> => Head(audio_list) \in Entries
      BY <1>3, HeadAndTail
    <2>. QED  BY <2>1, <2>2, <2>3
  <1>5. UNCHANGED <<manager, sco, asserted>>
    BY <1>1 DEF Opens
  <1>6. CASE Play(Entry(m), <<>>, Answer(m.cb)) /\ audio_list' \in Seq(Entries)
    <2>1. /\ gStreamplayer' \in Streams \cup {"NULL"} /\ prompt' \in {"off", "running", "ended"}
          /\ sco_trigger' \in BOOLEAN /\ out' \in Seq(Messages)
      BY <1>2, <1>3, <1>6, PlayType
    <2>. QED  BY <1>1, <1>5, <1>6, <2>1 DEF TypeOK, manager
  <1>7. CASE NoPlay(Answer(m.cb)) /\ audio_list' \in Seq(Entries)
    BY <1>1, <1>2, <1>5, <1>7 DEF TypeOK, manager, NoPlay
  <1>. QED  BY <1>3, <1>4, <1>6, <1>7
            DEF OpenStream, OpenRefused, OpenPrompt, OpenLater, OpenFull

LEMMA WithoutType ==
    ASSUME NEW S, NEW s \in Seq(S), NEW i \in DOMAIN s
    PROVE  Without(s, i) \in Seq(S)
  <1>1. i \in 1 .. Len(s) /\ Len(s) \in Nat
    OBVIOUS
  <1>2. SubSeq(s, 1, i - 1) \in Seq(S) /\ SubSeq(s, i + 1, Len(s)) \in Seq(S)
    BY <1>1
  <1>. QED  BY <1>2 DEF Without

LEMMA WithoutElements ==
    ASSUME NEW S, NEW s \in Seq(S), NEW k \in 1 .. Len(s)
    PROVE  \A j \in DOMAIN Without(s, k) :
              /\ j \in Nat /\ j >= 1
              /\ Without(s, k)[j] = s[IF j < k THEN j ELSE j + 1]
              /\ (IF j < k THEN j ELSE j + 1) \in 1 .. Len(s)
  <1>. DEFINE front == SubSeq(s, 1, k - 1)
              back == SubSeq(s, k + 1, Len(s))
  <1>1. Len(s) \in Nat /\ k - 1 \in Nat /\ k \in Nat
    OBVIOUS
  <1>2. front \in Seq(S) /\ Len(front) = k - 1 /\ \A j \in 1 .. k - 1 : front[j] = s[j]
    BY <1>1
  <1>3. /\ back \in Seq(S) /\ Len(back) = Len(s) - k
        /\ \A j \in 1 .. Len(s) - k : back[j] = s[k + j]
    BY <1>1
  <1>. HIDE DEF front, back
  <1>4. /\ DOMAIN (front \o back) = 1 .. Len(s) - 1
        /\ \A j \in 1 .. Len(s) - 1 :
              (front \o back)[j] = IF j < k THEN front[j] ELSE back[j - (k - 1)]
    BY <1>1, <1>2, <1>3
  <1>. SUFFICES ASSUME NEW j \in 1 .. Len(s) - 1
                PROVE  /\ j \in Nat /\ j >= 1
                       /\ (front \o back)[j] = s[IF j < k THEN j ELSE j + 1]
                       /\ (IF j < k THEN j ELSE j + 1) \in 1 .. Len(s)
    BY <1>4 DEF Without, front, back
  <1>5. CASE j < k
    BY <1>1, <1>2, <1>4, <1>5
  <1>6. CASE ~(j < k)
    <2>1. j - (k - 1) \in 1 .. Len(s) - k /\ k + (j - (k - 1)) = j + 1
      BY <1>1, <1>6
    <2>. QED  BY <1>1, <1>3, <1>4, <1>6, <2>1
  <1>. QED  BY <1>5, <1>6

LEMMA WithoutLength ==
    ASSUME NEW S, NEW s \in Seq(S), NEW k \in 1 .. Len(s)
    PROVE  Len(Without(s, k)) = Len(s) - 1
  <1>. DEFINE front == SubSeq(s, 1, k - 1)
              back == SubSeq(s, k + 1, Len(s))
  <1>1. Len(s) \in Nat /\ k - 1 \in Nat /\ k \in Nat
    OBVIOUS
  <1>2. /\ front \in Seq(S) /\ Len(front) = k - 1
        /\ back \in Seq(S) /\ Len(back) = Len(s) - k
    BY <1>1
  <1>. HIDE DEF front, back
  <1>3. Len(front \o back) = Len(front) + Len(back)
    BY <1>2
  <1>4. Len(front \o back) = Len(s) - 1
    BY <1>1, <1>2, <1>3
  <1>. QED  BY <1>4 DEF Without, front, back

LEMMA OverType == Over \in Seq(Messages)
  <1>1. Request("STOP", "MEDIA") \in Messages
    BY RequestType DEF Streams
  <1>. QED  BY <1>1 DEF Over

LEMMA ClosesType ==
    ASSUME TypeOK, NEW m, CloseStream(m) \/ CloseMedia(m)
    PROVE  TypeOK'
  <1>1. Closes(m) /\ Take(m) /\ m \in Messages /\ mailbox' \in Seq(Messages)
    BY TakeType DEF CloseStream, CloseMedia, Closes
  <1>2. Answer(m.cb) \in Seq(Messages)
    BY <1>1, AnswerType, MessageParts
  <1>3. UNCHANGED <<manager, sco>> /\ audio_list \in Seq(Entries) /\ asserted \in BOOLEAN
    BY <1>1 DEF Closes, TypeOK
  <1>4. ASSUME NEW stream, Closed(stream), audio_list' \in Seq(Entries),
               out' \in Seq(Messages), UNCHANGED asserted
        PROVE  TypeOK'
    BY <1>1, <1>3, <1>4, ClosedType DEF TypeOK, manager
  <1>5. CASE CloseStream(m)
    <2>1. StreamListed => audio_list # <<>>
      BY <1>3 DEF StreamListed
    <2>2. audio_list' \in Seq(Entries)
      BY <1>3, <1>5, <2>1, HeadAndTail DEF CloseStream
    <2>. QED  BY <1>2, <1>4, <1>5, <2>2 DEF CloseStream
  <1>6. CASE CloseMedia(m) /\ Playbacks = {}
    BY <1>2, <1>3, <1>4, <1>6 DEF CloseMedia
  <1>7. CASE CloseMedia(m) /\ Playbacks # {}
    <2>1. PICK i \in Playbacks :
              /\ audio_list' = Without(audio_list, i)
              /\ IF i < Len(audio_list)
                 THEN /\ Play(audio_list[i + 1], Over, Answer(m.cb))
                      /\ asserted' = (asserted \/ audio_list[i + 1].stream # "MEDIA")
                 ELSE IF StreamListed
                 THEN /\ Play(Head(audio_list), Over, Answer(m.cb))
                      /\ asserted' = (asserted \/ Head(audio_list).stream = "MEDIA")
                 ELSE /\ Closed("MEDIA")
                      /\ out' = Over \o Answer(m.cb)
                      /\ UNCHANGED asserted
      BY <1>7 DEF CloseMedia
    <2>2. i \in 1 .. Len(audio_list) /\ Len(audio_list) \in Nat /\ i \in DOMAIN audio_list
      BY <1>3 DEF Playbacks
    <2>3. audio_list' \in Seq(Entries)
      BY <1>3, <2>1, <2>2, WithoutType
    <2>4. Over \o Answer(m.cb) \in Seq(Messages) /\ Over \in Seq(Messages)
      BY <1>2, OverType
    <2>5. ASSUME NEW e \in Entries, Play(e, Over, Answer(m.cb)), asserted' \in BOOLEAN
          PROVE  TypeOK'
      <3>1. /\ gStreamplayer' \in Streams \cup {"NULL"} /\ prompt' \in {"off", "running", "ended"}
            /\ sco_trigger' \in BOOLEAN /\ out' \in Seq(Messages)
        BY <1>2, <2>4, <2>5, PlayType
      <3>. QED  BY <1>1, <1>3, <2>3, <2>5, <3>1 DEF TypeOK, manager
    <2>6. CASE i < Len(audio_list)
      <3>1. audio_list[i + 1] \in Entries
        BY <1>3, <2>2, <2>6
      <3>. QED  BY <2>1, <2>5, <2>6, <3>1
    <2>7. CASE ~(i < Len(audio_list)) /\ StreamListed
      <3>1. Head(audio_list) \in Entries
        BY <1>3, <2>2, HeadAndTail
      <3>. QED  BY <2>1, <2>5, <2>7, <3>1
    <2>8. CASE ~(i < Len(audio_list)) /\ ~StreamListed
      BY <1>4, <2>1, <2>3, <2>4, <2>8
    <2>. QED  BY <2>6, <2>7, <2>8
  <1>. QED  BY <1>5, <1>6, <1>7

\* What the other threads post is a message.
LEMMA OthersType ==
    ASSUME TypeOK, Others
    PROVE  TypeOK'
  <1>1. "SBC" \in Streams /\ "MEDIA" \in Streams /\ "VOICE" \in Streams
    BY DEF Streams
  <1>2. \A op \in {"START", "STOP", "STOP_MEDIA", "SWITCHTO_SCO"}, stream \in Streams :
            Request(op, stream) \in Messages
    BY RequestType
  <1>3. ASSUME NEW x \in Messages, Post(x), UNCHANGED sco \/ sco' \in {"off", "on"},
               sco_trigger' \in BOOLEAN
        PROVE  TypeOK'
    BY <1>3 DEF Post, TypeOK, manager, audio
  <1>4. sco_trigger \in BOOLEAN
    BY DEF TypeOK
  <1>5. CASE MusicRequest  BY <1>1, <1>2, <1>3, <1>4, <1>5 DEF MusicRequest, link
  <1>6. CASE media_PlayAudio
    <2>1. PICK p \in Prompts : Post([Request("START", "MEDIA") EXCEPT !.aud = p])
      BY <1>6 DEF media_PlayAudio
    <2>2. [Request("START", "MEDIA") EXCEPT !.aud = p] \in Messages
      BY <1>1, <1>2 DEF Messages
    <2>. QED  BY <1>3, <1>4, <1>6, <2>1, <2>2 DEF media_PlayAudio, link
  <1>7. CASE CallEvent  BY <1>1, <1>2, <1>3, <1>4, <1>7 DEF CallEvent, link
  <1>8. CASE ScoConnected  BY <1>8 DEF ScoConnected, TypeOK, manager, audio
  <1>9. CASE ScoStart  BY <1>1, <1>2, <1>3, <1>4, <1>9 DEF ScoStart
  <1>10. CASE ScoDisconnected  BY <1>1, <1>2, <1>3, <1>4, <1>10 DEF ScoDisconnected
  <1>11. CASE ServiceDisconnected  BY <1>1, <1>2, <1>3, <1>4, <1>11 DEF ServiceDisconnected, link
  <1>12. CASE bt_sco_check_pcm
    <2>1. [Request("STOP", "VOICE") EXCEPT !.cb = "tws_stop_sco_callback"] \in Messages
      BY <1>1, <1>2 DEF Messages, Callbacks
    <2>. QED  BY <1>3, <1>12, <2>1 DEF bt_sco_check_pcm
  <1>13. CASE PromptEnds
    <2>1. ClosePlayer("MEDIA", "none") \in Messages
      BY <1>1 DEF ClosePlayer, Message, Messages, Callbacks
    <2>2. mailbox' \in Seq(Messages)
      BY <1>13, <2>1 DEF PromptEnds, TypeOK
    <2>. QED  BY <1>13, <2>2 DEF PromptEnds, TypeOK, manager, link
  <1>. QED  BY <1>5, <1>6, <1>7, <1>8, <1>9, <1>10, <1>11, <1>12, <1>13 DEF Others

LEMMA PostsType ==
    ASSUME TypeOK, Posts
    PROVE  TypeOK'
  <1>1. Head(out) \in Messages /\ out' \in Seq(Messages)
    BY HeadAndTail DEF Posts, TypeOK
  <1>2. mailbox' \in Seq(Messages)
    BY <1>1 DEF Posts, TypeOK
  <1>. QED  BY <1>1, <1>2 DEF Posts, TypeOK, manager, audio, link

\* Every variable keeps its type, for all prompts and every length of the list.
THEOREM TypeCorrect == Spec => []TypeOK
  <1>1. Init => TypeOK
    <2>1. <<>> \in Seq(Messages) /\ <<>> \in Seq(Entries)
      OBVIOUS
    <2>. QED  BY <2>1 DEF Init, TypeOK
  <1>2. TypeOK /\ [Next]_vars => TypeOK'
    <2>. SUFFICES ASSUME TypeOK, [Next]_vars  PROVE TypeOK'
      OBVIOUS
    <2>1. CASE Posts  BY <2>1, PostsType
    <2>2. CASE Manage(Head(mailbox))  BY <2>2, ManagerType
    <2>3. CASE Handle(Head(mailbox))  BY <2>3, OpensType, ClosesType DEF Handle
    <2>4. CASE Others  BY <2>4, OthersType
    <2>5. CASE UNCHANGED vars  BY <2>5 DEF TypeOK, vars, manager, audio, link
    <2>. QED  BY <2>1, <2>2, <2>3, <2>4, <2>5 DEF Next, AppThread
  <1>. QED  BY <1>1, <1>2, PTL DEF Spec

-----------------------------------------------------------------------------
(***************************************************************************)
(* The asserts.  Those of the manager follow from CurrentFits, those of    *)
(* the list from StreamsFirst: after the first prompt come only prompts,   *)
(* and a stream that is listed is in front.                                *)
(***************************************************************************)
ListSound == TypeOK /\ CurrentFits /\ StreamsFirst /\ AssertsHold

LEMMA ManagerAsserts ==
    ASSUME ListSound, NEW m, Manage(m)
    PROVE  StreamsFirst' /\ AssertsHold'
  <1>1. AssertsHold'
    BY DEF ListSound, AssertsHold, CurrentFits, Active, Current, Manage, StartSbc,
       StartMediaMerged, StartMediaInStream, StartMedia, StartVoice, StopSbc, StopMedia,
       StopVoice, StopPrompts
  <1>2. audio_list' \in {audio_list, <<>>}
    BY DEF Manage, StartSbc, StartMediaMerged, StartMediaInStream, StartMedia, StartVoice,
       StopSbc, StopMedia, StopVoice, StopPrompts, Decide, Resume
  <1>3. CASE audio_list' = audio_list
    BY <1>1, <1>3 DEF ListSound, StreamsFirst
  <1>4. CASE audio_list' = <<>>
    BY <1>1, <1>4 DEF StreamsFirst
  <1>. QED  BY <1>1, <1>2, <1>3, <1>4

LEMMA OpensAsserts ==
    ASSUME ListSound, NEW m,
           OpenStream(m) \/ OpenRefused(m) \/ OpenPrompt(m) \/ OpenLater(m) \/ OpenFull(m)
    PROVE  StreamsFirst' /\ AssertsHold'
  <1>1. AssertsHold'
    BY DEF ListSound, AssertsHold, OpenStream, OpenRefused, OpenPrompt, OpenLater, OpenFull, Opens
  <1>2. m \in Messages /\ Entry(m).stream = m.stream /\ audio_list \in Seq(Entries)
    BY TakeType, MessageParts
       DEF ListSound, TypeOK, OpenStream, OpenRefused, OpenPrompt, OpenLater, OpenFull, Opens
  <1>3. CASE \E e : audio_list' = <<e>>
    BY <1>1, <1>3 DEF StreamsFirst
  <1>4. CASE audio_list' = audio_list
    BY <1>1, <1>4 DEF ListSound, StreamsFirst
  <1>5. CASE audio_list' = Append(audio_list, Entry(m)) /\ m.stream = "MEDIA"
    <2>. SUFFICES ASSUME NEW i \in DOMAIN audio_list', i > 1
                  PROVE  audio_list'[i].stream = "MEDIA"
      BY <1>1 DEF StreamsFirst
    <2>1. /\ Len(audio_list) \in Nat /\ i \in 1 .. Len(audio_list) + 1
          /\ audio_list' = Append(audio_list, Entry(m))
      BY <1>2, <1>5
    <2>2. CASE i \in 1 .. Len(audio_list)
      BY <1>2, <2>1, <2>2 DEF ListSound, StreamsFirst
    <2>3. CASE i = Len(audio_list) + 1
      BY <1>2, <1>5, <2>1, <2>3
    <2>. QED  BY <2>1, <2>2, <2>3
  <1>. QED  BY <1>1, <1>3, <1>4, <1>5
            DEF OpenStream, OpenRefused, OpenPrompt, OpenLater, OpenFull

LEMMA ClosesAsserts ==
    ASSUME ListSound, NEW m, CloseStream(m) \/ CloseMedia(m)
    PROVE  StreamsFirst' /\ AssertsHold'
  <1>1. audio_list \in Seq(Entries) /\ Len(audio_list) \in Nat /\ ~asserted
        /\ DOMAIN audio_list = 1 .. Len(audio_list)
        /\ \A i \in 1 .. Len(audio_list) : i > 1 => audio_list[i].stream = "MEDIA"
    BY DEF ListSound, TypeOK, StreamsFirst, AssertsHold
  <1>2. StreamListed => Len(audio_list) > 0 /\ audio_list[1].stream # "MEDIA"
    BY <1>1 DEF StreamListed
  <1>3. CASE CloseStream(m)
    <2>1. AssertsHold'
      BY <1>1, <1>3 DEF CloseStream, AssertsHold
    <2>2. CASE StreamListed
      <3>1. audio_list' = Tail(audio_list) /\ audio_list # <<>>
        BY <1>1, <1>2, <1>3, <2>2 DEF CloseStream
      <3>2. \A i \in DOMAIN audio_list' :
               i \in Nat /\ i + 1 \in 1 .. Len(audio_list) /\ audio_list'[i] = audio_list[i + 1]
        BY <1>1, <3>1
      <3>. QED  BY <1>1, <2>1, <3>2 DEF StreamsFirst
    <2>3. CASE ~StreamListed
      BY <1>1, <1>3, <2>1, <2>3 DEF CloseStream, StreamsFirst
    <2>. QED  BY <2>2, <2>3
  <1>4. CASE CloseMedia(m) /\ Playbacks = {}
    BY <1>1, <1>4 DEF CloseMedia, StreamsFirst, AssertsHold
  <1>5. CASE CloseMedia(m) /\ Playbacks # {}
    <2>1. PICK i \in Playbacks :
              /\ audio_list' = Without(audio_list, i)
              /\ IF i < Len(audio_list)
                 THEN asserted' = (asserted \/ audio_list[i + 1].stream # "MEDIA")
                 ELSE IF StreamListed
                 THEN asserted' = (asserted \/ Head(audio_list).stream = "MEDIA")
                 ELSE UNCHANGED asserted
      BY <1>5 DEF CloseMedia
    <2>2. i \in 1 .. Len(audio_list)
      BY <1>1 DEF Playbacks
    <2>3. AssertsHold'
      <3>1. i < Len(audio_list) => audio_list[i + 1].stream = "MEDIA"
        BY <1>1, <2>2
      <3>2. StreamListed => Head(audio_list).stream # "MEDIA"
        BY <1>1, <1>2
      <3>. QED  BY <1>1, <2>1, <3>1, <3>2 DEF AssertsHold
    <2>4. \A j \in DOMAIN audio_list' :
             /\ j \in Nat /\ j >= 1
             /\ audio_list'[j] = audio_list[IF j < i THEN j ELSE j + 1]
             /\ (IF j < i THEN j ELSE j + 1) \in 1 .. Len(audio_list)
      BY <1>1, <2>1, <2>2, WithoutElements
    <2>5. StreamsFirst'
      BY <1>1, <2>4 DEF StreamsFirst
    <2>. QED  BY <2>3, <2>5
  <1>. QED  BY <1>3, <1>4, <1>5

(* None of the manager's and the list's asserts can fail, and no stream    *)
(* comes behind a prompt (bt_media_start, bt_media_stop,                   *)
(* app_audio_list_append and app_audio_list_rmv_callback).                 *)
THEOREM AssertsNeverFail == Spec => [](StreamsFirst /\ AssertsHold)
  <1>1. Init => StreamsFirst /\ AssertsHold
    BY DEF Init, StreamsFirst, AssertsHold
  <1>2. TypeOK /\ CurrentFits /\ (StreamsFirst /\ AssertsHold) /\ [Next]_vars
            => (StreamsFirst /\ AssertsHold)'
    <2>. SUFFICES ASSUME ListSound, [Next]_vars  PROVE StreamsFirst' /\ AssertsHold'
      BY DEF ListSound
    <2>1. CASE Manage(Head(mailbox))  BY <2>1, ManagerAsserts
    <2>2. CASE Handle(Head(mailbox))  BY <2>2, OpensAsserts, ClosesAsserts DEF Handle
    <2>3. CASE Posts \/ Others \/ UNCHANGED vars
      <3>1. UNCHANGED <<audio_list, asserted>>
        BY <2>3 DEF Posts, Others, vars, audio, MusicRequest, media_PlayAudio, CallEvent,
           ScoConnected, ScoStart, ScoDisconnected, ServiceDisconnected, link, bt_sco_check_pcm,
           PromptEnds, Post
      <3>. QED  BY <3>1 DEF ListSound, StreamsFirst, AssertsHold
    <2>. QED  BY <2>1, <2>2, <2>3 DEF Next, AppThread
  <1>. QED  BY <1>1, <1>2, TypeCorrect, ManagerConsistent, PTL DEF Spec

-----------------------------------------------------------------------------
(***************************************************************************)
(* What waits.  A decision of the manager takes effect when the messages   *)
(* that it posts have been handled, after everything that waits by then.   *)
(* The invariants below therefore speak of the order of what waits:        *)
(* whatever sort of message is in the queue, one of another sort comes     *)
(* after it.                                                               *)
(***************************************************************************)
Queue == mailbox \o out

Followed(q, X, Y) ==
    \A i \in 1 .. Len(q) : q[i] \in X => \E j \in i .. Len(q) : q[j] \in Y
Holds(q, Y) == \E i \in 1 .. Len(q) : q[i] \in Y

\* Sorts of messages: for the players of some streams, and for the manager
Opening(S) == {m \in Messages : m.mod = "AUDIO" /\ m.op = "OPEN" /\ m.stream \in S}
Closing(S) == {m \in Messages : m.mod = "AUDIO" /\ m.op = "CLOSE" /\ m.stream \in S}
Asking(op, stream) ==
    {m \in Messages : m.mod = "AUDIO_MANAGE" /\ m.op = op /\ m.stream = stream}

\* The streams that are not prompts
Live == {"VOICE", "SBC"}

LEMMA ShortQueues ==
    ASSUME NEW X, NEW Y
    PROVE  /\ Followed(<<>>, X, Y) /\ ~Holds(<<>>, Y)
           /\ \A x : /\ Holds(<<x>>, Y) <=> x \in Y
                     /\ Followed(<<x>>, X, Y) <=> (x \in X => x \in Y)
           /\ \A x, y : /\ Holds(<<x, y>>, Y) <=> x \in Y \/ y \in Y
                        /\ y \in Y => Followed(<<x, y>>, X, Y)
  <1>1. Followed(<<>>, X, Y) /\ ~Holds(<<>>, Y)
    BY DEF Followed, Holds
  <1>2. ASSUME NEW x
        PROVE  Holds(<<x>>, Y) <=> x \in Y
    BY DEF Holds
  <1>3. ASSUME NEW x
        PROVE  Followed(<<x>>, X, Y) <=> (x \in X => x \in Y)
    <2>1. Len(<<x>>) = 1 /\ <<x>>[1] = x
      OBVIOUS
    <2>. QED  BY <2>1 DEF Followed
  <1>4. ASSUME NEW x, NEW y
        PROVE  /\ Holds(<<x, y>>, Y) <=> x \in Y \/ y \in Y
               /\ y \in Y => Followed(<<x, y>>, X, Y)
    <2>1. Len(<<x, y>>) = 2 /\ <<x, y>>[1] = x /\ <<x, y>>[2] = y
      OBVIOUS
    <2>2. Holds(<<x, y>>, Y) <=> x \in Y \/ y \in Y
      <3>1. 1 .. 2 = {1, 2}  OBVIOUS
      <3>. QED  BY <2>1, <3>1 DEF Holds
    <2>3. ASSUME y \in Y  PROVE Followed(<<x, y>>, X, Y)
      <3>1. \A i \in 1 .. 2 : 2 \in i .. 2
        OBVIOUS
      <3>. QED  BY <2>1, <2>3, <3>1 DEF Followed
    <2>. QED  BY <2>2, <2>3
  <1>. QED  BY <1>1, <1>2, <1>3, <1>4

LEMMA ConcatAt ==
    ASSUME NEW S, NEW a \in Seq(S), NEW b \in Seq(S)
    PROVE  /\ Len(a) \in Nat /\ Len(b) \in Nat /\ Len(a \o b) = Len(a) + Len(b)
           /\ \A i \in 1 .. Len(a) : (a \o b)[i] = a[i]
           /\ \A i \in 1 .. Len(b) : (a \o b)[Len(a) + i] = b[i]
           /\ \A i \in 1 .. Len(a \o b) :
                 i \in 1 .. Len(a) \/ \E j \in 1 .. Len(b) : i = Len(a) + j
  <1>1. Len(a) \in Nat /\ Len(b) \in Nat /\ Len(a \o b) = Len(a) + Len(b)
    OBVIOUS
  <1>2. ASSUME NEW i \in 1 .. Len(a) + Len(b), i \notin 1 .. Len(a)
        PROVE  \E j \in 1 .. Len(b) : i = Len(a) + j
    <2>1. i - Len(a) \in 1 .. Len(b) /\ i = Len(a) + (i - Len(a))
      BY <1>1, <1>2
    <2>. QED  BY <2>1
  <1>. QED  BY <1>1, <1>2

LEMMA HoldsConcat ==
    ASSUME NEW S, NEW a \in Seq(S), NEW b \in Seq(S), NEW Y
    PROVE  Holds(a \o b, Y) <=> Holds(a, Y) \/ Holds(b, Y)
  <1>1. ASSUME Holds(a \o b, Y)  PROVE Holds(a, Y) \/ Holds(b, Y)
    <2>1. PICK i \in 1 .. Len(a \o b) : (a \o b)[i] \in Y
      BY <1>1 DEF Holds
    <2>2. CASE i \in 1 .. Len(a)
      BY <2>1, <2>2, ConcatAt DEF Holds
    <2>3. CASE i \notin 1 .. Len(a)
      <3>1. PICK j \in 1 .. Len(b) : i = Len(a) + j
        BY <2>3, ConcatAt
      <3>. QED  BY <2>1, <3>1, ConcatAt DEF Holds
    <2>. QED  BY <2>2, <2>3
  <1>2. ASSUME Holds(a, Y)  PROVE Holds(a \o b, Y)
    <2>1. PICK i \in 1 .. Len(a) : a[i] \in Y
      BY <1>2 DEF Holds
    <2>2. i \in 1 .. Len(a \o b) /\ (a \o b)[i] \in Y
      BY <2>1, ConcatAt
    <2>. QED  BY <2>2 DEF Holds
  <1>3. ASSUME Holds(b, Y)  PROVE Holds(a \o b, Y)
    <2>1. PICK i \in 1 .. Len(b) : b[i] \in Y
      BY <1>3 DEF Holds
    <2>2. Len(a) + i \in 1 .. Len(a \o b) /\ (a \o b)[Len(a) + i] \in Y
      BY <2>1, ConcatAt
    <2>. QED  BY <2>2 DEF Holds
  <1>. QED  BY <1>1, <1>2, <1>3

LEMMA FollowedConcat ==
    ASSUME NEW S, NEW a \in Seq(S), NEW b \in Seq(S), NEW X, NEW Y,
           Followed(a, X, Y) \/ Holds(b, Y), Followed(b, X, Y)
    PROVE  Followed(a \o b, X, Y)
  <1>. SUFFICES ASSUME NEW i \in 1 .. Len(a \o b), (a \o b)[i] \in X
                PROVE  \E j \in i .. Len(a \o b) : (a \o b)[j] \in Y
    BY DEF Followed
  <1>1. Len(a) \in Nat /\ Len(b) \in Nat /\ Len(a \o b) = Len(a) + Len(b)
    BY ConcatAt
  <1>2. CASE i \in 1 .. Len(a) /\ Followed(a, X, Y)
    <2>1. PICK j \in i .. Len(a) : a[j] \in Y
      BY <1>2, ConcatAt DEF Followed
    <2>2. j \in 1 .. Len(a) /\ j \in i .. Len(a \o b)
      BY <1>1, <1>2
    <2>. QED  BY <2>1, <2>2, ConcatAt
  <1>3. CASE i \in 1 .. Len(a) /\ Holds(b, Y)
    <2>1. PICK j \in 1 .. Len(b) : b[j] \in Y
      BY <1>3 DEF Holds
    <2>2. Len(a) + j \in i .. Len(a \o b)
      BY <1>1, <1>3
    <2>. QED  BY <2>1, <2>2, ConcatAt, SMTT(30)
  <1>4. CASE i \notin 1 .. Len(a)
    <2>1. PICK k \in 1 .. Len(b) : i = Len(a) + k
      BY <1>4, ConcatAt
    <2>2. PICK j \in k .. Len(b) : b[j] \in Y
      BY <2>1, ConcatAt DEF Followed
    <2>3. j \in 1 .. Len(b) /\ Len(a) + j \in i .. Len(a \o b)
      BY <1>1, <2>1
    <2>4. (a \o b)[Len(a) + j] = b[j]
      BY <2>3, ConcatAt
    <2>. QED  BY <2>2, <2>3, <2>4
  <1>. QED  BY <1>2, <1>3, <1>4

\* What is put in between two parts of a queue, or behind the first
LEMMA InsertedBetween ==
    ASSUME NEW S, NEW a \in Seq(S), NEW b \in Seq(S), NEW m \in S, NEW X, NEW Y
    PROVE  /\ Holds(a \o b, Y) \/ m \in Y => Holds(Append(a, m) \o b, Y)
           /\ Holds(Append(a, m) \o b, Y) => Holds(a \o b, Y) \/ m \in Y
           /\ m \notin X /\ Followed(a \o b, X, Y) => Followed(Append(a, m) \o b, X, Y)
           /\ m \in Y /\ Followed(b, X, Y) => Followed(Append(a, m) \o b, X, Y)
  <1>. DEFINE am == Append(a, m)
  <1>1. /\ am \in Seq(S) /\ Len(am) = Len(a) + 1 /\ Len(a) \in Nat /\ Len(b) \in Nat
        /\ am[Len(a) + 1] = m /\ \A i \in 1 .. Len(a) : am[i] = a[i]
    OBVIOUS
  <1>. HIDE DEF am
  <1>2. \A i \in 1 .. Len(am) : i \in 1 .. Len(a) \/ i = Len(a) + 1
    BY <1>1
  <1>3. Holds(am, Y) <=> Holds(a, Y) \/ m \in Y
    <2>1. Len(a) + 1 \in 1 .. Len(am) /\ \A i \in 1 .. Len(a) : i \in 1 .. Len(am)
      BY <1>1
    <2>. QED  BY <1>1, <1>2, <2>1 DEF Holds
  <1>4. Holds(am \o b, Y) <=> Holds(am, Y) \/ Holds(b, Y)
    BY <1>1, HoldsConcat
  <1>5. Holds(a \o b, Y) <=> Holds(a, Y) \/ Holds(b, Y)
    BY HoldsConcat
  <1>6. ASSUME m \in Y, Followed(b, X, Y)  PROVE Followed(am \o b, X, Y)
    <2>1. Followed(am, X, Y)
      <3>1. \A i \in 1 .. Len(am) : Len(a) + 1 \in i .. Len(am)
        BY <1>1
      <3>. QED  BY <1>1, <1>6, <3>1 DEF Followed
    <2>. QED  BY <1>1, <1>6, <2>1, FollowedConcat
  <1>7. ASSUME m \notin X, Followed(a \o b, X, Y)  PROVE Followed(am \o b, X, Y)
    <2>1. Followed(b, X, Y)
      <3>. SUFFICES ASSUME NEW i \in 1 .. Len(b), b[i] \in X
                    PROVE  \E j \in i .. Len(b) : b[j] \in Y
        BY DEF Followed
      <3>1. Len(a) + i \in 1 .. Len(a \o b) /\ (a \o b)[Len(a) + i] \in X
        BY ConcatAt
      <3>2. PICK j \in Len(a) + i .. Len(a \o b) : (a \o b)[j] \in Y
        BY <1>7, <3>1 DEF Followed
      <3>3. j - Len(a) \in i .. Len(b) /\ j - Len(a) \in 1 .. Len(b)
            /\ Len(a) + (j - Len(a)) = j
        BY <3>2, ConcatAt
      <3>. QED  BY <3>2, <3>3, ConcatAt
    <2>2. CASE Holds(b, Y)
      BY <1>1, <2>1, <2>2, FollowedConcat
    <2>3. CASE ~Holds(b, Y)
      <3>1. Followed(am, X, Y)
        <4>. SUFFICES ASSUME NEW i \in 1 .. Len(am), am[i] \in X
                      PROVE  \E j \in i .. Len(am) : am[j] \in Y
          BY DEF Followed
        <4>1. i \in 1 .. Len(a) /\ a[i] \in X
          BY <1>1, <1>2, <1>7
        <4>2. i \in 1 .. Len(a \o b) /\ (a \o b)[i] \in X
          BY <4>1, ConcatAt
        <4>3. PICK j \in i .. Len(a \o b) : (a \o b)[j] \in Y
          BY <1>7, <4>2 DEF Followed
        <4>4. j \in 1 .. Len(a \o b)
          BY <4>1, <4>3, ConcatAt
        <4>5. j \in 1 .. Len(a)
          <5>. SUFFICES ASSUME j \notin 1 .. Len(a)  PROVE FALSE
            OBVIOUS
          <5>1. PICK k \in 1 .. Len(b) : j = Len(a) + k
            BY <4>4, ConcatAt
          <5>. QED  BY <2>3, <4>3, <5>1, ConcatAt DEF Holds
        <4>6. j \in i .. Len(am) /\ am[j] \in Y
          BY <1>1, <4>1, <4>3, <4>5, ConcatAt
        <4>. QED  BY <4>6
      <3>. QED  BY <1>1, <2>1, <3>1, FollowedConcat
    <2>. QED  BY <2>2, <2>3
  <1>. QED  BY <1>3, <1>4, <1>5, <1>6, <1>7 DEF am

LEMMA HoldsFollowed ==
    ASSUME NEW q, NEW X, NEW Y, NEW Z, Z \subseteq X, Holds(q, Z), Followed(q, X, Y),
           Len(q) \in Nat
    PROVE  Holds(q, Y)
  <1>1. PICK i \in 1 .. Len(q) : q[i] \in Z
    BY DEF Holds
  <1>2. PICK j \in i .. Len(q) : q[j] \in Y
    BY <1>1 DEF Followed
  <1>3. j \in 1 .. Len(q)
    BY <1>1
  <1>. QED  BY <1>2, <1>3 DEF Holds

LEMMA NoneFollowed ==
    ASSUME NEW q, NEW X, NEW Y, ~Holds(q, X)
    PROVE  Followed(q, X, Y)
  BY DEF Holds, Followed

\* The head of the queue is taken and r is put behind it.
LEMMA HeadTaken ==
    ASSUME NEW S, NEW q \in Seq(S), q # <<>>, NEW r \in Seq(S), NEW X, NEW Y
    PROVE  /\ Holds(r, Y) => Holds(Tail(q) \o r, Y)
           /\ Holds(q, Y) /\ Head(q) \notin Y => Holds(Tail(q) \o r, Y)
           /\ Holds(Tail(q) \o r, Y) => Holds(q, Y) \/ Holds(r, Y)
           /\ Followed(q, X, Y) /\ Head(q) \in X /\ Head(q) \notin Y
                 => Holds(Tail(q) \o r, Y)
           /\ (Followed(q, X, Y) \/ Holds(r, Y)) /\ Followed(r, X, Y)
                 => Followed(Tail(q) \o r, X, Y)
  <1>. DEFINE t == Tail(q)
  <1>1. /\ t \in Seq(S) /\ Len(q) \in Nat \ {0} /\ Len(t) = Len(q) - 1 /\ Head(q) = q[1]
        /\ \A i \in 1 .. Len(t) : t[i] = q[i + 1]
    OBVIOUS
  <1>. HIDE DEF t
  <1>2. ASSUME NEW j \in 1 .. Len(q), j # 1
        PROVE  j - 1 \in 1 .. Len(t) /\ t[j - 1] = q[j]
    BY <1>1, <1>2
  <1>3. Holds(q, Y) /\ Head(q) \notin Y => Holds(t, Y)
    BY <1>1, <1>2 DEF Holds
  <1>4. ASSUME Followed(q, X, Y), Head(q) \in X, Head(q) \notin Y  PROVE Holds(t, Y)
    <2>1. PICK j \in 1 .. Len(q) : q[j] \in Y
      BY <1>1, <1>4 DEF Followed
    <2>. QED  BY <1>1, <1>2, <1>4, <2>1 DEF Holds
  <1>5. ASSUME Followed(q, X, Y)  PROVE Followed(t, X, Y)
    <2>. SUFFICES ASSUME NEW i \in 1 .. Len(t), t[i] \in X
                  PROVE  \E j \in i .. Len(t) : t[j] \in Y
      BY DEF Followed
    <2>1. i + 1 \in 1 .. Len(q) /\ q[i + 1] \in X
      BY <1>1
    <2>2. PICK j \in i + 1 .. Len(q) : q[j] \in Y
      BY <1>5, <2>1 DEF Followed
    <2>3. j \in 1 .. Len(q) /\ j # 1 /\ j - 1 \in i .. Len(t)
      BY <1>1, <2>2
    <2>4. t[j - 1] = q[j]
      BY <1>2, <2>3
    <2>. QED  BY <2>2, <2>3, <2>4
  <1>6. Holds(t \o r, Y) <=> Holds(t, Y) \/ Holds(r, Y)
    BY <1>1, HoldsConcat
  <1>7. Holds(t, Y) => Holds(q, Y)
    <2>1. \A i \in 1 .. Len(t) : i + 1 \in 1 .. Len(q)
      BY <1>1
    <2>. QED  BY <1>1, <2>1 DEF Holds
  <1>8. (Followed(q, X, Y) \/ Holds(r, Y)) /\ Followed(r, X, Y) => Followed(t \o r, X, Y)
    BY <1>1, <1>5, FollowedConcat
  <1>. QED  BY <1>3, <1>4, <1>6, <1>7, <1>8 DEF t

-----------------------------------------------------------------------------
(***************************************************************************)
(* What the handlers send                                                  *)
(***************************************************************************)
\* A step of the app thread takes the head of the queue.
LEMMA QueueTaken ==
    ASSUME TypeOK, TypeOK', NEW m, Take(m)
    PROVE  /\ Queue = mailbox /\ Queue' = Tail(mailbox) \o out'
           /\ mailbox \in Seq(Messages) /\ mailbox # <<>> /\ out' \in Seq(Messages)
           /\ m = Head(mailbox) /\ m \in Messages
  <1>1. mailbox \in Seq(Messages) /\ out' \in Seq(Messages) /\ m \in Messages
    BY TakeType DEF TypeOK
  <1>. QED  BY <1>1 DEF Take, Queue

LEMMA SortsTaken ==
    ASSUME TypeOK, TypeOK', NEW m, Take(m), NEW X, NEW Y
    PROVE  /\ Holds(out', Y) => Holds(Queue', Y)
           /\ Holds(Queue, Y) /\ m \notin Y => Holds(Queue', Y)
           /\ Holds(Queue', Y) => Holds(Queue, Y) \/ Holds(out', Y)
           /\ Followed(Queue, X, Y) /\ m \in X /\ m \notin Y => Holds(Queue', Y)
           /\ (Followed(Queue, X, Y) \/ Holds(out', Y)) /\ Followed(out', X, Y)
                 => Followed(Queue', X, Y)
  <1>. DEFINE r == out'
  <1>1. /\ Queue = mailbox /\ Queue' = Tail(mailbox) \o r
        /\ mailbox \in Seq(Messages) /\ mailbox # <<>> /\ r \in Seq(Messages)
        /\ m = Head(mailbox)
    BY QueueTaken
  <1>. HIDE DEF r
  <1>2. /\ Holds(r, Y) => Holds(Tail(mailbox) \o r, Y)
        /\ Holds(mailbox, Y) /\ m \notin Y => Holds(Tail(mailbox) \o r, Y)
        /\ Holds(Tail(mailbox) \o r, Y) => Holds(mailbox, Y) \/ Holds(r, Y)
        /\ Followed(mailbox, X, Y) /\ m \in X /\ m \notin Y
              => Holds(Tail(mailbox) \o r, Y)
        /\ (Followed(mailbox, X, Y) \/ Holds(r, Y)) /\ Followed(r, X, Y)
              => Followed(Tail(mailbox) \o r, X, Y)
    BY <1>1, HeadTaken
  <1>. QED  BY <1>1, <1>2 DEF r

\* A step of another thread puts a message behind the mailbox.
LEMMA SortsPosted ==
    ASSUME TypeOK, NEW m \in Messages, mailbox' = Append(mailbox, m), out' = out,
           NEW X, NEW Y
    PROVE  /\ Holds(Queue, Y) \/ m \in Y => Holds(Queue', Y)
           /\ Holds(Queue', Y) => Holds(Queue, Y) \/ m \in Y
           /\ m \notin X /\ Followed(Queue, X, Y) => Followed(Queue', X, Y)
           /\ m \in Y /\ Followed(out, X, Y) => Followed(Queue', X, Y)
  <1>1. mailbox \in Seq(Messages) /\ out \in Seq(Messages)
    BY DEF TypeOK
  <1>2. Queue = mailbox \o out /\ Queue' = Append(mailbox, m) \o out
    BY DEF Queue
  <1>. QED  BY <1>1, <1>2, InsertedBetween

\* Posting what a handler sent changes no order.
LEMMA QueuePosts ==
    ASSUME TypeOK, Posts
    PROVE  Queue' = Queue /\ UNCHANGED <<manager, audio, link, asserted>>
  <1>1. mailbox \in Seq(Messages) /\ out \in Seq(Messages) /\ out # <<>>
    BY DEF TypeOK, Posts
  <1>2. Append(mailbox, Head(out)) \o Tail(out) = mailbox \o out
    BY <1>1
  <1>. QED  BY <1>2 DEF Posts, Queue

LEMMA PlayerSorts ==
    ASSUME NEW stream \in Streams, NEW aud \in Prompts \cup {NoPrompt}, NEW cb \in Callbacks
    PROVE  /\ \A S : /\ OpenPlayer(stream, aud, cb) \in Opening(S) <=> stream \in S
                     /\ ClosePlayer(stream, cb) \in Closing(S) <=> stream \in S
                     /\ OpenPlayer(stream, aud, cb) \notin Closing(S)
                     /\ ClosePlayer(stream, cb) \notin Opening(S)
           /\ OpenPlayer(stream, aud, cb).cb = cb /\ ClosePlayer(stream, cb).cb = cb
           /\ OpenPlayer(stream, aud, cb).mod = "AUDIO" /\ ClosePlayer(stream, cb).mod = "AUDIO"
  <1>1. OpenPlayer(stream, aud, cb) \in Messages /\ ClosePlayer(stream, cb) \in Messages
    BY PlayerType
  <1>. QED  BY <1>1 DEF OpenPlayer, ClosePlayer, Message, Opening, Closing

LEMMA RequestSorts ==
    ASSUME NEW m \in Messages, m.mod = "AUDIO_MANAGE"
    PROVE  /\ \A S : m \notin Opening(S) /\ m \notin Closing(S)
           /\ \A op, stream : m \in Asking(op, stream) <=> m.op = op /\ m.stream = stream
  BY DEF Opening, Closing, Asking

\* A restart of a call goes on as long as the link is there, and otherwise ends.
Restarting == {m \in Messages : m.cb = "tws_restart_voice_callback"}
Ending == Asking("STOP", "VOICE") \cup Restarting
Calling == Asking("START", "VOICE") \cup Asking("STOP", "VOICE")

LEMMA AnswerSends ==
    ASSUME NEW cb \in Callbacks
    PROVE  \/ Answer(cb) = <<>> /\ ~(cb = "tws_restart_voice_callback" /\ sco = "off")
           \/ /\ sco # "off" /\ cb = "tws_stop_sco_callback"
              /\ \E m \in Asking("START", "VOICE") \cap Restarting : Answer(cb) = <<m>>
           \/ /\ sco = "off" /\ cb = "tws_restart_voice_callback"
              /\ \E m \in Asking("STOP", "VOICE") : Answer(cb) = <<m>>
  <1>1. CASE cb = "tws_stop_sco_callback" /\ sco # "off"
    <2>. DEFINE m == [Request("START", "VOICE") EXCEPT !.cb = "tws_restart_voice_callback"]
    <2>1. "VOICE" \in Streams /\ "tws_restart_voice_callback" \in Callbacks
          /\ NoPrompt \in Prompts \cup {NoPrompt}
      BY DEF Streams, Callbacks
    <2>2. /\ m \in Messages /\ m.mod = "AUDIO_MANAGE" /\ m.op = "START" /\ m.stream = "VOICE"
          /\ m.cb = "tws_restart_voice_callback"
      <3>1. Request("START", "VOICE") \in Messages
        BY <2>1, RequestType
      <3>. QED  BY <2>1, <3>1 DEF Request, Message, Messages
    <2>3. Answer(cb) = <<m>>
      BY <1>1 DEF Answer
    <2>. HIDE DEF m
    <2>. QED  BY <1>1, <2>2, <2>3, RequestSorts DEF Restarting
  <1>2. CASE cb = "tws_restart_voice_callback" /\ sco = "off"
    <2>. DEFINE m == Request("STOP", "VOICE")
    <2>1. "VOICE" \in Streams /\ "none" \in Callbacks /\ NoPrompt \in Prompts \cup {NoPrompt}
      BY DEF Streams, Callbacks
    <2>2. m \in Messages /\ m.mod = "AUDIO_MANAGE" /\ m.op = "STOP" /\ m.stream = "VOICE"
      <3>1. Request("STOP", "VOICE") \in Messages
        BY <2>1, RequestType
      <3>. QED  BY <2>1, <3>1 DEF Request, Message, Messages
    <2>3. Answer(cb) = <<m>>
      BY <1>2 DEF Answer
    <2>. HIDE DEF m
    <2>. QED  BY <1>2, <2>2, <2>3, RequestSorts
  <1>3. CASE ~(cb = "tws_stop_sco_callback" /\ sco # "off")
             /\ ~(cb = "tws_restart_voice_callback" /\ sco = "off")
    BY <1>3 DEF Answer
  <1>. QED  BY <1>1, <1>2, <1>3

LEMMA SortsApart ==
    ASSUME NEW m \in Messages
    PROVE  /\ \A S : m \in Opening(S) \cup Closing(S) => m.mod = "AUDIO"
           /\ \A o, s : m \in Asking(o, s) => m.mod = "AUDIO_MANAGE"
           /\ \A o, s, p, t : m \in Asking(o, s) /\ m \in Asking(p, t) => o = p /\ s = t
           /\ \A S, T : ~(m \in Opening(S) /\ m \in Closing(T))
  BY DEF Opening, Closing, Asking

\* What the answers are not
LEMMA AnswerSorts ==
    ASSUME NEW cb \in Callbacks
    PROVE  /\ \A S : ~Holds(Answer(cb), Opening(S)) /\ ~Holds(Answer(cb), Closing(S))
           /\ ~Holds(Answer(cb), Asking("STOP", "MEDIA"))
           /\ Followed(Answer(cb), Asking("START", "VOICE"), Ending)
           /\ cb = "tws_restart_voice_callback" /\ sco = "off" => Holds(Answer(cb), Ending)
           /\ cb = "none" => Answer(cb) = <<>>
  <1>1. ASSUME NEW m \in Asking("START", "VOICE") \cap Restarting, Answer(cb) = <<m>>
        PROVE  /\ \A S : ~Holds(Answer(cb), Opening(S)) /\ ~Holds(Answer(cb), Closing(S))
               /\ ~Holds(Answer(cb), Asking("STOP", "MEDIA"))
               /\ Followed(Answer(cb), Asking("START", "VOICE"), Ending)
    <2>1. m \in Messages /\ m \in Ending
      BY DEF Restarting, Ending
    <2>2. \A S : m \notin Opening(S) /\ m \notin Closing(S)
      BY <2>1, SortsApart
    <2>3. m \notin Asking("STOP", "MEDIA")
      BY <2>1, SortsApart
    <2>4. Followed(<<m>>, Asking("START", "VOICE"), Ending)
      BY <2>1, ShortQueues
    <2>5. ~Holds(<<m>>, Asking("STOP", "MEDIA"))
      BY <2>3, ShortQueues
    <2>6. ASSUME NEW S  PROVE ~Holds(<<m>>, Opening(S)) /\ ~Holds(<<m>>, Closing(S))
      BY <2>2, ShortQueues
    <2>. QED  BY <1>1, <2>4, <2>5, <2>6
  <1>2. ASSUME NEW m \in Asking("STOP", "VOICE"), Answer(cb) = <<m>>
        PROVE  /\ \A S : ~Holds(Answer(cb), Opening(S)) /\ ~Holds(Answer(cb), Closing(S))
               /\ ~Holds(Answer(cb), Asking("STOP", "MEDIA"))
               /\ Followed(Answer(cb), Asking("START", "VOICE"), Ending)
               /\ Holds(Answer(cb), Ending)
    <2>1. m \in Messages /\ m \in Ending
      BY DEF Asking, Ending
    <2>2. \A S : m \notin Opening(S) /\ m \notin Closing(S)
      BY <2>1, SortsApart
    <2>3. m \notin Asking("STOP", "MEDIA")
      BY <2>1, SortsApart
    <2>4. Followed(<<m>>, Asking("START", "VOICE"), Ending) /\ Holds(<<m>>, Ending)
      BY <2>1, ShortQueues
    <2>5. ~Holds(<<m>>, Asking("STOP", "MEDIA"))
      BY <2>3, ShortQueues
    <2>6. ASSUME NEW S  PROVE ~Holds(<<m>>, Opening(S)) /\ ~Holds(<<m>>, Closing(S))
      BY <2>2, ShortQueues
    <2>. QED  BY <1>2, <2>4, <2>5, <2>6
  <1>3. cb = "none" => Answer(cb) = <<>>
    BY DEF Answer
  <1>4. CASE Answer(cb) = <<>> /\ ~(cb = "tws_restart_voice_callback" /\ sco = "off")
    BY <1>3, <1>4, ShortQueues
  <1>5. CASE \E m \in Asking("START", "VOICE") \cap Restarting :
                Answer(cb) = <<m>> /\ sco # "off"
    BY <1>1, <1>3, <1>5
  <1>6. CASE \E m \in Asking("STOP", "VOICE") : Answer(cb) = <<m>>
    BY <1>2, <1>3, <1>6
  <1>. QED  BY <1>4, <1>5, <1>6, AnswerSends

LEMMA ShortConcat ==
    ASSUME NEW S, NEW x \in S, NEW y \in S
    PROVE  /\ Append(<<>>, y) = <<y>> /\ Append(<<x>>, y) = <<x, y>>
           /\ <<>> \o <<>> = <<>> /\ <<>> \o <<y>> = <<y>> /\ <<x>> \o <<>> = <<x>>
           /\ <<x>> \o <<y>> = <<x, y>>
  <1>1. <<>> \in Seq(S) /\ <<x>> \in Seq(S) /\ <<y>> \in Seq(S)
    OBVIOUS
  <1>2. <<>> \o <<>> = <<>> /\ <<>> \o <<y>> = <<y>> /\ <<x>> \o <<>> = <<x>>
    BY <1>1, ConcatEmptySeq
  <1>3. Append(<<>>, y) = <<y>>
    OBVIOUS
  <1>4. Append(<<x>>, y) = <<x>> \o <<y>>
    BY <1>1, AppendIsConcat
  <1>5. Append(<<x>>, y) = <<x, y>>
    <2>. DEFINE s == Append(<<x>>, y)
                t == <<x, y>>
    <2>1. t \in Seq(S) /\ Len(t) = 2 /\ t[1] = x /\ t[2] = y
      OBVIOUS
    <2>2. s \in Seq(S) /\ Len(s) = 2 /\ s[1] = x /\ s[2] = y
      BY <1>1
    <2>. HIDE DEF s, t
    <2>3. \A i \in 1 .. Len(s) : s[i] = t[i]
      BY <2>1, <2>2
    <2>4. s = t
      BY <2>1, <2>2, <2>3, SeqEqual
    <2>. QED  BY <2>4 DEF s, t
  <1>. QED  BY <1>2, <1>3, <1>4, <1>5

(* A handler of the manager answers its callback, or sends messages for    *)
(* the players of which one has the callback to answer.                    *)
LEMMA ManagerSends ==
    ASSUME TypeOK, NEW m, Manage(m)
    PROVE  /\ Take(m) /\ m.mod = "AUDIO_MANAGE"
           /\ UNCHANGED <<gStreamplayer, prompt, link>> /\ audio_list' \in {audio_list, <<>>}
           /\ \/ out' = Answer(m.cb)
              \/ \E x : out' = <<x>> /\ x.mod = "AUDIO" /\ x.cb = m.cb
              \/ \E x, y : /\ out' = <<x, y>> /\ x.mod = "AUDIO" /\ y.mod = "AUDIO"
                           /\ x.cb \in {m.cb, "none"} /\ y.cb = m.cb
  <1>1. Take(m) /\ m.mod = "AUDIO_MANAGE"
    BY DEF Manage, StartSbc, StartMediaMerged, StartMediaInStream, StartMedia,
       StartVoice, StopSbc, StopMedia, StopVoice, StopPrompts, Starts, Stops
  <1>2. m \in Messages
    BY <1>1, TakeType
  <1>3. \A stream \in Streams, aud \in Prompts \cup {NoPrompt}, cb \in {m.cb, "none"} :
            /\ OpenPlayer(stream, aud, cb).cb = cb /\ ClosePlayer(stream, cb).cb = cb
            /\ OpenPlayer(stream, aud, cb).mod = "AUDIO" /\ ClosePlayer(stream, cb).mod = "AUDIO"
    BY <1>2, MessageParts, PlayerSorts
  <1>. DEFINE Sends(s) ==
         \/ s = <<>>
         \/ \E x : s = <<x>> /\ x.mod = "AUDIO" /\ x.cb = m.cb
         \/ \E x, y : /\ s = <<x, y>> /\ x.mod = "AUDIO" /\ y.mod = "AUDIO"
                      /\ x.cb \in {m.cb, "none"} /\ y.cb = m.cb
  <1>4. \A stream \in Streams, aud \in Prompts \cup {NoPrompt} :
            /\ Sends(<<OpenPlayer(stream, aud, m.cb)>>) /\ Sends(<<ClosePlayer(stream, m.cb)>>)
            /\ \A t \in Streams, cb \in {m.cb, "none"} :
                  Sends(<<ClosePlayer(t, cb), OpenPlayer(stream, aud, m.cb)>>)
    BY <1>3
  <1>5. Sends(<<>>)
    OBVIOUS
  <1>. SUFFICES \E s, a, c, l : l \in {audio_list, <<>>} /\ Decide(m, a, c, l, s) /\ Sends(s)
    <2>1. PICK s, a, c, l : l \in {audio_list, <<>>} /\ Decide(m, a, c, l, s) /\ Sends(s)
      OBVIOUS
    <2>. QED  BY <1>1, <2>1 DEF Decide
  <1>. HIDE DEF Sends
  <1>7. /\ "SBC" \in Streams /\ "MEDIA" \in Streams /\ "VOICE" \in Streams
        /\ NoPrompt \in Prompts \cup {NoPrompt} /\ m.aud \in Prompts \cup {NoPrompt}
    BY <1>2, MessageParts
  <1>9. ASSUME NEW a, NEW c, NEW l, NEW s \in {<<>>, <<ClosePlayer("MEDIA", m.cb)>>},
               Resume(m, a, c, l, s)
        PROVE  \E t, b, d : Decide(m, b, d, l, t) /\ Sends(t)
    <2>. DEFINE open == OpenPlayer("VOICE", NoPrompt, m.cb)
                close == ClosePlayer("MEDIA", m.cb)
    <2>1. open \in Messages /\ close \in Messages
      BY <1>2, <1>7, MessageParts, PlayerType
    <2>2. Sends(<<open>>) /\ Sends(<<close, open>>) /\ Sends(<<close>>)
      BY <1>4, <1>7
    <2>3. s \in {<<>>, <<close>>}
      OBVIOUS
    <2>4. (\E b, d : Decide(m, b, d, l, Append(s, open))) \/ \E b, d : Decide(m, b, d, l, s)
      BY <1>9 DEF Resume
    <2>. HIDE DEF open, close
    <2>5. Append(s, open) \in {<<open>>, <<close, open>>}
      BY <2>1, <2>3, ShortConcat, ZenonT(60)
    <2>. QED  BY <1>5, <2>2, <2>3, <2>4, <2>5
  <1>10. CASE StartSbc(m)  BY <1>4, <1>5, <1>7, <1>10 DEF StartSbc
  <1>11. CASE StartMediaMerged(m)  BY <1>5, <1>11 DEF StartMediaMerged
  <1>12. CASE StartMediaInStream(m)  BY <1>4, <1>7, <1>12 DEF StartMediaInStream
  <1>13. CASE StartMedia(m)  BY <1>4, <1>7, <1>13 DEF StartMedia
  <1>14. CASE StartVoice(m)  BY <1>4, <1>5, <1>7, <1>14 DEF StartVoice
  <1>15. CASE StopSbc(m)  BY <1>4, <1>5, <1>7, <1>15 DEF StopSbc
  <1>16. CASE StopMedia(m)
    BY <1>5, <1>9, <1>16 DEF StopMedia
  <1>17. CASE StopVoice(m)  BY <1>4, <1>5, <1>7, <1>17 DEF StopVoice
  <1>18. CASE StopPrompts(m)
    BY <1>5, <1>9, <1>18 DEF StopPrompts
  <1>. QED  BY <1>10, <1>11, <1>12, <1>13, <1>14, <1>15, <1>16, <1>17, <1>18 DEF Manage

-----------------------------------------------------------------------------
(***************************************************************************)
(* What the handlers of the list do to the player and the list.  The list  *)
(* holds prompts only while one of them is open, and a prompt that has     *)
(* ended has posted its close.                                             *)
(***************************************************************************)
PromptPlays ==
    /\ prompt = "off" <=> gStreamplayer # "MEDIA"
    /\ prompt = "ended" => Holds(Queue, Closing({"MEDIA"}))
    /\ Playbacks # {} => gStreamplayer = "MEDIA"

VoiceListed == \E i \in DOMAIN audio_list : audio_list[i].stream = "VOICE"

\* A stream that is opened is alone in the list.
OpensLive(m) ==
    /\ gStreamplayer' = m.stream /\ prompt' = "off"
    /\ (Playbacks = {})' /\ (VoiceListed' => m.stream = "VOICE")
    /\ out' = Answer(m.cb)

LEMMA LiveOpened ==
    ASSUME ListSound, NEW m, OpenStream(m)
    PROVE  Take(m) /\ (\E s \in Live : m \in Opening({s}) /\ m.stream = s) /\ OpensLive(m)
  <1>1. Take(m) /\ m \in Messages /\ m.mod = "AUDIO" /\ m.op = "OPEN" /\ m.stream # "MEDIA"
    BY TakeType DEF OpenStream, Opens, ListSound
  <1>2. m.stream \in Live /\ m \in Opening({m.stream})
    BY <1>1 DEF Live, Streams, Messages, Opening
  <1>3. audio_list' = <<Entry(m)>> /\ Entry(m).stream = m.stream
    BY DEF OpenStream, Entry
  <1>4. DOMAIN audio_list' = {1} /\ audio_list'[1].stream = m.stream
    BY <1>3
  <1>5. (Playbacks = {})' /\ (VoiceListed' => m.stream = "VOICE")
    BY <1>1, <1>4 DEF Playbacks, VoiceListed
  <1>6. Play(Entry(m), <<>>, Answer(m.cb))
    BY DEF OpenStream
  <1>7. gStreamplayer' = m.stream /\ prompt' = "off"
    BY <1>1, <1>3, <1>6 DEF Play
  <1>8. out' = Answer(m.cb)
    <2>1. Answer(m.cb) \in Seq(Messages)
      BY <1>1, AnswerType, MessageParts
    <2>2. out' = <<>> \o <<>> \o Answer(m.cb)
      BY <1>1, <1>3, <1>6 DEF Play
    <2>. QED  BY <2>1, <2>2
  <1>. QED  BY <1>1, <1>2, <1>5, <1>7, <1>8 DEF OpensLive

(* After a prompt is opened one plays; it is listed unless the list was    *)
(* full and a stream is in it.                                             *)
Flushed == StreamListed /\ Len(audio_list) >= MAX_AUDIO_BUF_LIST

LEMMA PromptOpened ==
    ASSUME ListSound, PromptPlays, NEW m,
           OpenRefused(m) \/ OpenPrompt(m) \/ OpenLater(m) \/ OpenFull(m)
    PROVE  /\ Take(m) /\ m \in Opening({"MEDIA"})
           /\ gStreamplayer' = "MEDIA" /\ prompt' # "off"
           /\ (StreamListed' => StreamListed) /\ (VoiceListed' => VoiceListed)
           /\ (Playbacks # {})' \/ Flushed
  <1>1. Take(m) /\ m \in Messages /\ m.mod = "AUDIO" /\ m.op = "OPEN" /\ m.stream = "MEDIA"
    BY TakeType DEF OpenRefused, OpenPrompt, OpenLater, OpenFull, Opens, ListSound
  <1>2. Take(m) /\ m \in Opening({"MEDIA"})
    BY <1>1 DEF Opening
  <1>3. audio_list \in Seq(Entries) /\ Entry(m) \in Entries /\ Entry(m).stream = "MEDIA"
    BY <1>1, MessageParts DEF ListSound, TypeOK
  <1>4. Len(audio_list) \in Nat /\ DOMAIN audio_list = 1 .. Len(audio_list)
    BY <1>3
  <1>5. CASE UNCHANGED <<gStreamplayer, prompt, audio_list>> /\ Playbacks # {}
    BY <1>2, <1>5 DEF PromptPlays, Playbacks, StreamListed, VoiceListed
  <1>6. CASE audio_list' = Append(audio_list, Entry(m))
             /\ (gStreamplayer' = "MEDIA" /\ prompt' # "off")
    <2>1. /\ DOMAIN audio_list' = 1 .. Len(audio_list) + 1
          /\ \A i \in 1 .. Len(audio_list) : audio_list'[i] = audio_list[i]
          /\ audio_list'[Len(audio_list) + 1].stream = "MEDIA"
          /\ Len(audio_list) + 1 \in DOMAIN audio_list'
          /\ \A i \in 1 .. Len(audio_list) + 1 :
                i \in 1 .. Len(audio_list) \/ i = Len(audio_list) + 1
      BY <1>3, <1>4, <1>6
    <2>2. (Playbacks # {})'
      BY <2>1 DEF Playbacks
    <2>3. (StreamListed' => StreamListed) /\ (VoiceListed' => VoiceListed)
      BY <1>4, <2>1 DEF StreamListed, VoiceListed
    <2>. QED  BY <1>2, <1>6, <2>2, <2>3
  <1>7. Play(Entry(m), <<>>, Answer(m.cb)) => gStreamplayer' = "MEDIA" /\ prompt' # "off"
    BY <1>3 DEF Play
  <1>8. CASE OpenRefused(m)
    <2>1. Refused(m) /\ UNCHANGED <<gStreamplayer, prompt, audio_list>>
      BY <1>8 DEF OpenRefused, NoPlay
    <2>2. ASSUME Playbacks = {}  PROVE FALSE
      <3>1. {i \in Playbacks : audio_list[i].aud = m.aud} = {}
        BY <2>2
      <3>2. Cardinality({i \in Playbacks : audio_list[i].aud = m.aud}) = 0
        BY <3>1, FS_EmptySet
      <3>. QED  BY <2>1, <3>2, MediaAssumption DEF Refused
    <2>. QED  BY <1>5, <2>1, <2>2
  <1>9. CASE OpenPrompt(m)
    BY <1>6, <1>7, <1>9 DEF OpenPrompt
  <1>10. CASE OpenLater(m)
    <2>1. UNCHANGED <<gStreamplayer, prompt>> /\ Playbacks # {}
          /\ audio_list' = Append(audio_list, Entry(m))
      BY <1>10 DEF OpenLater, NoPlay
    <2>. QED  BY <1>6, <2>1 DEF PromptPlays
  <1>11. CASE OpenFull(m)
    <2>1. gStreamplayer' = "MEDIA" /\ prompt' # "off"
      BY <1>7, <1>11 DEF OpenFull
    <2>2. CASE StreamListed
      <3>1. audio_list' = <<Head(audio_list)>> /\ audio_list # <<>>
        BY <1>3, <1>4, <1>11, <2>2 DEF OpenFull, StreamListed
      <3>2. DOMAIN audio_list' = {1} /\ audio_list'[1] = audio_list[1] /\ 1 \in DOMAIN audio_list
        BY <1>3, <3>1
      <3>3. VoiceListed' => VoiceListed
        BY <3>2 DEF VoiceListed
      <3>4. Flushed
        BY <1>11, <2>2 DEF Flushed, OpenFull
      <3>. QED  BY <1>2, <2>1, <2>2, <3>3, <3>4
    <2>3. CASE ~StreamListed
      <3>1. audio_list' = <<Entry(m)>>
        BY <1>11, <2>3 DEF OpenFull
      <3>2. DOMAIN audio_list' = {1} /\ audio_list'[1].stream = "MEDIA"
        BY <1>3, <3>1
      <3>3. (Playbacks # {})' /\ ~StreamListed' /\ ~VoiceListed'
        BY <3>2 DEF Playbacks, StreamListed, VoiceListed
      <3>. QED  BY <1>2, <2>1, <3>3
    <2>. QED  BY <2>2, <2>3
  <1>. QED  BY <1>8, <1>9, <1>10, <1>11

\* A stream that is closed is open and listed no more; prompts are left alone.
LEMMA LiveClosed ==
    ASSUME ListSound, PromptPlays, NEW m, CloseStream(m)
    PROVE  /\ Take(m) /\ (\E s \in Live : m \in Closing({s}) /\ m.stream = s)
           /\ gStreamplayer' = IF gStreamplayer = m.stream THEN "NULL" ELSE gStreamplayer
           /\ gStreamplayer' = gStreamplayer => prompt' = prompt
           /\ gStreamplayer' # gStreamplayer => prompt' = "off"
           /\ ~StreamListed' /\ ~VoiceListed'
           /\ (Playbacks # {})' <=> Playbacks # {}
           /\ out' = Answer(m.cb)
  <1>1. Take(m) /\ m \in Messages /\ m.mod = "AUDIO" /\ m.op = "CLOSE" /\ m.stream # "MEDIA"
    BY TakeType DEF CloseStream, Closes, ListSound
  <1>2. m.stream \in Live /\ m \in Closing({m.stream})
    BY <1>1 DEF Live, Streams, Messages, Closing
  <1>3. gStreamplayer' = (IF gStreamplayer = m.stream THEN "NULL" ELSE gStreamplayer)
        /\ (gStreamplayer' = gStreamplayer => prompt' = prompt)
        /\ (gStreamplayer' # gStreamplayer => prompt' = "off")
    <2>1. m.stream # "NULL"
      BY <1>1 DEF Messages, Streams
    <2>. QED  BY <2>1 DEF CloseStream, Closed
  <1>4. /\ audio_list \in Seq(Entries) /\ Len(audio_list) \in Nat
        /\ DOMAIN audio_list = 1 .. Len(audio_list)
        /\ \A i \in 1 .. Len(audio_list) : i > 1 => audio_list[i].stream = "MEDIA"
    BY DEF ListSound, TypeOK, StreamsFirst
  <1>5. ~StreamListed' /\ ~VoiceListed' /\ ((Playbacks # {})' <=> Playbacks # {})
    <2>1. CASE StreamListed
      <3>1. audio_list' = Tail(audio_list) /\ audio_list # <<>> /\ audio_list[1].stream # "MEDIA"
        <4>1. PICK i \in DOMAIN audio_list : audio_list[i].stream # "MEDIA"
          BY <2>1 DEF StreamListed
        <4>2. i \in 1 .. Len(audio_list) /\ ~(i > 1)
          BY <1>4, <4>1
        <4>3. i = 1 /\ audio_list # <<>>
          BY <1>4, <4>2
        <4>. QED  BY <2>1, <4>1, <4>3 DEF CloseStream
      <3>2. /\ DOMAIN audio_list' = 1 .. Len(audio_list) - 1
            /\ \A i \in 1 .. Len(audio_list) - 1 :
                  i + 1 \in 1 .. Len(audio_list) /\ audio_list'[i] = audio_list[i + 1]
                  /\ i + 1 > 1
            /\ \A i \in 1 .. Len(audio_list) : i > 1 => i - 1 \in 1 .. Len(audio_list) - 1
        BY <1>4, <3>1
      <3>3. \A i \in DOMAIN audio_list' : audio_list'[i].stream = "MEDIA"
        BY <1>4, <3>2
      <3>4. (Playbacks # {})' <=> DOMAIN audio_list' # {}
        BY <3>3 DEF Playbacks
      <3>5. Playbacks # {} <=> \E i \in 1 .. Len(audio_list) : i > 1
        BY <1>4, <3>1 DEF Playbacks
      <3>6. (\E i \in 1 .. Len(audio_list) : i > 1) <=> DOMAIN audio_list' # {}
        <4>1. (\E i \in 1 .. Len(audio_list) : i > 1) <=> 1 \in 1 .. Len(audio_list) - 1
          BY <1>4
        <4>2. 1 .. Len(audio_list) - 1 # {} <=> 1 \in 1 .. Len(audio_list) - 1
          BY <1>4
        <4>. QED  BY <3>2, <4>1, <4>2
      <3>. QED  BY <3>3, <3>4, <3>5, <3>6 DEF StreamListed, VoiceListed
    <2>2. CASE ~StreamListed
      <3>1. audio_list' = audio_list
        BY <2>2 DEF CloseStream
      <3>. QED  BY <2>2, <3>1 DEF StreamListed, VoiceListed, Playbacks
    <2>. QED  BY <2>1, <2>2
  <1>6. out' = Answer(m.cb)
    BY DEF CloseStream
  <1>. QED  BY <1>1, <1>2, <1>3, <1>5, <1>6

(* The close of a prompt plays what is listed next, and tells the manager  *)
(* when the last prompt is over.                                           *)
LEMMA PromptClosed ==
    ASSUME ListSound, PromptPlays, NEW m, CloseMedia(m)
    PROVE  /\ Take(m) /\ m \in Closing({"MEDIA"})
           /\ (StreamListed' => StreamListed) /\ (VoiceListed' => VoiceListed)
           /\ gStreamplayer' = "VOICE" => gStreamplayer = "VOICE" \/ VoiceListed
           /\ (prompt = "off" <=> gStreamplayer # "MEDIA")'
           /\ prompt' = "ended" => Holds(out', Closing({"MEDIA"}))
           /\ (Playbacks # {} => gStreamplayer = "MEDIA")'
           /\ Playbacks = {} => (Playbacks = {})'
                                 /\ (gStreamplayer # "MEDIA" => gStreamplayer' = gStreamplayer)
           /\ Playbacks # {} => (Playbacks # {})' \/ Holds(out', Asking("STOP", "MEDIA"))
  <1>1. Take(m) /\ m \in Messages /\ m.mod = "AUDIO" /\ m.op = "CLOSE" /\ m.stream = "MEDIA"
    BY TakeType DEF CloseMedia, Closes, ListSound
  <1>2. Take(m) /\ m \in Closing({"MEDIA"})
    BY <1>1 DEF Closing
  <1>3. /\ audio_list \in Seq(Entries) /\ Len(audio_list) \in Nat
        /\ DOMAIN audio_list = 1 .. Len(audio_list)
        /\ \A i \in 1 .. Len(audio_list) : i > 1 => audio_list[i].stream = "MEDIA"
    BY DEF ListSound, TypeOK, StreamsFirst
  <1>4. Answer(m.cb) \in Seq(Messages) /\ Over \in Seq(Messages)
    BY <1>1, AnswerType, OverType, MessageParts
  <1>5. CASE Playbacks = {}
    <2>1. Closed("MEDIA") /\ audio_list' = audio_list
      BY <1>5 DEF CloseMedia
    <2>2. /\ gStreamplayer' = (IF gStreamplayer = "MEDIA" THEN "NULL" ELSE gStreamplayer)
          /\ prompt' = IF gStreamplayer = "MEDIA" THEN "off" ELSE prompt
      BY <2>1 DEF Closed
    <2>3. (prompt = "off" <=> gStreamplayer # "MEDIA")' /\ prompt' # "ended"
      BY <2>2 DEF PromptPlays
    <2>4. (Playbacks = {})' /\ (StreamListed' => StreamListed) /\ (VoiceListed' => VoiceListed)
      BY <1>5, <2>1 DEF Playbacks, StreamListed, VoiceListed
    <2>. QED  BY <1>2, <1>5, <2>2, <2>3, <2>4
  <1>6. CASE Playbacks # {}
    <2>1. PICK i \in Playbacks :
              /\ \A j \in Playbacks : i <= j
              /\ audio_list' = Without(audio_list, i)
              /\ IF i < Len(audio_list)
                 THEN Play(audio_list[i + 1], Over, Answer(m.cb))
                 ELSE IF StreamListed
                 THEN Play(Head(audio_list), Over, Answer(m.cb))
                 ELSE Closed("MEDIA") /\ out' = Over \o Answer(m.cb)
      BY <1>6 DEF CloseMedia
    <2>2. i \in 1 .. Len(audio_list) /\ audio_list[i].stream = "MEDIA"
      BY <1>3 DEF Playbacks
    <2>3. /\ Without(audio_list, i) \in Seq(Entries)
          /\ \A j \in DOMAIN audio_list' :
                /\ j \in Nat /\ j >= 1
                /\ audio_list'[j] = audio_list[IF j < i THEN j ELSE j + 1]
                /\ (IF j < i THEN j ELSE j + 1) \in 1 .. Len(audio_list)
      BY <1>3, <2>1, <2>2, WithoutElements, WithoutType
    <2>4. (StreamListed' => StreamListed) /\ (VoiceListed' => VoiceListed)
      BY <1>3, <2>3 DEF StreamListed, VoiceListed
    <2>5. DOMAIN audio_list' = 1 .. Len(audio_list) - 1
      <3>1. Len(Without(audio_list, i)) = Len(audio_list) - 1
        BY <1>3, <2>2, WithoutLength
      <3>. QED  BY <2>1, <2>3, <3>1
    <2>6. ASSUME NEW e \in Entries, Play(e, Over, Answer(m.cb))
          PROVE  /\ gStreamplayer' = e.stream
                 /\ (prompt = "off" <=> gStreamplayer # "MEDIA")'
                 /\ prompt' = "ended" => Holds(out', Closing({"MEDIA"}))
                 /\ Holds(Over, Asking("STOP", "MEDIA")) => Holds(out', Asking("STOP", "MEDIA"))
      <3>. DEFINE close == ClosePlayer("MEDIA", "none")
                  silent == IF e.stream = "MEDIA" /\ e.aud \in Silent THEN <<close>> ELSE <<>>
      <3>1. close \in Messages /\ close \in Closing({"MEDIA"})
        <4>1. "MEDIA" \in Streams /\ "none" \in Callbacks /\ NoPrompt \in Prompts \cup {NoPrompt}
          BY DEF Streams, Callbacks
        <4>. QED  BY <4>1, PlayerType, PlayerSorts
      <3>2. out' = Over \o silent \o Answer(m.cb)
        BY <2>6 DEF Play
      <3>3. prompt' = "ended" => e.stream = "MEDIA" /\ e.aud \in Silent
        BY <2>6 DEF Play
      <3>. HIDE DEF close
      <3>4. silent \in Seq(Messages) /\ Over \o silent \in Seq(Messages)
        BY <1>4, <3>1
      <3>5. prompt' = "ended" => Holds(silent, Closing({"MEDIA"}))
        BY <3>1, <3>3, ShortQueues
      <3>. HIDE DEF silent
      <3>6. \A Y : Holds(Over, Y) \/ Holds(silent, Y) => Holds(out', Y)
        BY <1>4, <3>2, <3>4, HoldsConcat
      <3>7. gStreamplayer' = e.stream /\ (prompt = "off" <=> gStreamplayer # "MEDIA")'
        BY <2>6 DEF Play
      <3>. QED  BY <3>5, <3>6, <3>7
    <2>7. CASE i < Len(audio_list)
      <3>1. audio_list[i + 1] \in Entries /\ audio_list[i + 1].stream = "MEDIA"
        BY <1>3, <2>2, <2>7
      <3>2. i \in DOMAIN audio_list' /\ ~(i < i)
        BY <1>3, <2>2, <2>5, <2>7
      <3>3. audio_list'[i].stream = "MEDIA"
        BY <2>3, <3>1, <3>2
      <3>4. (Playbacks # {})'
        BY <3>2, <3>3 DEF Playbacks
      <3>. QED  BY <1>2, <1>6, <2>1, <2>4, <2>6, <2>7, <3>1, <3>4
    <2>8. CASE ~(i < Len(audio_list))
      <3>1. i = Len(audio_list)
        <4>1. i \in 1 .. Len(audio_list) /\ Len(audio_list) \in Nat
          BY <1>3, <2>2
        <4>2. \A n \in Nat : \A k \in 1 .. n : ~(k < n) => k = n
          OBVIOUS
        <4>. QED  BY <2>8, <4>1, <4>2
      <3>2. Playbacks = {i}
        BY <1>3, <2>1, <2>2, <3>1 DEF Playbacks
      <3>3. (Playbacks = {})'
        <4>. SUFFICES ASSUME NEW j \in DOMAIN audio_list', audio_list'[j].stream = "MEDIA"
                      PROVE  FALSE
          BY DEF Playbacks
        <4>1. j \in 1 .. Len(audio_list) /\ j < i /\ audio_list'[j] = audio_list[j]
          BY <1>3, <2>3, <2>5, <3>1
        <4>2. j \in Playbacks
          BY <1>3, <4>1 DEF Playbacks
        <4>. QED  BY <3>2, <4>1, <4>2
      <3>4. Over = <<Request("STOP", "MEDIA")>>
        BY <3>2, FS_Singleton DEF Over
      <3>5. Request("STOP", "MEDIA") \in Asking("STOP", "MEDIA")
        BY RequestType DEF Streams, Request, Message, Asking
      <3>6. Holds(Over, Asking("STOP", "MEDIA"))
        BY <3>4, <3>5, ShortQueues
      <3>7. CASE StreamListed
        <4>1. audio_list # <<>> /\ Head(audio_list) = audio_list[1]
              /\ audio_list[1] \in Entries /\ 1 \in DOMAIN audio_list
          BY <1>3, <3>7 DEF StreamListed
        <4>2. Play(audio_list[1], Over, Answer(m.cb))
          BY <2>1, <2>8, <3>7, <4>1
        <4>3. gStreamplayer' = "VOICE" => VoiceListed
          BY <2>6, <4>1, <4>2 DEF VoiceListed
        <4>. QED  BY <1>2, <1>6, <2>4, <2>6, <3>3, <3>6, <4>1, <4>2, <4>3
      <3>8. CASE ~StreamListed
        <4>1. Closed("MEDIA") /\ out' = Over \o Answer(m.cb)
          BY <2>1, <2>8, <3>8
        <4>2. gStreamplayer' = "NULL" /\ prompt' = "off"
          BY <1>6, <4>1 DEF Closed, PromptPlays
        <4>3. Holds(out', Asking("STOP", "MEDIA"))
          BY <1>4, <3>6, <4>1, HoldsConcat
        <4>. QED  BY <1>2, <1>6, <2>4, <3>3, <4>2, <4>3
      <3>. QED  BY <3>7, <3>8
    <2>. QED  BY <2>7, <2>8
  <1>. QED  BY <1>5, <1>6

(* The handlers of the list send no more than the close of a prompt, word  *)
(* that the prompts are over, and at last the answer to the callback.      *)
LEMMA HandleSends ==
    ASSUME TypeOK, NEW m, Handle(m)
    PROVE  /\ Take(m) /\ m.mod = "AUDIO" /\ UNCHANGED <<manager, sco>>
           /\ \A S : ~Holds(out', Opening(S)) /\ ("MEDIA" \notin S => ~Holds(out', Closing(S)))
           /\ \A X, Y : ~Holds(out', X) => Followed(out', X, Y)
           /\ Followed(out', Asking("START", "VOICE"), Ending)
           /\ m \in Restarting /\ sco = "off" => Holds(out', Ending)
           /\ m.cb = "none" => /\ ~Holds(out', Calling)
                               /\ \A i \in 1 .. Len(out') : out'[i].cb = "none"
  <1>1. Take(m) /\ m.mod = "AUDIO" /\ UNCHANGED <<manager, sco>>
    BY DEF Handle, OpenStream, OpenRefused, OpenPrompt, OpenLater, OpenFull, CloseStream,
       CloseMedia, Opens, Closes
  <1>2. m \in Messages /\ m.cb \in Callbacks
    BY <1>1, TakeType, MessageParts
  <1>. DEFINE close == ClosePlayer("MEDIA", "none")
              over == Request("STOP", "MEDIA")
  <1>3. /\ close \in Messages /\ close \in Closing({"MEDIA"}) /\ close.mod = "AUDIO"
        /\ close.cb = "none" /\ over.cb = "none"
        /\ over \in Messages /\ over \in Asking("STOP", "MEDIA")
        /\ \A S : /\ close \notin Opening(S)
                  /\ "MEDIA" \notin S => close \notin Closing(S)
    <2>1. "MEDIA" \in Streams /\ "none" \in Callbacks /\ NoPrompt \in Prompts \cup {NoPrompt}
      BY DEF Streams, Callbacks
    <2>2. over \in Messages /\ over \in Asking("STOP", "MEDIA") /\ over.cb = "none"
      BY RequestType DEF Streams, Request, Message, Asking
    <2>. QED  BY <2>1, <2>2, PlayerType, PlayerSorts
  <1>4. \E r \in {<<>>, <<close>>, <<over>>, <<over, close>>} : out' = r \o Answer(m.cb)
    <2>1. Answer(m.cb) \in Seq(Messages)
      BY <1>2, AnswerType
    <2>2. <<>> \o Answer(m.cb) = Answer(m.cb)
      BY <2>1
    <2>3. /\ <<>> \o <<>> = <<>> /\ <<>> \o <<close>> = <<close>>
          /\ <<over>> \o <<>> = <<over>> /\ <<over>> \o <<close>> = <<over, close>>
      BY <1>3, ShortConcat
    <2>4. Over \in {<<>>, <<over>>}
      BY DEF Over
    <2>5. ASSUME NEW e, NEW b \in {<<>>, <<over>>}, Play(e, b, Answer(m.cb))
          PROVE  \E r \in {<<>>, <<close>>, <<over>>, <<over, close>>} : out' = r \o Answer(m.cb)
      <3>. DEFINE silent == IF e.stream = "MEDIA" /\ e.aud \in Silent THEN <<close>> ELSE <<>>
      <3>1. out' = b \o silent \o Answer(m.cb)
        BY <2>5 DEF Play
      <3>2. silent \in {<<>>, <<close>>}
        OBVIOUS
      <3>. HIDE DEF close, over, silent
      <3>3. b \o silent \in {<<>>, <<close>>, <<over>>, <<over, close>>}
        BY <2>3, <3>2
      <3>. QED  BY <3>1, <3>3
    <2>6. CASE out' = Answer(m.cb)
      BY <2>2, <2>6
    <2>7. CASE OpenStream(m) \/ OpenRefused(m) \/ OpenPrompt(m) \/ OpenLater(m) \/ OpenFull(m)
      BY <2>5, <2>6, <2>7 DEF OpenStream, OpenRefused, OpenPrompt, OpenLater, OpenFull, NoPlay
    <2>8. CASE CloseStream(m)
      BY <2>6, <2>8 DEF CloseStream
    <2>9. CASE CloseMedia(m)
      BY <2>4, <2>5, <2>6, <2>9 DEF CloseMedia
    <2>. QED  BY <2>7, <2>8, <2>9 DEF Handle
  <1>5. PICK r \in {<<>>, <<close>>, <<over>>, <<over, close>>} : out' = r \o Answer(m.cb)
    BY <1>4
  <1>. HIDE DEF close, over
  <1>6. r \in Seq(Messages) /\ Answer(m.cb) \in Seq(Messages)
    <2>1. \A x, y \in Messages : {<<>>, <<x>>, <<y>>, <<x, y>>} \subseteq Seq(Messages)
      OBVIOUS
    <2>. QED  BY <1>2, <1>3, <2>1, AnswerType
  <1>7. \A Y : close \notin Y /\ over \notin Y => ~Holds(r, Y)
    BY ShortQueues
  <1>8. \A Y : Holds(out', Y) <=> Holds(r, Y) \/ Holds(Answer(m.cb), Y)
    BY <1>5, <1>6, HoldsConcat
  <1>9. \A S : over \notin Opening(S) /\ over \notin Closing(S)
    BY <1>3, SortsApart DEF Asking
  <1>10. \A S : ~Holds(Answer(m.cb), Opening(S)) /\ ~Holds(Answer(m.cb), Closing(S))
    BY <1>2, AnswerSorts
  <1>11. ASSUME NEW S
         PROVE  ~Holds(out', Opening(S)) /\ ("MEDIA" \notin S => ~Holds(out', Closing(S)))
    BY <1>3, <1>7, <1>8, <1>9, <1>10
  <1>12. \A X, Y : ~Holds(out', X) => Followed(out', X, Y)
    BY NoneFollowed
  <1>13. close \notin Asking("START", "VOICE") /\ over \notin Asking("START", "VOICE")
         /\ close \notin Calling /\ over \notin Calling
    BY <1>3, SortsApart DEF Calling
  <1>14. Followed(out', Asking("START", "VOICE"), Ending)
    <2>1. Followed(r, Asking("START", "VOICE"), Ending)
      BY <1>7, <1>13, NoneFollowed
    <2>2. Followed(Answer(m.cb), Asking("START", "VOICE"), Ending)
      BY <1>2, AnswerSorts
    <2>. QED  BY <1>5, <1>6, <2>1, <2>2, FollowedConcat
  <1>15. m \in Restarting /\ sco = "off" => Holds(out', Ending)
    BY <1>2, <1>8, AnswerSorts DEF Restarting
  <1>16. ASSUME m.cb = "none"
         PROVE  ~Holds(out', Calling) /\ \A i \in 1 .. Len(out') : out'[i].cb = "none"
    <2>1. Answer(m.cb) = <<>>
      BY <1>2, <1>16, AnswerSorts
    <2>2. out' = r
      BY <1>5, <1>6, <2>1
    <2>3. \A i \in 1 .. Len(r) : r[i].cb = "none"
      BY <1>3
    <2>. QED  BY <1>7, <1>13, <2>2, <2>3
  <1>. QED  BY <1>1, <1>11, <1>12, <1>14, <1>15, <1>16

LEMMA SilentCloses ==
    ASSUME TypeOK, NEW m, Take(m), m.stream = "MEDIA", m.aud \in Silent,
           Play(Entry(m), <<>>, Answer(m.cb))
    PROVE  Holds(out', Closing({"MEDIA"}))
  <1>. DEFINE close == ClosePlayer("MEDIA", "none")
  <1>1. close \in Messages /\ close \in Closing({"MEDIA"})
    <2>1. "MEDIA" \in Streams /\ "none" \in Callbacks /\ NoPrompt \in Prompts \cup {NoPrompt}
      BY DEF Streams, Callbacks
    <2>. QED  BY <2>1, PlayerType, PlayerSorts
  <1>2. Answer(m.cb) \in Seq(Messages)
    BY TakeType, AnswerType, MessageParts
  <1>3. out' = <<>> \o <<close>> \o Answer(m.cb)
    BY DEF Play, Entry
  <1>. HIDE DEF close
  <1>4. <<>> \o <<close>> = <<close>> /\ <<close>> \in Seq(Messages)
    BY <1>1, ShortConcat
  <1>5. Holds(<<close>>, Closing({"MEDIA"}))
    BY <1>1, ShortQueues
  <1>. QED  BY <1>2, <1>3, <1>4, <1>5, HoldsConcat

\* The other threads post a request or the end of the prompt, and the call's
\* link changes with what they post.
Posted(m) == m \in Messages /\ mailbox' = Append(mailbox, m) /\ out' = out

LEMMA OthersPost ==
    ASSUME TypeOK, Others
    PROVE  /\ UNCHANGED <<manager, audio_list, gStreamplayer>>
           /\ \/ UNCHANGED <<mailbox, out, prompt>> /\ sco = "off" /\ sco' = "connecting"
              \/ \E m : /\ Posted(m) /\ m.mod = "AUDIO_MANAGE" /\ prompt' = prompt
                        /\ \/ m \notin Calling /\ m.cb = "none" /\ sco' = sco
                           \/ /\ m \in Asking("START", "VOICE") /\ m.cb = "none"
                              /\ sco = "connecting" /\ sco' = "on"
                           \/ /\ m \in Asking("STOP", "VOICE") /\ m.cb = "none"
                              /\ sco # "connecting" /\ sco' = "off"
                           \/ /\ m \in Asking("STOP", "VOICE") /\ RETRIGGER_VOICE
                              /\ sco = "on" /\ sco' = "on"
              \/ \E m : /\ Posted(m) /\ m \in Closing({"MEDIA"}) /\ m.cb = "none"
                        /\ prompt = "running" /\ prompt' = "ended" /\ sco' = sco
  <1>1. UNCHANGED <<manager, audio_list, gStreamplayer>>
    BY DEF Others, MusicRequest, media_PlayAudio, CallEvent, ScoConnected, ScoStart,
       ScoDisconnected, ServiceDisconnected, bt_sco_check_pcm, PromptEnds, Post, audio
  <1>2. "SBC" \in Streams /\ "MEDIA" \in Streams /\ "VOICE" \in Streams
    BY DEF Streams
  <1>3. \A op \in {"START", "STOP", "STOP_MEDIA", "SWITCHTO_SCO"}, stream \in Streams :
            /\ Request(op, stream) \in Messages /\ Request(op, stream).mod = "AUDIO_MANAGE"
            /\ Request(op, stream).op = op /\ Request(op, stream).stream = stream
            /\ Request(op, stream).cb = "none"
    BY RequestType DEF Request, Message
  <1>4. \A m \in Messages : Post(m) => Posted(m) /\ prompt' = prompt
    BY DEF Post, Posted, audio
  <1>5. \A m \in Messages : m.mod = "AUDIO_MANAGE" =>
            /\ m.op = "START" /\ m.stream = "VOICE" => m \in Asking("START", "VOICE")
            /\ m.op = "STOP" /\ m.stream = "VOICE" => m \in Asking("STOP", "VOICE")
            /\ m.op \notin {"START", "STOP"} \/ m.stream # "VOICE" => m \notin Calling
    BY DEF Asking, Calling
  <1>6. CASE MusicRequest
    <2>1. PICK op \in {"START", "STOP"} : Post(Request(op, "SBC"))
      BY <1>6 DEF MusicRequest
    <2>2. sco' = sco
      BY <1>6 DEF MusicRequest, link
    <2>. QED  BY <1>1, <1>2, <1>3, <1>4, <1>5, <2>1, <2>2
  <1>7. CASE media_PlayAudio
    <2>1. PICK p \in Prompts : Post([Request("START", "MEDIA") EXCEPT !.aud = p])
      BY <1>7 DEF media_PlayAudio
    <2>. DEFINE m == [Request("START", "MEDIA") EXCEPT !.aud = p]
    <2>2. m \in Messages /\ m.mod = "AUDIO_MANAGE" /\ m.stream = "MEDIA" /\ m.cb = "none"
      <3>1. Request("START", "MEDIA") \in Messages
        BY <1>2, <1>3
      <3>. QED  BY <3>1 DEF Request, Message, Messages
    <2>3. sco' = sco
      BY <1>7 DEF media_PlayAudio, link
    <2>. HIDE DEF m
    <2>4. Post(m)
      BY <2>1 DEF m
    <2>. QED  BY <1>1, <1>4, <1>5, <2>2, <2>3, <2>4
  <1>8. CASE CallEvent
    <2>1. PICK op \in {"STOP_MEDIA", "SWITCHTO_SCO"} : Post(Request(op, "VOICE"))
      BY <1>8 DEF CallEvent
    <2>2. sco' = sco
      BY <1>8 DEF CallEvent, link
    <2>. QED  BY <1>1, <1>2, <1>3, <1>4, <1>5, <2>1, <2>2
  <1>9. CASE ScoConnected
    BY <1>1, <1>9 DEF ScoConnected, audio
  <1>10. CASE ScoStart
    <2>1. Post(Request("START", "VOICE")) /\ sco = "connecting" /\ sco' = "on"
      BY <1>10 DEF ScoStart
    <2>. QED  BY <1>1, <1>2, <1>3, <1>4, <1>5, <2>1
  <1>11. CASE ScoDisconnected
    <2>1. Post(Request("STOP", "VOICE")) /\ sco = "on" /\ sco' = "off"
      BY <1>11 DEF ScoDisconnected
    <2>. QED  BY <1>1, <1>2, <1>3, <1>4, <1>5, <2>1
  <1>12. CASE ServiceDisconnected
    <2>1. Post(Request("STOP", "VOICE")) /\ sco = "off" /\ sco' = "off"
      BY <1>12 DEF ServiceDisconnected, link
    <2>. QED  BY <1>1, <1>2, <1>3, <1>4, <1>5, <2>1
  <1>13. CASE bt_sco_check_pcm
    <2>. DEFINE m == [Request("STOP", "VOICE") EXCEPT !.cb = "tws_stop_sco_callback"]
    <2>1. m \in Messages /\ m.mod = "AUDIO_MANAGE" /\ m.op = "STOP" /\ m.stream = "VOICE"
      <3>1. Request("STOP", "VOICE") \in Messages
        BY <1>2, <1>3
      <3>. QED  BY <3>1 DEF Request, Message, Messages, Callbacks
    <2>2. Post(m) /\ RETRIGGER_VOICE /\ sco = "on" /\ sco' = "on"
      BY <1>13 DEF bt_sco_check_pcm
    <2>. HIDE DEF m
    <2>. QED  BY <1>1, <1>4, <1>5, <2>1, <2>2
  <1>14. CASE PromptEnds
    <2>. DEFINE m == ClosePlayer("MEDIA", "none")
    <2>1. m \in Messages /\ m \in Closing({"MEDIA"}) /\ m.cb = "none"
      <3>1. "none" \in Callbacks /\ NoPrompt \in Prompts \cup {NoPrompt}
        BY DEF Callbacks
      <3>. QED  BY <1>2, <3>1, PlayerType, PlayerSorts
    <2>2. /\ mailbox' = Append(mailbox, m) /\ out' = out
          /\ prompt = "running" /\ prompt' = "ended" /\ sco' = sco
      BY <1>14 DEF PromptEnds, link
    <2>. HIDE DEF m
    <2>. QED  BY <1>1, <2>1, <2>2 DEF Posted
  <1>. QED  BY <1>6, <1>7, <1>8, <1>9, <1>10, <1>11, <1>12, <1>13, <1>14 DEF Others

\* Posting what was sent and stuttering change nothing that the invariants see.
Resting == Queue' = Queue /\ UNCHANGED <<manager, audio, sco>>

LEMMA StepCases ==
    ASSUME TypeOK, [Next]_vars
    PROVE  \/ \E m : Manage(m)
           \/ \E m : Handle(m)
           \/ Others
           \/ Resting /\ (Posts \/ UNCHANGED vars)
  <1>1. CASE Posts
    BY <1>1, QueuePosts DEF Resting, link
  <1>2. CASE UNCHANGED vars
    BY <1>2 DEF vars, Resting, Queue, manager, audio, link
  <1>. QED  BY <1>1, <1>2 DEF Next, AppThread

-----------------------------------------------------------------------------
LEMMA PromptPlaysStep ==
    ASSUME ListSound, TypeOK', PromptPlays, [Next]_vars
    PROVE  PromptPlays'
  <1>1. TypeOK
    BY DEF ListSound
  <1>2. ASSUME NEW m, Manage(m)  PROVE PromptPlays'
    <2>1. /\ Take(m) /\ m.mod = "AUDIO_MANAGE" /\ UNCHANGED <<gStreamplayer, prompt>>
          /\ audio_list' \in {audio_list, <<>>}
      BY <1>1, <1>2, ManagerSends
    <2>2. m \notin Closing({"MEDIA"})
      BY <2>1 DEF Closing
    <2>3. Holds(Queue, Closing({"MEDIA"})) => Holds(Queue', Closing({"MEDIA"}))
      BY <1>1, <2>1, <2>2, SortsTaken
    <2>4. (Playbacks # {})' => Playbacks # {}
      BY <2>1 DEF Playbacks
    <2>. QED  BY <2>1, <2>3, <2>4 DEF PromptPlays
  <1>3. ASSUME NEW m, Handle(m)  PROVE PromptPlays'
    <2>1. Take(m)
      BY <1>1, <1>3, HandleSends
    <2>2. /\ Holds(Queue, Closing({"MEDIA"})) /\ m \notin Closing({"MEDIA"})
                => Holds(Queue', Closing({"MEDIA"}))
          /\ Holds(out', Closing({"MEDIA"})) => Holds(Queue', Closing({"MEDIA"}))
      BY <1>1, <2>1, SortsTaken
    <2>3. CASE OpenStream(m)
      <3>1. gStreamplayer' # "MEDIA" /\ prompt' = "off" /\ (Playbacks = {})'
        BY <2>3, LiveOpened DEF OpensLive, Live
      <3>. QED  BY <3>1 DEF PromptPlays
    <2>4. CASE OpenRefused(m) \/ OpenPrompt(m) \/ OpenLater(m) \/ OpenFull(m)
      <3>1. /\ m \in Opening({"MEDIA"}) /\ gStreamplayer' = "MEDIA" /\ prompt' # "off"
        BY <2>4, PromptOpened
      <3>2. prompt' = "ended" => Holds(Queue', Closing({"MEDIA"}))
        <4>1. m \notin Closing({"MEDIA"})
          BY <3>1 DEF Opening, Closing
        <4>2. m.aud \in Silent /\ Play(Entry(m), <<>>, Answer(m.cb))
                => Holds(out', Closing({"MEDIA"}))
          BY <1>1, <2>1, <3>1, SilentCloses DEF Opening
        <4>3. Play(Entry(m), <<>>, Answer(m.cb)) /\ m.aud \notin Silent => prompt' # "ended"
          BY DEF Play, Entry
        <4>4. Play(Entry(m), <<>>, Answer(m.cb)) \/ UNCHANGED prompt
          BY <2>4 DEF OpenRefused, OpenPrompt, OpenLater, OpenFull, NoPlay
        <4>. QED  BY <2>2, <4>1, <4>2, <4>3, <4>4 DEF PromptPlays
      <3>. QED  BY <3>1, <3>2 DEF PromptPlays
    <2>5. CASE CloseStream(m)
      <3>1. /\ m.stream \in Live /\ m \in Closing({m.stream})
            /\ gStreamplayer' = IF gStreamplayer = m.stream THEN "NULL" ELSE gStreamplayer
            /\ gStreamplayer' = gStreamplayer => prompt' = prompt
            /\ gStreamplayer' # gStreamplayer => prompt' = "off"
            /\ (Playbacks # {})' <=> Playbacks # {}
        BY <2>5, LiveClosed
      <3>2. m \notin Closing({"MEDIA"}) /\ m.stream # "MEDIA"
        BY <3>1 DEF Closing, Live
      <3>. QED  BY <2>2, <3>1, <3>2 DEF PromptPlays
    <2>6. CASE CloseMedia(m)
      BY <2>2, <2>6, PromptClosed DEF PromptPlays
    <2>. QED  BY <1>3, <2>3, <2>4, <2>5, <2>6 DEF Handle
  <1>4. CASE Others
    <2>1. UNCHANGED <<audio_list, gStreamplayer>>
      BY <1>1, <1>4, OthersPost
    <2>2. (Playbacks # {})' => Playbacks # {}
      BY <2>1 DEF Playbacks
    <2>3. CASE UNCHANGED <<mailbox, out, prompt>>
      BY <2>1, <2>2, <2>3 DEF PromptPlays, Queue
    <2>4. ASSUME NEW m, Posted(m), prompt' = prompt  PROVE PromptPlays'
      <3>1. Holds(Queue, Closing({"MEDIA"})) => Holds(Queue', Closing({"MEDIA"}))
        BY <1>1, <2>4, SortsPosted DEF Posted
      <3>. QED  BY <2>1, <2>2, <2>4, <3>1 DEF PromptPlays
    <2>5. ASSUME NEW m, Posted(m), m \in Closing({"MEDIA"}),
                 prompt = "running" /\ prompt' = "ended"
          PROVE  PromptPlays'
      <3>1. Holds(Queue', Closing({"MEDIA"}))
        BY <1>1, <2>5, SortsPosted DEF Posted
      <3>. QED  BY <2>1, <2>2, <2>5, <3>1 DEF PromptPlays
    <2>. QED  BY <1>1, <1>4, <2>3, <2>4, <2>5, OthersPost
  <1>5. CASE Resting
    BY <1>5 DEF Resting, PromptPlays, audio, Playbacks
  <1>. QED  BY <1>1, <1>2, <1>3, <1>4, <1>5, StepCases

-----------------------------------------------------------------------------
(***************************************************************************)
(* What the manager decides: it closes the player of stream c, if any, and *)
(* then opens that of stream o, if any.                                    *)
(***************************************************************************)
Sends(c, o) ==
    /\ \A S \in SUBSET Streams : /\ Holds(out', Closing(S)) <=> c \in S
                                 /\ Holds(out', Opening(S)) <=> o \in S
    /\ \A S \in SUBSET Streams : o \in S => \A X : Followed(out', X, Opening(S))

LEMMA SentSorts ==
    ASSUME NEW m \in Messages
    PROVE  /\ out' = Answer(m.cb) => Sends("NULL", "NULL")
           /\ \A cb \in {m.cb, "none"} : \A c, o \in Streams : \A aud \in Prompts \cup {NoPrompt} :
                 /\ out' = <<OpenPlayer(o, aud, m.cb)>> => Sends("NULL", o)
                 /\ out' = <<ClosePlayer(c, m.cb)>> => Sends(c, "NULL")
                 /\ out' = <<ClosePlayer(c, cb), OpenPlayer(o, aud, m.cb)>> => Sends(c, o)
  <1>1. m.cb \in Callbacks /\ "none" \in Callbacks /\ NoPrompt \in Prompts \cup {NoPrompt}
    BY MessageParts
  <1>2. \A S \in SUBSET Streams : "NULL" \notin S
    BY DEF Streams
  <1>3. out' = Answer(m.cb) => Sends("NULL", "NULL")
    BY <1>1, <1>2, AnswerSorts DEF Sends
  <1>4. ASSUME NEW cb \in {m.cb, "none"}, NEW c \in Streams, NEW o \in Streams,
               NEW aud \in Prompts \cup {NoPrompt}
        PROVE  /\ out' = <<OpenPlayer(o, aud, m.cb)>> => Sends("NULL", o)
               /\ out' = <<ClosePlayer(c, m.cb)>> => Sends(c, "NULL")
               /\ out' = <<ClosePlayer(c, cb), OpenPlayer(o, aud, m.cb)>> => Sends(c, o)
    <2>. DEFINE open == OpenPlayer(o, aud, m.cb)
                alone == ClosePlayer(c, m.cb)
                close == ClosePlayer(c, cb)
    <2>1. \A S : /\ open \in Opening(S) <=> o \in S
                 /\ open \notin Closing(S)
                 /\ close \notin Opening(S) /\ alone \notin Opening(S)
                 /\ close \in Closing(S) <=> c \in S
                 /\ alone \in Closing(S) <=> c \in S
      BY <1>1, PlayerSorts
    <2>. HIDE DEF open, alone, close
    <2>2. ASSUME out' = <<open>>  PROVE Sends("NULL", o)
      <3>1. \A Y : Holds(<<open>>, Y) <=> open \in Y
        BY ShortQueues
      <3>2. \A X, Y : open \in Y => Followed(<<open>>, X, Y)
        BY ShortQueues
      <3>. QED  BY <1>2, <2>1, <2>2, <3>1, <3>2 DEF Sends
    <2>3. ASSUME out' = <<alone>>  PROVE Sends(c, "NULL")
      <3>1. \A Y : Holds(<<alone>>, Y) <=> alone \in Y
        BY ShortQueues
      <3>. QED  BY <1>2, <2>1, <2>3, <3>1 DEF Sends
    <2>4. ASSUME out' = <<close, open>>  PROVE Sends(c, o)
      <3>1. \A Y : Holds(<<close, open>>, Y) <=> close \in Y \/ open \in Y
        BY ShortQueues
      <3>2. \A X, Y : open \in Y => Followed(<<close, open>>, X, Y)
        BY ShortQueues
      <3>. QED  BY <2>1, <2>4, <3>1, <3>2 DEF Sends
    <2>. QED  BY <2>2, <2>3, <2>4 DEF open, alone, close
  <1>. QED  BY <1>3, <1>4

Nothing(m) == out' = Answer(m.cb) /\ Sends("NULL", "NULL")

Decides(m, c, o) ==
    /\ Sends(c, o)
    \* A call or music that becomes current is opened.
    /\ \A s \in Live : (Current(s))' => (Current(s) /\ Nothing(m)) \/ o = s
    \* A prompt comes before a call: the stream that played is closed for it.
    /\ (Active("VOICE") /\ Current("MEDIA"))' =>
          /\ audio_list' = audio_list
          /\ \/ /\ Active("VOICE") /\ Current("MEDIA") /\ Nothing(m)
                /\ m \notin Asking("STOP", "MEDIA")
             \/ c \in Live /\ o = "MEDIA"
    \* A call that is over or gives way is closed.
    /\ (~Active("VOICE") \/ Current("MEDIA"))' =>
          /\ o # "VOICE"
          /\ ~Active("VOICE") \/ Current("MEDIA") \/ c = "VOICE"
    \* A prompt that is on is opened, and nothing is closed for long.
    /\ Active("MEDIA")' =>
          \/ /\ Active("MEDIA") /\ Nothing(m) /\ audio_list' = audio_list
             /\ m \notin Asking("STOP", "MEDIA")
          \/ o = "MEDIA"
    \* Calls begin and end as they are asked to.
    /\ Active("VOICE")' <=>
          \/ m \in Asking("START", "VOICE")
          \/ Active("VOICE") /\ m \notin Asking("STOP", "VOICE")

LEMMA ManagerDecides ==
    ASSUME TypeOK, CurrentFits, NEW m, Manage(m)
    PROVE  \E c, o \in Streams \cup {"NULL"} : Decides(m, c, o)
  <1>1. Take(m) /\ m \in Messages /\ m.mod = "AUDIO_MANAGE"
    BY TakeType, ManagerSends
  <1>2. \A op, stream : m \in Asking(op, stream) <=> m.op = op /\ m.stream = stream
    BY <1>1, RequestSorts
  <1>3. /\ "SBC" \in Streams /\ "MEDIA" \in Streams /\ "VOICE" \in Streams
        /\ NoPrompt \in Prompts \cup {NoPrompt} /\ m.aud \in Prompts \cup {NoPrompt}
    BY <1>1, MessageParts
  <1>4. out' = Answer(m.cb) => Nothing(m)
    BY <1>1, SentSorts DEF Nothing
  <1>5. \A cb \in {m.cb, "none"} : \A c, o \in Streams : \A aud \in Prompts \cup {NoPrompt} :
           /\ out' = <<OpenPlayer(o, aud, m.cb)>> => Sends("NULL", o)
           /\ out' = <<ClosePlayer(c, m.cb)>> => Sends(c, "NULL")
           /\ out' = <<ClosePlayer(c, cb), OpenPlayer(o, aud, m.cb)>> => Sends(c, o)
    BY <1>1, SentSorts
  <1>6. \A s : <<s>> # <<>>
    OBVIOUS
  <1>7. \A s, t : <<s, t>> # <<>>
    OBVIOUS
  <1>. DEFINE open == OpenPlayer("VOICE", NoPrompt, m.cb)
              close == ClosePlayer("MEDIA", m.cb)
  <1>8. Append(<<>>, open) = <<open>> /\ Append(<<close>>, open) = <<close, open>>
    <2>1. open \in Messages /\ close \in Messages
      BY <1>1, <1>3, MessageParts, PlayerType
    <2>. QED  BY <2>1, ShortConcat
  <1>. HIDE DEF open, close
  <1>. USE DEF Decides, CurrentFits, Active, Current, Decide, Live
  <1>11. CASE StartSbc(m)
    <2>1. CASE Active("MEDIA") \/ Active("VOICE")
      <3>1. Decides(m, "NULL", "NULL")
        BY <1>2, <1>4, <1>11, <2>1 DEF StartSbc, Starts, Nothing
      <3>. QED  BY <3>1
    <2>2. CASE ~(Active("MEDIA") \/ Active("VOICE"))
      <3>1. Decides(m, "NULL", "SBC")
        BY <1>2, <1>3, <1>5, <1>6, <1>11, <2>2 DEF StartSbc, Starts
      <3>. QED  BY <1>3, <3>1
    <2>. QED  BY <2>1, <2>2
  <1>12. CASE StartMediaMerged(m)
    <2>1. Decides(m, "NULL", "NULL")
      BY <1>2, <1>4, <1>12 DEF StartMediaMerged, Starts, Nothing
    <2>. QED  BY <2>1
  <1>13. CASE StartMediaInStream(m)
    <2>1. CASE Active("VOICE")
      <3>1. Decides(m, "VOICE", "MEDIA")
        BY <1>2, <1>3, <1>5, <1>7, <1>13, <2>1 DEF StartMediaInStream, Starts
      <3>. QED  BY <1>3, <3>1
    <2>2. CASE ~Active("VOICE")
      <3>1. Decides(m, "SBC", "MEDIA")
        BY <1>2, <1>3, <1>5, <1>7, <1>13, <2>2 DEF StartMediaInStream, Starts
      <3>. QED  BY <1>3, <3>1
    <2>. QED  BY <2>1, <2>2
  <1>14. CASE StartMedia(m)
    <2>1. Decides(m, "NULL", "MEDIA")
      BY <1>2, <1>3, <1>5, <1>6, <1>14 DEF StartMedia, Starts
    <2>. QED  BY <1>3, <2>1
  <1>15. CASE StartVoice(m)
    <2>1. CASE Active("MEDIA")
      <3>1. Decides(m, "MEDIA", "VOICE")
        BY <1>2, <1>3, <1>5, <1>7, <1>15, <2>1 DEF StartVoice, Starts
      <3>. QED  BY <1>3, <3>1
    <2>2. CASE ~Active("MEDIA") /\ Active("SBC") /\ Current("SBC")
      <3>1. Decides(m, "SBC", "VOICE")
        BY <1>2, <1>3, <1>5, <1>7, <1>15, <2>2 DEF StartVoice, Starts
      <3>. QED  BY <1>3, <3>1
    <2>3. CASE ~Active("MEDIA") /\ ~(Active("SBC") /\ Current("SBC"))
               /\ ~(~Active("SBC") /\ Current("VOICE"))
      <3>1. Decides(m, "NULL", "VOICE")
        BY <1>2, <1>3, <1>5, <1>6, <1>15, <2>3 DEF StartVoice, Starts
      <3>. QED  BY <1>3, <3>1
    <2>4. CASE ~Active("MEDIA") /\ ~Active("SBC") /\ Current("VOICE")
      <3>1. Decides(m, "NULL", "NULL")
        BY <1>2, <1>4, <1>15, <2>4 DEF StartVoice, Starts, Nothing
      <3>. QED  BY <3>1
    <2>. QED  BY <2>1, <2>2, <2>3, <2>4
  <1>16. CASE StopSbc(m)
    <2>1. CASE Current("SBC") /\ media_curr_sbc
      <3>1. Decides(m, "SBC", "NULL")
        BY <1>2, <1>3, <1>5, <1>6, <1>16, <2>1 DEF StopSbc, Stops
      <3>. QED  BY <1>3, <3>1
    <2>2. CASE ~(Current("SBC") /\ media_curr_sbc)
      <3>1. Decides(m, "NULL", "NULL")
        BY <1>2, <1>4, <1>16, <2>2 DEF StopSbc, Stops, Nothing
      <3>. QED  BY <3>1
    <2>. QED  BY <2>1, <2>2
  <1>17. CASE StopMedia(m)
    <2>1. CASE Active("VOICE") /\ ~Current("MEDIA")
      <3>1. Decides(m, "NULL", "NULL")
        BY <1>2, <1>4, <1>17, <2>1 DEF StopMedia, Stops, Nothing
      <3>. QED  BY <3>1
    <2>2. CASE Active("VOICE") /\ Current("MEDIA")
      <3>1. out' = <<open>> /\ media_active' = media_active \ {"MEDIA"}
            /\ curr_active_media' = "VOICE" /\ m.op = "STOP" /\ m.stream = "MEDIA"
        BY <1>6, <1>8, <1>17, <2>2 DEF StopMedia, Stops, Resume, open
      <3>2. Decides(m, "NULL", "VOICE")
        BY <1>2, <1>3, <1>5, <2>2, <3>1 DEF open
      <3>. QED  BY <1>3, <3>2
    <2>3. CASE ~Active("VOICE")
      <3>1. Decides(m, "NULL", "NULL")
        BY <1>2, <1>4, <1>17, <2>3 DEF StopMedia, Stops, Resume, Nothing
      <3>. QED  BY <3>1
    <2>. QED  BY <2>1, <2>2, <2>3
  <1>18. CASE StopVoice(m)
    <2>1. CASE ~Active("VOICE") \/ Active("MEDIA")
      <3>1. Decides(m, "NULL", "NULL")
        BY <1>2, <1>4, <1>18, <2>1 DEF StopVoice, Stops, Nothing
      <3>. QED  BY <3>1
    <2>2. CASE ~(~Active("VOICE") \/ Active("MEDIA"))
      <3>1. Decides(m, "VOICE", "NULL")
        BY <1>2, <1>3, <1>5, <1>6, <1>18, <2>2 DEF StopVoice, Stops
      <3>. QED  BY <1>3, <3>1
    <2>. QED  BY <2>1, <2>2
  <1>19. CASE StopPrompts(m)
    <2>1. CASE ~Active("MEDIA")
      <3>1. Decides(m, "NULL", "NULL")
        BY <1>2, <1>4, <1>19, <2>1 DEF StopPrompts, Nothing
      <3>. QED  BY <3>1
    <2>2. CASE Active("MEDIA")
      <3>1. Resume(m, media_active \ {"MEDIA"}, "NULL", <<>>, <<close>>)
            /\ m.op \in {"STOP_MEDIA", "SWITCHTO_SCO"}
        BY <1>19, <2>2 DEF StopPrompts, close
      <3>2. CASE Active("VOICE")
        <4>1. out' = <<close, open>> /\ media_active' = media_active \ {"MEDIA"}
              /\ curr_active_media' = "VOICE"
          BY <1>7, <1>8, <3>1, <3>2 DEF Resume, open
        <4>2. Decides(m, "MEDIA", "VOICE")
          BY <1>2, <1>3, <1>5, <3>1, <3>2, <4>1 DEF open, close
        <4>. QED  BY <1>3, <4>2
      <3>3. CASE ~Active("VOICE")
        <4>1. out' = <<close>> /\ media_active' \subseteq media_active \ {"MEDIA"}
              /\ curr_active_media' = "NULL"
          BY <1>6, <3>1, <3>3 DEF Resume
        <4>2. Decides(m, "MEDIA", "NULL")
          BY <1>2, <1>3, <1>5, <3>1, <3>3, <4>1 DEF close
        <4>. QED  BY <1>3, <4>2
      <3>. QED  BY <3>2, <3>3
    <2>. QED  BY <2>1, <2>2
  <1>. QED  BY <1>11, <1>12, <1>13, <1>14, <1>15, <1>16, <1>17, <1>18, <1>19 DEF Manage

-----------------------------------------------------------------------------
(***************************************************************************)
(* How an order of players that waits is kept.  X are messages that need a *)
(* message of Y behind them.                                               *)
(***************************************************************************)
Playing == {m \in Messages : m.mod = "AUDIO"}

LEMMA PlayingSorts ==
    ASSUME NEW S
    PROVE  Opening(S) \subseteq Playing /\ Closing(S) \subseteq Playing
  BY DEF Opening, Closing, Playing

LEMMA HoldsUnion ==
    ASSUME NEW q, NEW X, NEW Y
    PROVE  Holds(q, X \cup Y) <=> Holds(q, X) \/ Holds(q, Y)
  BY DEF Holds

LEMMA QueueLength ==
    ASSUME TypeOK
    PROVE  Len(Queue) \in Nat
  <1>1. mailbox \o out \in Seq(Messages)
    BY DEF TypeOK
  <1>. QED  BY <1>1 DEF Queue

\* The manager's handlers take no message for a player.
LEMMA ManageKeeps ==
    ASSUME TypeOK, TypeOK', NEW m, Manage(m), NEW X, NEW Y, Y \subseteq Playing
    PROVE  /\ Holds(Queue, Y) => Holds(Queue', Y)
           /\ Holds(out', Y) => Holds(Queue', Y)
           /\ Followed(Queue, X, Y) \/ Holds(out', Y)
                 => (Followed(out', X, Y) => Followed(Queue', X, Y))
  <1>1. Take(m) /\ m \notin Y
    BY ManagerSends DEF Playing
  <1>. QED  BY <1>1, SortsTaken

\* Those of the players send no other message for a player than closes of prompts.
LEMMA HandleKeeps ==
    ASSUME TypeOK, TypeOK', NEW m, Handle(m), NEW X, NEW Y,
           X \subseteq Opening(Streams) \cup Closing(Live)
    PROVE  /\ Followed(Queue, X, Y) => Followed(Queue', X, Y)
           /\ Followed(Queue, X, Y) /\ m \in X /\ m \notin Y => Holds(Queue', Y)
           /\ Holds(Queue, Y) /\ m \notin Y => Holds(Queue', Y)
           /\ Holds(out', Y) => Holds(Queue', Y)
  <1>1. Take(m)
    BY HandleSends
  <1>2. ~Holds(out', X)
    <2>1. ~Holds(out', Opening(Streams)) /\ ("MEDIA" \notin Live => ~Holds(out', Closing(Live)))
      BY HandleSends
    <2>2. "MEDIA" \notin Live
      BY DEF Live
    <2>. QED  BY <2>1, <2>2 DEF Holds
  <1>3. Followed(out', X, Y)
    BY <1>2, NoneFollowed
  <1>. QED  BY <1>1, <1>3, SortsTaken

\* The other threads post none.
LEMMA OthersKeep ==
    ASSUME TypeOK, Others, NEW X, NEW Y, X \subseteq Opening(Streams) \cup Closing(Live)
    PROVE  /\ UNCHANGED <<manager, audio_list, gStreamplayer>>
           /\ Followed(Queue, X, Y) => Followed(Queue', X, Y)
           /\ Holds(Queue, Y) => Holds(Queue', Y)
  <1>1. UNCHANGED <<manager, audio_list, gStreamplayer>>
    BY OthersPost
  <1>2. CASE UNCHANGED <<mailbox, out>>
    BY <1>1, <1>2 DEF Queue
  <1>3. ASSUME NEW m, Posted(m), m \notin X
        PROVE  /\ Followed(Queue, X, Y) => Followed(Queue', X, Y)
               /\ Holds(Queue, Y) => Holds(Queue', Y)
    BY <1>3, SortsPosted DEF Posted
  <1>4. \A m \in Messages : m.mod = "AUDIO_MANAGE" \/ m \in Closing({"MEDIA"}) => m \notin X
    BY DEF Opening, Closing, Live
  <1>. QED  BY <1>1, <1>2, <1>3, <1>4, OthersPost DEF Posted

LEMMA PromptsPlayAlways == Spec => [](ListSound /\ PromptPlays)
  <1>1. Init => PromptPlays
    BY DEF Init, PromptPlays, Playbacks
  <1>2. ListSound /\ TypeOK' /\ PromptPlays /\ [Next]_vars => PromptPlays'
    BY PromptPlaysStep
  <1>. QED  BY <1>1, <1>2, TypeCorrect, ManagerConsistent, AssertsNeverFail, PTL
           DEF Spec, ListSound

LEMMA ConcatSwapped ==
    ASSUME NEW S, NEW a \in Seq(S), NEW b \in Seq(S)
    PROVE  InList(a \o b) \subseteq InList(b \o a)
  <1>1. ASSUME NEW i \in 1 .. Len(a \o b)
        PROVE  \E j \in 1 .. Len(b \o a) : (b \o a)[j] = (a \o b)[i]
    <2>1. /\ Len(a) \in Nat /\ Len(b) \in Nat
          /\ \A k \in 1 .. Len(a) : (a \o b)[k] = a[k]
          /\ \A k \in 1 .. Len(b) : (a \o b)[Len(a) + k] = b[k]
          /\ i \in 1 .. Len(a) \/ \E k \in 1 .. Len(b) : i = Len(a) + k
      BY ConcatAt
    <2>2. /\ Len(b \o a) = Len(b) + Len(a)
          /\ \A k \in 1 .. Len(b) : (b \o a)[k] = b[k]
          /\ \A k \in 1 .. Len(a) : (b \o a)[Len(b) + k] = a[k]
      BY ConcatAt
    <2>3. CASE i \in 1 .. Len(a)
      <3>1. Len(b) + i \in 1 .. Len(b \o a)
        BY <2>1, <2>2, <2>3
      <3>. QED  BY <2>1, <2>2, <2>3, <3>1
    <2>4. ASSUME NEW k \in 1 .. Len(b), i = Len(a) + k
          PROVE  \E j \in 1 .. Len(b \o a) : (b \o a)[j] = (a \o b)[i]
      <3>1. k \in 1 .. Len(b \o a) /\ (b \o a)[k] = b[k]
        BY <2>1, <2>2
      <3>2. (a \o b)[i] = b[k]
        BY <2>1, <2>4
      <3>. QED  BY <3>1, <3>2
    <2>. QED  BY <2>1, <2>3, <2>4
  <1>. DEFINE f == a \o b
              g == b \o a
  <1>2. \A i \in 1 .. Len(f) : \E j \in 1 .. Len(g) : g[j] = f[i]
    BY <1>1
  <1>. HIDE DEF f, g
  <1>3. InList(f) \subseteq InList(g)
    BY <1>2 DEF InList
  <1>. QED  BY <1>3 DEF f, g

\* What waits is what is in the queue.
LEMMA QueueWaits ==
    ASSUME TypeOK
    PROVE  Queue \in Seq(Messages) /\ Waiting = InList(Queue)
  <1>1. mailbox \in Seq(Messages) /\ out \in Seq(Messages)
    BY DEF TypeOK
  <1>2. InList(mailbox \o out) \subseteq InList(out \o mailbox)
    BY <1>1, ConcatSwapped
  <1>3. InList(out \o mailbox) \subseteq InList(mailbox \o out)
    BY <1>1, ConcatSwapped
  <1>4. mailbox \o out \in Seq(Messages)
    BY <1>1
  <1>. QED  BY <1>2, <1>3, <1>4 DEF Waiting, Queue

-----------------------------------------------------------------------------
(***************************************************************************)
(* A call or music that is current is open, or is going to be opened after *)
(* everything else that waits to be opened.                                *)
(***************************************************************************)
Unsettling(s) == Opening(Streams) \cup Closing({s})

StreamComing ==
    \A s \in Live : Current(s) =>
        /\ Followed(Queue, Unsettling(s), Opening({s}))
        /\ Holds(Queue, Opening({s})) \/ (gStreamplayer = s /\ Playbacks = {})

LEMMA UnsettlingSorts ==
    ASSUME NEW s \in Live
    PROVE  /\ Unsettling(s) \subseteq Opening(Streams) \cup Closing(Live)
           /\ Unsettling(s) \subseteq Playing /\ Opening({s}) \subseteq Playing
           /\ {s} \in SUBSET Streams /\ s # "MEDIA" /\ s # "NULL"
  BY DEF Unsettling, Opening, Closing, Playing, Live, Streams

LEMMA StreamComingStep ==
    ASSUME ListSound, PromptPlays, TypeOK', StreamComing, [Next]_vars
    PROVE  StreamComing'
  <1>. SUFFICES ASSUME NEW s \in Live, Current(s)'
                PROVE  /\ Followed(Queue', Unsettling(s), Opening({s}))
                       /\ \/ Holds(Queue', Opening({s}))
                          \/ gStreamplayer' = s /\ (Playbacks = {})'
    BY DEF StreamComing
  <1>. DEFINE X == Unsettling(s)
              Y == Opening({s})
  <1>1. TypeOK /\ CurrentFits
    BY DEF ListSound
  <1>2. /\ X \subseteq Opening(Streams) \cup Closing(Live) /\ X \subseteq Playing
        /\ Y \subseteq Playing /\ {s} \in SUBSET Streams /\ s # "MEDIA" /\ s # "NULL"
    BY UnsettlingSorts
  <1>3. ASSUME Current(s)
        PROVE  Followed(Queue, X, Y) /\ (Holds(Queue, Y) \/ (gStreamplayer = s /\ Playbacks = {}))
    BY <1>3 DEF StreamComing
  <1>4. UNCHANGED manager => Current(s)
    BY DEF manager, Current
  <1>5. ASSUME NEW m, Manage(m)
        PROVE  Followed(Queue', X, Y)
               /\ (Holds(Queue', Y) \/ (gStreamplayer' = s /\ (Playbacks = {})'))
    <2>1. PICK c, o \in Streams \cup {"NULL"} : Decides(m, c, o)
      BY <1>1, <1>5, ManagerDecides
    <2>2. Sends(c, o) /\ ((Current(s) /\ Nothing(m)) \/ o = s)
      BY <2>1 DEF Decides
    <2>3. /\ Holds(Queue, Y) => Holds(Queue', Y)
          /\ Holds(out', Y) => Holds(Queue', Y)
          /\ Followed(Queue, X, Y) \/ Holds(out', Y)
                => (Followed(out', X, Y) => Followed(Queue', X, Y))
      BY <1>1, <1>2, <1>5, ManageKeeps
    <2>4. CASE o = s
      <3>1. Holds(out', Y) /\ Followed(out', X, Y)
        BY <1>2, <2>2, <2>4 DEF Sends
      <3>. QED  BY <2>3, <3>1
    <2>5. CASE Current(s) /\ Nothing(m)
      <3>1. ~Holds(out', X)
        <4>1. ~Holds(out', Opening(Streams)) /\ ~Holds(out', Closing({s}))
          BY <1>2, <2>5 DEF Nothing, Sends, Streams
        <4>. QED  BY <4>1, HoldsUnion DEF Unsettling
      <3>2. Followed(out', X, Y)
        BY <3>1, NoneFollowed
      <3>3. UNCHANGED gStreamplayer /\ audio_list' \in {audio_list, <<>>}
        BY <1>1, <1>5, ManagerSends
      <3>4. Playbacks = {} => (Playbacks = {})'
        BY <3>3 DEF Playbacks
      <3>. QED  BY <1>3, <2>3, <2>5, <3>2, <3>3, <3>4
    <2>. QED  BY <2>2, <2>4, <2>5
  <1>6. ASSUME NEW m, Handle(m)
        PROVE  Followed(Queue', X, Y)
               /\ (Holds(Queue', Y) \/ (gStreamplayer' = s /\ (Playbacks = {})'))
    <2>1. /\ Followed(Queue, X, Y) => Followed(Queue', X, Y)
          /\ Followed(Queue, X, Y) /\ m \in X /\ m \notin Y => Holds(Queue', Y)
          /\ Holds(Queue, Y) /\ m \notin Y => Holds(Queue', Y)
      BY <1>1, <1>2, <1>6, HandleKeeps
    <2>2. UNCHANGED manager
      BY <1>1, <1>6, HandleSends
    <2>3. CASE OpenStream(m)
      <3>1. PICK t \in Live : m \in Opening({t}) /\ m.stream = t
        BY <1>1, <2>3, LiveOpened
      <3>2. gStreamplayer' = t /\ (Playbacks = {})'
        BY <2>3, <3>1, LiveOpened DEF OpensLive
      <3>3. m \in X /\ (m \in Y => t = s)
        BY <3>1 DEF Opening, Unsettling, Live, Streams
      <3>. QED  BY <1>3, <1>4, <2>1, <2>2, <3>2, <3>3
    <2>4. CASE OpenRefused(m) \/ OpenPrompt(m) \/ OpenLater(m) \/ OpenFull(m)
      <3>1. m \in Opening({"MEDIA"})
        BY <2>4, PromptOpened
      <3>2. m \in X /\ m \notin Y
        BY <1>2, <3>1 DEF Opening, Unsettling, Streams
      <3>. QED  BY <1>3, <1>4, <2>1, <2>2, <3>2
    <2>5. CASE CloseStream(m)
      <3>1. /\ m.stream \in Live /\ m \in Closing({m.stream})
            /\ gStreamplayer' = IF gStreamplayer = m.stream THEN "NULL" ELSE gStreamplayer
            /\ Playbacks = {} => (Playbacks = {})'
        BY <2>5, LiveClosed
      <3>2. m \notin Y /\ (m.stream = s => m \in X)
        BY <3>1 DEF Opening, Closing, Unsettling
      <3>. QED  BY <1>3, <1>4, <2>1, <2>2, <3>1, <3>2
    <2>6. CASE CloseMedia(m)
      <3>1. m \in Closing({"MEDIA"})
        BY <2>6, PromptClosed
      <3>2. m \notin Y
        BY <3>1 DEF Opening, Closing
      <3>3. Playbacks = {} => (Playbacks = {})' /\ (gStreamplayer = s => gStreamplayer' = s)
        BY <1>2, <2>6, PromptClosed
      <3>. QED  BY <1>3, <1>4, <2>1, <2>2, <3>2, <3>3
    <2>. QED  BY <1>6, <2>3, <2>4, <2>5, <2>6 DEF Handle
  <1>7. CASE Others
    <2>1. /\ UNCHANGED <<manager, audio_list, gStreamplayer>>
          /\ Followed(Queue, X, Y) => Followed(Queue', X, Y)
          /\ Holds(Queue, Y) => Holds(Queue', Y)
      BY <1>1, <1>2, <1>7, OthersKeep
    <2>2. Playbacks = {} => (Playbacks = {})'
      BY <2>1 DEF Playbacks
    <2>. QED  BY <1>3, <1>4, <2>1, <2>2
  <1>8. CASE Resting
    <2>1. Queue' = Queue /\ UNCHANGED <<manager, audio_list, gStreamplayer>>
      BY <1>8 DEF Resting, audio
    <2>2. Playbacks = {} => (Playbacks = {})'
      BY <2>1 DEF Playbacks
    <2>. QED  BY <1>3, <1>4, <2>1, <2>2
  <1>. QED  BY <1>1, <1>5, <1>6, <1>7, <1>8, StepCases

(* When nothing waits to be opened or closed, the manager's choice of a    *)
(* call or of music is the player that is open (bt_media_start and         *)
(* bt_media_stop against app_audio_list_playback_handle).                  *)
THEOREM ManagersChoice == Spec => []ChoicePlays
  <1>1. Init => StreamComing
    BY DEF Init, StreamComing, Current, Live
  <1>2. StreamComing /\ TypeOK => ChoicePlays
    <2>. SUFFICES ASSUME StreamComing, TypeOK, \A m \in Waiting : m.mod # "AUDIO",
                         NEW s \in Live, Current(s)
                  PROVE  gStreamplayer = s
      BY DEF ChoicePlays, Live
    <2>1. ~Holds(Queue, Opening({s}))
      <3>. SUFFICES ASSUME NEW i \in 1 .. Len(Queue), Queue[i] \in Opening({s})  PROVE FALSE
        BY DEF Holds
      <3>1. Queue[i] \in Waiting
        BY QueueWaits DEF InList
      <3>. QED  BY <3>1 DEF Opening
    <2>. QED  BY <2>1 DEF StreamComing
  <1>3. ListSound /\ PromptPlays /\ TypeOK' /\ StreamComing /\ [Next]_vars => StreamComing'
    BY StreamComingStep
  <1>. QED  BY <1>1, <1>2, <1>3, TypeCorrect, PromptsPlayAlways, PTL DEF Spec

-----------------------------------------------------------------------------
(***************************************************************************)
(* A prompt that keeps a call away.  What the call has open is closed      *)
(* before the prompt is opened, and the prompt's end is announced.         *)
(***************************************************************************)
Announced == \/ Holds(Queue, Opening({"MEDIA"})) \/ Holds(Queue, Asking("STOP", "MEDIA"))
             \/ Playbacks # {}

CallGivesWay ==
    Active("VOICE") /\ Current("MEDIA") =>
        /\ Followed(Queue, Opening(Live) \cup Closing(Live), Opening({"MEDIA"}))
        /\ Followed(Queue, Opening(Live), Closing(Live))
        /\ StreamListed => Holds(Queue, Closing(Live))
        /\ Announced

LEMMA PlayerSets ==
    /\ Opening(Live) \cup Closing(Live) \subseteq Opening(Streams) \cup Closing(Live)
    /\ Opening(Live) \subseteq Opening(Streams) \cup Closing(Live)
    /\ Opening({"VOICE"}) \subseteq Opening(Streams) \cup Closing(Live)
    /\ Live \in SUBSET Streams /\ {"MEDIA"} \in SUBSET Streams /\ {"VOICE"} \in SUBSET Streams
    /\ "MEDIA" \notin Live /\ "NULL" \notin Live /\ "VOICE" \in Live
    /\ \A m \in Asking("STOP", "MEDIA") : m.mod = "AUDIO_MANAGE"
  BY DEF Opening, Closing, Live, Streams, Asking

\* What the manager and the list do to the announcement of a prompt's end
LEMMA ManageAnnounces ==
    ASSUME TypeOK, TypeOK', NEW m, Manage(m)
    PROVE  /\ Holds(out', Opening({"MEDIA"})) => Announced'
           /\ m \notin Asking("STOP", "MEDIA") /\ audio_list' = audio_list /\ Announced
                 => Announced'
  <1>1. Take(m) /\ m.mod = "AUDIO_MANAGE"
    BY ManagerSends
  <1>2. m \notin Opening({"MEDIA"})
    BY <1>1 DEF Opening
  <1>3. /\ Holds(out', Opening({"MEDIA"})) => Holds(Queue', Opening({"MEDIA"}))
        /\ Holds(Queue, Opening({"MEDIA"})) => Holds(Queue', Opening({"MEDIA"}))
    BY <1>1, <1>2, SortsTaken
  <1>4. m \notin Asking("STOP", "MEDIA") /\ Holds(Queue, Asking("STOP", "MEDIA"))
          => Holds(Queue', Asking("STOP", "MEDIA"))
    BY <1>1, SortsTaken
  <1>5. audio_list' = audio_list /\ Playbacks # {} => (Playbacks # {})'
    BY DEF Playbacks
  <1>. QED  BY <1>3, <1>4, <1>5 DEF Announced

LEMMA HandleAnnounces ==
    ASSUME ListSound, PromptPlays, TypeOK', NEW m, Handle(m), Announced
    PROVE  \/ Announced'
           \/ \E s \in Live : m \in Opening({s})
           \/ m \in Opening({"MEDIA"}) /\ Flushed
  <1>1. TypeOK /\ Take(m) /\ m.mod = "AUDIO"
    BY HandleSends DEF ListSound
  <1>2. m \notin Asking("STOP", "MEDIA")
    BY <1>1 DEF Asking
  <1>3. /\ m \notin Opening({"MEDIA"}) /\ Holds(Queue, Opening({"MEDIA"}))
             => Holds(Queue', Opening({"MEDIA"}))
        /\ Holds(Queue, Asking("STOP", "MEDIA")) => Holds(Queue', Asking("STOP", "MEDIA"))
        /\ Holds(out', Asking("STOP", "MEDIA")) => Holds(Queue', Asking("STOP", "MEDIA"))
    BY <1>1, <1>2, SortsTaken
  <1>4. CASE OpenStream(m)
    BY <1>4, LiveOpened
  <1>5. CASE OpenRefused(m) \/ OpenPrompt(m) \/ OpenLater(m) \/ OpenFull(m)
    BY <1>5, PromptOpened DEF Announced
  <1>6. CASE CloseStream(m)
    <2>1. m \in Closing({m.stream}) /\ (Playbacks # {} => (Playbacks # {})')
      BY <1>6, LiveClosed
    <2>2. m \notin Opening({"MEDIA"})
      BY <2>1 DEF Opening, Closing
    <2>. QED  BY <1>3, <2>1, <2>2 DEF Announced
  <1>7. CASE CloseMedia(m)
    <2>1. /\ m \in Closing({"MEDIA"})
          /\ Playbacks # {} => (Playbacks # {})' \/ Holds(out', Asking("STOP", "MEDIA"))
      BY <1>7, PromptClosed
    <2>2. m \notin Opening({"MEDIA"})
      BY <2>1 DEF Opening, Closing
    <2>. QED  BY <1>3, <2>1, <2>2 DEF Announced
  <1>. QED  BY <1>4, <1>5, <1>6, <1>7 DEF Handle

\* What another thread posts, or nobody, leaves it alone.
LEMMA OthersAnnounce ==
    ASSUME TypeOK, Others \/ Resting, Announced
    PROVE  Announced'
  <1>1. CASE Others
    <2>1. /\ audio_list' = audio_list
          /\ \A Y : Holds(Queue, Y) => Holds(Queue', Y)
      <3>1. {} \subseteq Opening(Streams) \cup Closing(Live)
        OBVIOUS
      <3>. QED  BY <1>1, <3>1, OthersKeep
    <2>. QED  BY <2>1 DEF Announced, Playbacks
  <1>2. CASE Resting
    BY <1>2 DEF Resting, audio, Announced, Playbacks
  <1>. QED  BY <1>1, <1>2

LEMMA CallGivesWayStep ==
    ASSUME ListSound, PromptPlays, TypeOK', CallGivesWay, [Next]_vars
    PROVE  CallGivesWay'
  <1>. DEFINE X == Opening(Live) \cup Closing(Live)
              Y == Opening({"MEDIA"})
              C == Closing(Live)
              Goal == /\ Followed(Queue', X, Y) /\ Followed(Queue', Opening(Live), C)
                      /\ StreamListed' => Holds(Queue', C)
                      /\ Announced'
              Given == /\ Followed(Queue, X, Y) /\ Followed(Queue, Opening(Live), C)
                       /\ StreamListed => Holds(Queue, C)
                       /\ Announced
  <1>. SUFFICES ASSUME (Active("VOICE") /\ Current("MEDIA"))'  PROVE Goal
    BY DEF CallGivesWay
  <1>1. TypeOK /\ CurrentFits
    BY DEF ListSound
  <1>2. Active("VOICE") /\ Current("MEDIA") => Given
    BY DEF CallGivesWay
  <1>3. UNCHANGED manager => Given
    BY <1>2 DEF manager, Active, Current
  <1>4. ASSUME NEW m, Manage(m)  PROVE Goal
    <2>1. PICK c, o \in Streams \cup {"NULL"} : Decides(m, c, o)
      BY <1>1, <1>4, ManagerDecides
    <2>2. /\ Sends(c, o) /\ audio_list' = audio_list
          /\ \/ Given /\ Nothing(m) /\ m \notin Asking("STOP", "MEDIA")
             \/ c \in Live /\ o = "MEDIA"
      BY <1>2, <2>1 DEF Decides
    <2>3. C \subseteq Playing /\ Y \subseteq Playing
      BY PlayingSorts
    <2>4. /\ Holds(out', Y) => Holds(Queue', Y)
          /\ Followed(Queue, X, Y) \/ Holds(out', Y)
                => (Followed(out', X, Y) => Followed(Queue', X, Y))
      BY <1>1, <1>4, <2>3, ManageKeeps
    <2>5. /\ Holds(Queue, C) => Holds(Queue', C)
          /\ Holds(out', C) => Holds(Queue', C)
          /\ Followed(Queue, Opening(Live), C) \/ Holds(out', C)
                => (Followed(out', Opening(Live), C) => Followed(Queue', Opening(Live), C))
      BY <1>1, <1>4, <2>3, ManageKeeps
    <2>6. StreamListed' <=> StreamListed
      BY <2>2 DEF StreamListed
    <2>7. CASE Given /\ Nothing(m) /\ m \notin Asking("STOP", "MEDIA")
      <3>1. ~Holds(out', Opening(Live)) /\ ~Holds(out', C)
        BY <2>7, PlayerSets DEF Nothing, Sends
      <3>2. ~Holds(out', X)
        BY <3>1, HoldsUnion
      <3>3. Followed(out', X, Y) /\ Followed(out', Opening(Live), C)
        BY <3>1, <3>2, NoneFollowed
      <3>4. Announced'
        BY <1>1, <1>4, <2>2, <2>7, ManageAnnounces
      <3>. QED  BY <2>4, <2>5, <2>6, <2>7, <3>3, <3>4
    <2>8. CASE c \in Live /\ o = "MEDIA"
      <3>1. Holds(out', C) /\ Holds(out', Y) /\ ~Holds(out', Opening(Live)) /\ Followed(out', X, Y)
        BY <2>2, <2>8, PlayerSets DEF Sends
      <3>2. Followed(out', Opening(Live), C)
        BY <3>1, NoneFollowed
      <3>3. Announced'
        BY <1>1, <1>4, <3>1, ManageAnnounces
      <3>. QED  BY <2>4, <2>5, <3>1, <3>2, <3>3
    <2>. QED  BY <2>2, <2>7, <2>8
  <1>5. ASSUME NEW m, Handle(m)  PROVE Goal
    <2>1. Given /\ Take(m)
      BY <1>1, <1>3, <1>5, HandleSends
    <2>2. /\ Followed(Queue, X, Y) => Followed(Queue', X, Y)
          /\ Followed(Queue, X, Y) /\ m \in X /\ m \notin Y => Holds(Queue', Y)
      BY <1>1, <1>5, PlayerSets, HandleKeeps
    <2>3. /\ Followed(Queue, Opening(Live), C) => Followed(Queue', Opening(Live), C)
          /\ Followed(Queue, Opening(Live), C) /\ m \in Opening(Live) /\ m \notin C
                => Holds(Queue', C)
          /\ Holds(Queue, C) /\ m \notin C => Holds(Queue', C)
      BY <1>1, <1>5, PlayerSets, HandleKeeps
    <2>4. Len(Queue') \in Nat
      BY <1>1, <2>1, QueueTaken
    <2>5. /\ m \in Opening(Live) => m \in X /\ m \notin Y /\ m \notin C
          /\ m \in Closing(Live) => m \in X /\ m \notin Y
          /\ m \in Opening({"MEDIA"}) \cup Closing({"MEDIA"}) => m \notin C
      BY PlayerSets DEF Opening, Closing
    <2>6. Announced' \/ (\E s \in Live : m \in Opening({s})) \/ (m \in Y /\ Flushed)
      BY <1>5, <2>1, HandleAnnounces
    <2>7. Holds(Queue', Y) => Announced'
      BY DEF Announced
    <2>8. CASE OpenStream(m)
      <3>1. m \in Opening(Live)
        BY <2>8, LiveOpened DEF Opening
      <3>. QED  BY <2>1, <2>2, <2>3, <2>5, <2>7, <3>1
    <2>9. CASE OpenRefused(m) \/ OpenPrompt(m) \/ OpenLater(m) \/ OpenFull(m)
      <3>1. m \in Y /\ (StreamListed' => StreamListed)
        BY <2>9, PromptOpened
      <3>2. StreamListed => Holds(Queue', C)
        BY <2>1, <2>3, <2>5, <3>1
      <3>3. C \subseteq X
        OBVIOUS
      <3>4. Flushed => Holds(Queue', Y)
        BY <2>1, <2>2, <2>4, <3>2, <3>3, HoldsFollowed DEF Flushed
      <3>5. \A s \in Live : m \notin Opening({s})
        BY <3>1, PlayerSets DEF Opening
      <3>. QED  BY <2>1, <2>2, <2>3, <2>6, <2>7, <3>1, <3>2, <3>4, <3>5
    <2>10. CASE CloseStream(m)
      <3>1. m \in Closing(Live) /\ ~StreamListed'
        BY <2>10, LiveClosed DEF Closing
      <3>. QED  BY <2>1, <2>2, <2>3, <2>5, <2>7, <3>1
    <2>11. CASE CloseMedia(m)
      <3>1. m \in Closing({"MEDIA"}) /\ (StreamListed' => StreamListed)
        BY <2>11, PromptClosed
      <3>2. \A s \in Streams : m \notin Opening({s})
        BY <3>1 DEF Opening, Closing
      <3>. QED  BY <2>1, <2>2, <2>3, <2>5, <2>6, <3>1, <3>2, PlayerSets
    <2>. QED  BY <1>5, <2>8, <2>9, <2>10, <2>11 DEF Handle
  <1>6. CASE Others
    <2>1. /\ UNCHANGED <<manager, audio_list>>
          /\ Followed(Queue, X, Y) => Followed(Queue', X, Y)
          /\ Followed(Queue, Opening(Live), C) => Followed(Queue', Opening(Live), C)
          /\ Holds(Queue, C) => Holds(Queue', C)
      BY <1>1, <1>6, PlayerSets, OthersKeep
    <2>2. Announced => Announced'
      BY <1>1, <1>6, OthersAnnounce
    <2>3. StreamListed' <=> StreamListed
      BY <2>1 DEF StreamListed
    <2>. QED  BY <1>3, <2>1, <2>2, <2>3
  <1>7. CASE Resting
    <2>1. Queue' = Queue /\ UNCHANGED <<manager, audio_list>>
      BY <1>7 DEF Resting, audio
    <2>2. Announced => Announced'
      BY <1>1, <1>7, OthersAnnounce
    <2>3. StreamListed' <=> StreamListed
      BY <2>1 DEF StreamListed
    <2>. QED  BY <1>3, <2>1, <2>2, <2>3
  <1>. QED  BY <1>1, <1>4, <1>5, <1>6, <1>7, StepCases

-----------------------------------------------------------------------------
(***************************************************************************)
(* A call that is over, or that gives way to a prompt, is open no longer   *)
(* than until a close that waits is handled.                               *)
(***************************************************************************)
VoiceCloses ==
    ~Active("VOICE") \/ Current("MEDIA") =>
        /\ Followed(Queue, Opening({"VOICE"}), Closing({"VOICE"}))
        /\ gStreamplayer = "VOICE" \/ VoiceListed => Holds(Queue, Closing({"VOICE"}))

LEMMA VoiceClosesStep ==
    ASSUME ListSound, PromptPlays, TypeOK', VoiceCloses, [Next]_vars
    PROVE  VoiceCloses'
  <1>. DEFINE X == Opening({"VOICE"})
              Y == Closing({"VOICE"})
              Goal == /\ Followed(Queue', X, Y)
                      /\ gStreamplayer' = "VOICE" \/ VoiceListed' => Holds(Queue', Y)
              Given == /\ Followed(Queue, X, Y)
                       /\ gStreamplayer = "VOICE" \/ VoiceListed => Holds(Queue, Y)
  <1>. SUFFICES ASSUME (~Active("VOICE") \/ Current("MEDIA"))'  PROVE Goal
    BY DEF VoiceCloses
  <1>1. TypeOK /\ CurrentFits
    BY DEF ListSound
  <1>2. ~Active("VOICE") \/ Current("MEDIA") => Given
    BY DEF VoiceCloses
  <1>3. UNCHANGED manager => Given
    BY <1>2 DEF manager, Active, Current
  <1>4. audio_list' = audio_list => (VoiceListed' <=> VoiceListed)
    BY DEF VoiceListed
  <1>5. ASSUME NEW m, Manage(m)  PROVE Goal
    <2>1. PICK c, o \in Streams \cup {"NULL"} : Decides(m, c, o)
      BY <1>1, <1>5, ManagerDecides
    <2>2. Sends(c, o) /\ o # "VOICE" /\ (Given \/ c = "VOICE")
      BY <1>2, <2>1 DEF Decides
    <2>3. Y \subseteq Playing
      BY PlayingSorts
    <2>4. /\ Holds(Queue, Y) => Holds(Queue', Y)
          /\ Holds(out', Y) => Holds(Queue', Y)
          /\ Followed(Queue, X, Y) \/ Holds(out', Y)
                => (Followed(out', X, Y) => Followed(Queue', X, Y))
      BY <1>1, <1>5, <2>3, ManageKeeps
    <2>5. ~Holds(out', X) /\ (c = "VOICE" => Holds(out', Y))
      BY <2>2, PlayerSets DEF Sends
    <2>6. Followed(out', X, Y)
      BY <2>5, NoneFollowed
    <2>7. gStreamplayer' = gStreamplayer /\ audio_list' \in {audio_list, <<>>}
      BY <1>1, <1>5, ManagerSends
    <2>8. VoiceListed' => VoiceListed
      BY <2>7 DEF VoiceListed
    <2>. QED  BY <2>2, <2>4, <2>5, <2>6, <2>7, <2>8
  <1>6. ASSUME NEW m, Handle(m)  PROVE Goal
    <2>1. Given
      BY <1>1, <1>3, <1>6, HandleSends
    <2>2. /\ Followed(Queue, X, Y) => Followed(Queue', X, Y)
          /\ Followed(Queue, X, Y) /\ m \in X /\ m \notin Y => Holds(Queue', Y)
          /\ Holds(Queue, Y) /\ m \notin Y => Holds(Queue', Y)
      BY <1>1, <1>6, PlayerSets, HandleKeeps
    <2>3. \A s : m \in Opening({s}) => m \notin Y
      BY DEF Opening, Closing
    <2>4. \A s : m \in Closing({s}) => (m \in Y => s = "VOICE")
      BY DEF Closing
    <2>5. CASE OpenStream(m)
      <3>1. PICK t \in Live : m \in Opening({t}) /\ m.stream = t
        BY <2>5, LiveOpened
      <3>2. gStreamplayer' = t /\ (VoiceListed' => t = "VOICE")
        BY <2>5, <3>1, LiveOpened DEF OpensLive
      <3>. QED  BY <2>1, <2>2, <2>3, <3>1, <3>2
    <2>6. CASE OpenRefused(m) \/ OpenPrompt(m) \/ OpenLater(m) \/ OpenFull(m)
      <3>1. m \in Opening({"MEDIA"}) /\ gStreamplayer' = "MEDIA" /\ (VoiceListed' => VoiceListed)
        BY <2>6, PromptOpened
      <3>. QED  BY <2>1, <2>2, <2>3, <3>1
    <2>7. CASE CloseStream(m)
      <3>1. /\ m \in Closing({m.stream}) /\ ~VoiceListed'
            /\ gStreamplayer' = IF gStreamplayer = m.stream THEN "NULL" ELSE gStreamplayer
        BY <2>7, LiveClosed
      <3>. QED  BY <2>1, <2>2, <2>4, <3>1
    <2>8. CASE CloseMedia(m)
      <3>1. /\ m \in Closing({"MEDIA"}) /\ (VoiceListed' => VoiceListed)
            /\ gStreamplayer' = "VOICE" => gStreamplayer = "VOICE" \/ VoiceListed
        BY <2>8, PromptClosed
      <3>. QED  BY <2>1, <2>2, <2>4, <3>1
    <2>. QED  BY <1>6, <2>5, <2>6, <2>7, <2>8 DEF Handle
  <1>7. CASE Others
    BY <1>1, <1>3, <1>4, <1>7, PlayerSets, OthersKeep
  <1>8. CASE Resting
    BY <1>3, <1>4, <1>8 DEF Resting, audio
  <1>. QED  BY <1>1, <1>5, <1>6, <1>7, <1>8, StepCases

-----------------------------------------------------------------------------
(***************************************************************************)
(* A call that is over is going to be ended: a request to stop it waits,   *)
(* or one whose callback will see that the link is gone.                   *)
(***************************************************************************)
CallEnds ==
    /\ Followed(out, Asking("START", "VOICE"), Ending)
    /\ sco = "off" => /\ Active("VOICE") => Holds(Queue, Ending)
                      /\ Followed(Queue, Asking("START", "VOICE"), Ending)

\* What has still to be posted keeps its order.
LEMMA TailSorts ==
    ASSUME NEW S, NEW q \in Seq(S), q # <<>>, NEW X, NEW Y
    PROVE  /\ Holds(Tail(q), Y) => Holds(q, Y)
           /\ Followed(q, X, Y) => Followed(Tail(q), X, Y)
  <1>1. Tail(q) \in Seq(S) /\ <<>> \in Seq(S)
    BY HeadAndTail
  <1>2. Tail(q) \o <<>> = Tail(q)
    BY <1>1, ConcatEmptySeq
  <1>3. ~Holds(<<>>, Y) /\ Followed(<<>>, X, Y)
    BY ShortQueues
  <1>4. /\ Holds(Tail(q) \o <<>>, Y) => Holds(q, Y) \/ Holds(<<>>, Y)
        /\ (Followed(q, X, Y) \/ Holds(<<>>, Y)) /\ Followed(<<>>, X, Y)
              => Followed(Tail(q) \o <<>>, X, Y)
    BY <1>1, HeadTaken
  <1>. QED  BY <1>2, <1>3, <1>4

LEMMA OutKept ==
    ASSUME TypeOK, Resting, Posts \/ UNCHANGED vars, NEW X, NEW Y
    PROVE  /\ Holds(out', Y) => Holds(out, Y)
           /\ Followed(out, X, Y) => Followed(out', X, Y)
  <1>1. CASE Posts
    <2>1. out \in Seq(Messages) /\ out # <<>> /\ out' = Tail(out)
      BY <1>1 DEF TypeOK, Posts
    <2>. QED  BY <2>1, TailSorts
  <1>2. CASE UNCHANGED vars
    BY <1>2 DEF vars
  <1>. QED  BY <1>1, <1>2

(* What a handler of the manager sends for a call: nothing but the answer  *)
(* to a restart, and the callback of a restart is passed on.               *)
LEMMA ManageCalls ==
    ASSUME TypeOK, NEW m, Manage(m)
    PROVE  /\ Take(m) /\ m \in Messages /\ sco' = sco
           /\ Followed(out', Asking("START", "VOICE"), Ending)
           /\ m \in Restarting /\ sco = "off" => Holds(out', Ending)
           /\ m.cb = "none" => /\ ~Holds(out', Calling)
                               /\ \A i \in 1 .. Len(out') : out'[i].cb = "none"
  <1>1. Take(m) /\ m \in Messages /\ m.cb \in Callbacks /\ sco' = sco
    BY ManagerSends, TakeType, MessageParts DEF link
  <1>2. \A x : x.mod = "AUDIO" => x \notin Asking("START", "VOICE") /\ x \notin Calling
    BY DEF Asking, Calling
  <1>3. CASE out' = Answer(m.cb)
    <2>1. m.cb = "none" => out' = <<>>
      BY <1>1, <1>3, AnswerSorts
    <2>2. ~Holds(<<>>, Calling)
      BY ShortQueues
    <2>. QED  BY <1>1, <1>3, <2>1, <2>2, AnswerSorts DEF Restarting
  <1>4. ASSUME NEW x, out' = <<x>>, x.mod = "AUDIO", x.cb = m.cb
        PROVE  /\ Followed(out', Asking("START", "VOICE"), Ending)
               /\ m \in Restarting /\ sco = "off" => Holds(out', Ending)
               /\ m.cb = "none" => /\ ~Holds(out', Calling)
                                   /\ \A i \in 1 .. Len(out') : out'[i].cb = "none"
    <2>1. ~Holds(<<x>>, Asking("START", "VOICE")) /\ ~Holds(<<x>>, Calling)
      BY <1>2, <1>4, ShortQueues
    <2>2. x \in Messages
      <3>1. Len(<<x>>) = 1 /\ <<x>>[1] = x
        OBVIOUS
      <3>. QED  BY <1>4, <3>1, ManagerType DEF TypeOK
    <2>3. m \in Restarting => x \in Ending
      BY <1>4, <2>2 DEF Restarting, Ending
    <2>4. x \in Ending => Holds(<<x>>, Ending)
      BY ShortQueues
    <2>. QED  BY <1>4, <2>1, <2>2, <2>3, <2>4, NoneFollowed
  <1>5. ASSUME NEW x, NEW y, out' = <<x, y>>, x.mod = "AUDIO", y.mod = "AUDIO",
               x.cb \in {m.cb, "none"}, y.cb = m.cb
        PROVE  /\ Followed(out', Asking("START", "VOICE"), Ending)
               /\ m \in Restarting /\ sco = "off" => Holds(out', Ending)
               /\ m.cb = "none" => /\ ~Holds(out', Calling)
                                   /\ \A i \in 1 .. Len(out') : out'[i].cb = "none"
    <2>1. ~Holds(<<x, y>>, Asking("START", "VOICE")) /\ ~Holds(<<x, y>>, Calling)
      BY <1>2, <1>5, ShortQueues
    <2>2. y \in Messages
      <3>1. Len(<<x, y>>) = 2 /\ <<x, y>>[2] = y
        OBVIOUS
      <3>. QED  BY <1>5, <3>1, ManagerType DEF TypeOK
    <2>3. m \in Restarting => y \in Ending
      BY <1>5, <2>2 DEF Restarting, Ending
    <2>4. y \in Ending => Holds(<<x, y>>, Ending)
      BY ShortQueues
    <2>. QED  BY <1>5, <2>1, <2>2, <2>3, <2>4, NoneFollowed
  <1>. QED  BY <1>1, <1>3, <1>4, <1>5, ManagerSends

LEMMA CallEndsStep ==
    ASSUME TypeOK, CurrentFits, TypeOK', CallEnds, [Next]_vars
    PROVE  CallEnds'
  <1>. DEFINE S == Asking("START", "VOICE")
              Goal == /\ Active("VOICE")' => Holds(Queue', Ending)
                      /\ Followed(Queue', S, Ending)
              Given == /\ Active("VOICE") => Holds(Queue, Ending)
                       /\ Followed(Queue, S, Ending)
  <1>1. Followed(out, S, Ending) /\ (sco = "off" => Given)
    BY DEF CallEnds
  <1>. SUFFICES Followed(out', S, Ending) /\ (sco' = "off" => Goal)
    BY DEF CallEnds
  <1>2. ASSUME NEW m, Manage(m)
        PROVE  Followed(out', S, Ending) /\ (sco' = "off" => Goal)
    <2>1. /\ Take(m) /\ m \in Messages /\ sco' = sco /\ Followed(out', S, Ending)
          /\ m \in Restarting /\ sco = "off" => Holds(out', Ending)
      BY <1>2, ManageCalls
    <2>2. /\ Holds(out', Ending) => Holds(Queue', Ending)
          /\ Holds(Queue, Ending) /\ m \notin Ending => Holds(Queue', Ending)
          /\ Followed(Queue, S, Ending) /\ m \in S /\ m \notin Ending => Holds(Queue', Ending)
          /\ Followed(Queue, S, Ending) /\ Followed(out', S, Ending)
                => Followed(Queue', S, Ending)
      BY <2>1, SortsTaken
    <2>3. Active("VOICE")' <=> m \in S \/ (Active("VOICE") /\ m \notin Asking("STOP", "VOICE"))
      BY <1>2, ManagerDecides DEF Decides
    <2>4. m \in S => m \notin Asking("STOP", "VOICE")
      BY <2>1, SortsApart
    <2>5. m \in Ending <=> m \in Asking("STOP", "VOICE") \/ m \in Restarting
      BY DEF Ending
    <2>. QED  BY <1>1, <2>1, <2>2, <2>3, <2>4, <2>5
  <1>3. ASSUME NEW m, Handle(m)
        PROVE  Followed(out', S, Ending) /\ (sco' = "off" => Goal)
    <2>1. /\ Take(m) /\ m.mod = "AUDIO" /\ UNCHANGED <<manager, sco>>
          /\ Followed(out', S, Ending)
          /\ m \in Restarting /\ sco = "off" => Holds(out', Ending)
      BY <1>3, HandleSends
    <2>2. /\ Holds(out', Ending) => Holds(Queue', Ending)
          /\ Holds(Queue, Ending) /\ m \notin Ending => Holds(Queue', Ending)
          /\ Followed(Queue, S, Ending) /\ Followed(out', S, Ending)
                => Followed(Queue', S, Ending)
      BY <2>1, SortsTaken
    <2>3. Active("VOICE")' <=> Active("VOICE")
      BY <2>1 DEF manager, Active
    <2>4. m \in Ending => m \in Restarting
      BY <2>1 DEF Ending, Asking
    <2>. QED  BY <1>1, <2>1, <2>2, <2>3, <2>4
  <1>4. CASE Others
    <2>1. UNCHANGED manager /\ out' = out
      BY <1>4, OthersPost DEF Posted
    <2>2. Active("VOICE")' <=> Active("VOICE")
      BY <2>1 DEF manager, Active
    <2>3. CASE sco' # "off"
      BY <1>1, <2>1, <2>3
    <2>4. ASSUME NEW m, Posted(m), m \notin S, sco' = sco
          PROVE  sco' = "off" => Goal
      <3>1. /\ Holds(Queue, Ending) => Holds(Queue', Ending)
            /\ Followed(Queue, S, Ending) => Followed(Queue', S, Ending)
        BY <2>4, SortsPosted DEF Posted
      <3>. QED  BY <1>1, <2>2, <2>4, <3>1
    <2>5. ASSUME NEW m, Posted(m), m \in Asking("STOP", "VOICE")
          PROVE  Goal
      <3>1. m \in Ending
        BY <2>5 DEF Ending
      <3>2. Holds(Queue', Ending) /\ Followed(Queue', S, Ending)
        BY <1>1, <2>5, <3>1, SortsPosted DEF Posted
      <3>. QED  BY <3>2
    <2>6. \A m : m \notin Calling \/ m \in Closing({"MEDIA"}) => m \notin S
      BY DEF Calling, Closing, Asking
    <2>. QED  BY <1>1, <1>4, <2>1, <2>3, <2>4, <2>5, <2>6, OthersPost
  <1>5. CASE Resting /\ (Posts \/ UNCHANGED vars)
    <2>1. Followed(out', S, Ending)
      BY <1>1, <1>5, OutKept
    <2>2. Queue' = Queue /\ sco' = sco /\ (Active("VOICE")' <=> Active("VOICE"))
      BY <1>5 DEF Resting, manager, Active
    <2>. QED  BY <1>1, <2>1, <2>2
  <1>. QED  BY <1>2, <1>3, <1>4, <1>5, StepCases

-----------------------------------------------------------------------------
LEMMA QueuedAlways == Spec => [](/\ ListSound /\ PromptPlays
                                 /\ StreamComing /\ CallGivesWay /\ VoiceCloses /\ CallEnds)
  <1>1. Init => StreamComing /\ CallGivesWay /\ VoiceCloses /\ CallEnds
    <2>. SUFFICES ASSUME Init  PROVE StreamComing /\ CallGivesWay /\ VoiceCloses /\ CallEnds
      OBVIOUS
    <2>1. Queue = <<>> /\ out = <<>>
      BY DEF Init, Queue
    <2>2. \A X, Y : Followed(<<>>, X, Y)
      BY ShortQueues
    <2>3. StreamComing
      BY DEF Init, StreamComing, Current, Live
    <2>4. CallGivesWay
      BY DEF Init, CallGivesWay, Active
    <2>5. VoiceCloses
      BY <2>1, <2>2 DEF Init, VoiceCloses, VoiceListed
    <2>6. CallEnds
      BY <2>1, <2>2 DEF Init, CallEnds, Active
    <2>. QED  BY <2>3, <2>4, <2>5, <2>6
  <1>2. ListSound /\ PromptPlays /\ TypeOK' /\ StreamComing /\ [Next]_vars => StreamComing'
    BY StreamComingStep
  <1>3. ListSound /\ PromptPlays /\ TypeOK' /\ CallGivesWay /\ [Next]_vars => CallGivesWay'
    BY CallGivesWayStep
  <1>4. ListSound /\ PromptPlays /\ TypeOK' /\ VoiceCloses /\ [Next]_vars => VoiceCloses'
    BY VoiceClosesStep
  <1>5. ListSound /\ TypeOK' /\ CallEnds /\ [Next]_vars => CallEnds'
    BY CallEndsStep DEF ListSound
  <1>. QED  BY <1>1, <1>2, <1>3, <1>4, <1>5, TypeCorrect, PromptsPlayAlways, PTL DEF Spec

\* Nothing is in the queue when nothing waits.
LEMMA NothingWaits ==
    ASSUME TypeOK, Quiet, NEW Y
    PROVE  ~Holds(Queue, Y)
  BY QueueWaits DEF Quiet, Holds, InList

\* A call the manager has on is heard when all is handled.
LEMMA CallOpen ==
    ASSUME ListSound, PromptPlays, StreamComing, CallGivesWay, Quiet, Active("VOICE")
    PROVE  gStreamplayer = "VOICE"
  <1>1. TypeOK /\ CurrentFits
    BY DEF ListSound
  <1>2. \A Y : ~Holds(Queue, Y)
    BY <1>1, NothingWaits
  <1>3. CASE Current("VOICE")
    BY <1>2, <1>3 DEF StreamComing, Live
  <1>4. CASE Current("MEDIA")
    <2>1. Playbacks # {}
      BY <1>2, <1>4 DEF CallGivesWay, Announced
    <2>2. gStreamplayer = "MEDIA" /\ prompt # "off" /\ prompt # "ended"
      BY <1>2, <2>1 DEF PromptPlays
    <2>. QED  BY <1>1, <2>2 DEF Quiet, TypeOK
  <1>. QED  BY <1>1, <1>3, <1>4 DEF CurrentFits, Current

(* When all is handled, no player is left open for a call that is over,    *)
(* whatever restarts (bt_sco_check_pcm and the callbacks it passes on)     *)
(* went on meanwhile, and a call the manager has on is heard: no prompt    *)
(* keeps its place.                                                        *)
THEOREM CallsSettle == Spec => []CallSettles
  <1>1. ListSound /\ PromptPlays /\ StreamComing /\ CallGivesWay /\ VoiceCloses /\ CallEnds
          => CallSettles
    <2>. SUFFICES ASSUME ListSound, PromptPlays, StreamComing, CallGivesWay, VoiceCloses,
                         CallEnds, Quiet
                  PROVE  /\ sco = "off" => gStreamplayer # "VOICE" /\ ~Active("VOICE")
                         /\ Active("VOICE") => gStreamplayer = "VOICE"
      BY DEF CallSettles
    <2>1. \A Y : ~Holds(Queue, Y)
      BY NothingWaits DEF ListSound
    <2>2. sco = "off" => ~Active("VOICE")
      BY <2>1 DEF CallEnds
    <2>3. ~Active("VOICE") => gStreamplayer # "VOICE"
      BY <2>1 DEF VoiceCloses
    <2>. QED  BY <2>2, <2>3, CallOpen
  <1>. QED  BY <1>1, QueuedAlways, PTL

-----------------------------------------------------------------------------
(***************************************************************************)
(* Where calls are not restarted, nothing that waits has a callback, and a *)
(* request to stop a call that goes on comes before the one to start it.   *)
(***************************************************************************)
Recalling == {m \in Messages : m.cb # "none"}

NoRestart == ~Holds(Queue, Recalling) /\ ~Holds(out, Calling)

CallStarts ==
    sco = "on" => /\ Active("VOICE") \/ Holds(Queue, Asking("START", "VOICE"))
                  /\ Followed(Queue, Asking("STOP", "VOICE"), Asking("START", "VOICE"))

LEMMA NoRestartStep ==
    ASSUME TypeOK, TypeOK', ~RETRIGGER_VOICE, NoRestart, [Next]_vars
    PROVE  NoRestart'
  <1>1. ~Holds(Queue, Recalling) /\ ~Holds(out, Calling)
    BY DEF NoRestart
  <1>2. ASSUME NEW m, Take(m),
               m.cb = "none" => /\ ~Holds(out', Calling)
                                /\ \A i \in 1 .. Len(out') : out'[i].cb = "none"
        PROVE  NoRestart'
    <2>1. /\ Queue = mailbox /\ mailbox \in Seq(Messages) /\ mailbox # <<>>
          /\ m = Head(mailbox) /\ m \in Messages
      BY <1>2, QueueTaken
    <2>2. 1 \in 1 .. Len(Queue) /\ Queue[1] = m
      BY <2>1
    <2>3. m.cb = "none"
      BY <1>1, <2>1, <2>2 DEF Holds, Recalling
    <2>4. ~Holds(out', Recalling) /\ ~Holds(out', Calling)
      BY <1>2, <2>3 DEF Holds, Recalling
    <2>5. ~Holds(Queue', Recalling)
      BY <1>1, <1>2, <2>4, SortsTaken
    <2>. QED  BY <2>4, <2>5 DEF NoRestart
  <1>3. ASSUME NEW m, Manage(m)  PROVE NoRestart'
    BY <1>2, <1>3, ManageCalls
  <1>4. ASSUME NEW m, Handle(m)  PROVE NoRestart'
    BY <1>2, <1>4, HandleSends
  <1>5. CASE Others
    <2>1. CASE UNCHANGED <<mailbox, out>>
      BY <1>1, <2>1 DEF NoRestart, Queue
    <2>2. ASSUME NEW m, Posted(m), m.cb = "none"  PROVE NoRestart'
      <3>1. m \notin Recalling
        BY <2>2 DEF Recalling
      <3>2. ~Holds(Queue', Recalling)
        BY <1>1, <2>2, <3>1, SortsPosted DEF Posted
      <3>. QED  BY <1>1, <2>2, <3>2 DEF NoRestart, Posted
    <2>. QED  BY <1>5, <2>1, <2>2, OthersPost
  <1>6. CASE Resting /\ (Posts \/ UNCHANGED vars)
    BY <1>1, <1>6, OutKept DEF NoRestart, Resting
  <1>. QED  BY <1>3, <1>4, <1>5, <1>6, StepCases

LEMMA CallStartsStep ==
    ASSUME TypeOK, CurrentFits, TypeOK', ~RETRIGGER_VOICE, NoRestart, NoRestart',
           CallStarts, [Next]_vars
    PROVE  CallStarts'
  <1>. DEFINE S == Asking("START", "VOICE")
              T == Asking("STOP", "VOICE")
              Goal == (Active("VOICE")' \/ Holds(Queue', S)) /\ Followed(Queue', T, S)
              Given == (Active("VOICE") \/ Holds(Queue, S)) /\ Followed(Queue, T, S)
  <1>1. sco = "on" => Given
    BY DEF CallStarts
  <1>. SUFFICES ASSUME sco' = "on"  PROVE Goal
    BY DEF CallStarts
  <1>2. Followed(out, T, S) /\ Followed(out', T, S)
    <2>1. ~Holds(out, T) /\ ~Holds(out', T)
      BY DEF NoRestart, Calling, Holds
    <2>. QED  BY <2>1, NoneFollowed
  <1>3. ASSUME NEW m, Take(m), m \in Messages, sco' = sco,
               \/ Active("VOICE")' <=> m \in S \/ (Active("VOICE") /\ m \notin T)
               \/ m \notin Calling /\ (Active("VOICE")' <=> Active("VOICE"))
        PROVE  Goal
    <2>1. /\ Holds(Queue, S) /\ m \notin S => Holds(Queue', S)
          /\ Followed(Queue, T, S) /\ m \in T /\ m \notin S => Holds(Queue', S)
          /\ Followed(Queue, T, S) /\ Followed(out', T, S) => Followed(Queue', T, S)
      BY <1>3, SortsTaken
    <2>2. m \in T => m \notin S
      BY <1>3, SortsApart
    <2>3. m \notin Calling => m \notin S /\ m \notin T
      BY DEF Calling
    <2>. QED  BY <1>1, <1>2, <1>3, <2>1, <2>2, <2>3
  <1>4. ASSUME NEW m, Manage(m)  PROVE Goal
    <2>1. Take(m) /\ m \in Messages /\ sco' = sco
      BY <1>4, ManageCalls
    <2>2. Active("VOICE")' <=> m \in S \/ (Active("VOICE") /\ m \notin T)
      BY <1>4, ManagerDecides DEF Decides
    <2>. QED  BY <1>3, <2>1, <2>2
  <1>5. ASSUME NEW m, Handle(m)  PROVE Goal
    <2>1. Take(m) /\ m.mod = "AUDIO" /\ UNCHANGED <<manager, sco>>
      BY <1>5, HandleSends
    <2>2. m \in Messages /\ m \notin Calling
      BY <2>1, TakeType DEF Calling, Asking
    <2>3. Active("VOICE")' <=> Active("VOICE")
      BY <2>1 DEF manager, Active
    <2>. QED  BY <1>3, <2>1, <2>2, <2>3
  <1>6. CASE Others
    <2>1. UNCHANGED manager
      BY <1>6, OthersPost
    <2>2. Active("VOICE")' <=> Active("VOICE")
      BY <2>1 DEF manager, Active
    <2>3. CASE sco' \in {"connecting", "off"}
      BY <2>3
    <2>4. ASSUME NEW m, Posted(m), m \notin Calling, sco' = sco  PROVE Goal
      <3>1. m \notin T
        BY <2>4 DEF Calling
      <3>2. /\ Holds(Queue, S) => Holds(Queue', S)
            /\ Followed(Queue, T, S) => Followed(Queue', T, S)
        BY <2>4, <3>1, SortsPosted DEF Posted
      <3>. QED  BY <1>1, <2>2, <2>4, <3>2
    <2>5. ASSUME NEW m, Posted(m), m \in S  PROVE Goal
      <3>1. Holds(Queue', S) /\ Followed(Queue', T, S)
        BY <1>2, <2>5, SortsPosted DEF Posted
      <3>. QED  BY <3>1
    <2>6. \A m : m \in Closing({"MEDIA"}) => m \notin Calling
      BY DEF Calling, Closing, Asking
    <2>. QED  BY <1>6, <2>3, <2>4, <2>5, <2>6, OthersPost
  <1>7. CASE Resting
    <2>1. Queue' = Queue /\ sco' = sco /\ (Active("VOICE")' <=> Active("VOICE"))
      BY <1>7 DEF Resting, manager, Active
    <2>. QED  BY <1>1, <2>1
  <1>. QED  BY <1>4, <1>5, <1>6, <1>7, StepCases

(* In a build that does not restart calls, the player of a call that goes  *)
(* on is open whenever all is handled, in whatever order its start, its    *)
(* end, music and prompts came.                                            *)
THEOREM CallsHeard ==
    ASSUME ~RETRIGGER_VOICE
    PROVE  Spec => []CallHeard
  <1>1. Init => NoRestart /\ CallStarts
    <2>1. Init => Queue = <<>> /\ out = <<>> /\ sco = "off"
      BY DEF Init, Queue
    <2>2. ~Holds(<<>>, Recalling) /\ ~Holds(<<>>, Calling)
      BY ShortQueues
    <2>. QED  BY <2>1, <2>2 DEF NoRestart, CallStarts
  <1>2. TypeOK /\ TypeOK' /\ NoRestart /\ [Next]_vars => NoRestart'
    BY NoRestartStep
  <1>3. TypeOK /\ CurrentFits /\ TypeOK' /\ NoRestart /\ NoRestart' /\ CallStarts /\ [Next]_vars
          => CallStarts'
    BY CallStartsStep
  <1>4. ListSound /\ PromptPlays /\ StreamComing /\ CallGivesWay /\ CallStarts => CallHeard
    <2>. SUFFICES ASSUME ListSound, PromptPlays, StreamComing, CallGivesWay, CallStarts,
                         Quiet, sco = "on"
                  PROVE  gStreamplayer = "VOICE"
      BY DEF CallHeard
    <2>1. ~Holds(Queue, Asking("START", "VOICE"))
      BY NothingWaits DEF ListSound
    <2>. QED  BY <2>1, CallOpen DEF CallStarts
  <1>. QED  BY <1>1, <1>2, <1>3, <1>4, TypeCorrect, ManagerConsistent, QueuedAlways, PTL
           DEF Spec

-----------------------------------------------------------------------------
(***************************************************************************)
(* Prompts that are on, as long as none of them is cut off with a stream   *)
(* in the list.                                                            *)
(***************************************************************************)
PromptComing ==
    Active("MEDIA") => Followed(Queue, Opening(Live), Opening({"MEDIA"})) /\ Announced

LEMMA PromptComingStep ==
    ASSUME ListSound, PromptPlays, ~Flushed, TypeOK', PromptComing, [Next]_vars
    PROVE  PromptComing'
  <1>. DEFINE X == Opening(Live)
              Y == Opening({"MEDIA"})
              Goal == Followed(Queue', X, Y) /\ Announced'
              Given == Followed(Queue, X, Y) /\ Announced
  <1>. SUFFICES ASSUME Active("MEDIA")'  PROVE Goal
    BY DEF PromptComing
  <1>1. TypeOK /\ CurrentFits
    BY DEF ListSound
  <1>2. Active("MEDIA") => Given
    BY DEF PromptComing
  <1>3. UNCHANGED manager => Given
    BY <1>2 DEF manager, Active
  <1>4. ASSUME NEW m, Manage(m)  PROVE Goal
    <2>1. PICK c, o \in Streams \cup {"NULL"} : Decides(m, c, o)
      BY <1>1, <1>4, ManagerDecides
    <2>2. /\ Sends(c, o)
          /\ \/ Given /\ Nothing(m) /\ audio_list' = audio_list /\ m \notin Asking("STOP", "MEDIA")
             \/ o = "MEDIA"
      BY <1>2, <2>1 DEF Decides
    <2>3. Y \subseteq Playing
      BY PlayingSorts
    <2>4. Followed(Queue, X, Y) \/ Holds(out', Y)
                => (Followed(out', X, Y) => Followed(Queue', X, Y))
      BY <1>1, <1>4, <2>3, ManageKeeps
    <2>5. CASE Given /\ Nothing(m) /\ audio_list' = audio_list /\ m \notin Asking("STOP", "MEDIA")
      <3>1. ~Holds(out', X)
        BY <2>5, PlayerSets DEF Nothing, Sends
      <3>2. Followed(out', X, Y) /\ Announced'
        BY <1>1, <1>4, <2>5, <3>1, NoneFollowed, ManageAnnounces
      <3>. QED  BY <2>4, <2>5, <3>2
    <2>6. CASE o = "MEDIA"
      <3>1. Holds(out', Y) /\ Followed(out', X, Y)
        BY <2>2, <2>6, PlayerSets DEF Sends
      <3>2. Announced'
        BY <1>1, <1>4, <3>1, ManageAnnounces
      <3>. QED  BY <2>4, <3>1, <3>2
    <2>. QED  BY <2>2, <2>5, <2>6
  <1>5. ASSUME NEW m, Handle(m)  PROVE Goal
    <2>1. Given
      BY <1>1, <1>3, <1>5, HandleSends
    <2>2. /\ Followed(Queue, X, Y) => Followed(Queue', X, Y)
          /\ Followed(Queue, X, Y) /\ m \in X /\ m \notin Y => Holds(Queue', Y)
      BY <1>1, <1>5, PlayerSets, HandleKeeps
    <2>3. Announced' \/ \E s \in Live : m \in Opening({s})
      BY <1>5, <2>1, HandleAnnounces
    <2>4. \A s \in Live : m \in Opening({s}) => m \in X /\ m \notin Y
      BY PlayerSets DEF Opening
    <2>5. Holds(Queue', Y) => Announced'
      BY DEF Announced
    <2>. QED  BY <2>1, <2>2, <2>3, <2>4, <2>5
  <1>6. CASE Others
    <2>1. UNCHANGED manager /\ (Followed(Queue, X, Y) => Followed(Queue', X, Y))
      BY <1>1, <1>6, PlayerSets, OthersKeep
    <2>2. Announced => Announced'
      BY <1>1, <1>6, OthersAnnounce
    <2>. QED  BY <1>3, <2>1, <2>2
  <1>7. CASE Resting
    <2>1. Queue' = Queue /\ UNCHANGED manager
      BY <1>7 DEF Resting
    <2>2. Announced => Announced'
      BY <1>1, <1>7, OthersAnnounce
    <2>. QED  BY <1>3, <2>1, <2>2
  <1>. QED  BY <1>1, <1>4, <1>5, <1>6, <1>7, StepCases

(* While a prompt keeps a call or music away it is listed or is going to   *)
(* be, or the manager is going to be told that it is over, unless the list *)
(* is as long as one that is flushed while a stream is in it (the flush of *)
(* app_audio_list_append keeps the stream and drops the prompts).          *)
THEOREM PromptsWillEnd == Spec /\ []~Flushed => []PromptWillEnd
  <1>1. Init => PromptComing
    BY DEF Init, PromptComing, Active
  <1>2. ListSound /\ PromptPlays /\ ~Flushed /\ TypeOK' /\ PromptComing /\ [Next]_vars
          => PromptComing'
    BY PromptComingStep
  <1>3. TypeOK /\ PromptComing => PromptWillEnd
    <2>. SUFFICES ASSUME TypeOK, Announced, Playbacks = {}
                  PROVE  \E m \in Waiting : m.stream = "MEDIA" /\ <<m.mod, m.op>> \in
                             {<<"AUDIO", "OPEN">>, <<"AUDIO_MANAGE", "STOP">>}
      BY DEF PromptComing, PromptWillEnd
    <2>1. PICK i \in 1 .. Len(Queue) :
              Queue[i] \in Opening({"MEDIA"}) \/ Queue[i] \in Asking("STOP", "MEDIA")
      BY DEF Announced, Holds
    <2>2. Queue[i] \in Waiting
      BY QueueWaits DEF InList
    <2>. QED  BY <2>1, <2>2 DEF Opening, Asking
  <1>. QED  BY <1>1, <1>2, <1>3, TypeCorrect, PromptsPlayAlways, PTL DEF Spec

=============================================================================
