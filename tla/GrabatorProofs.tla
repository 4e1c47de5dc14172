--------------------------- MODULE GrabatorProofs ---------------------------
(* Theorems about Grabator, for every pack, every threshold and every      *)
(* length of run: it keeps the promise of ResumableDownload when the XDCC  *)
(* bot runs one transfer per user, and retries a short transfer whatever   *)
(* the XDCC bot allows; its file is a beginning of the pack as long as no  *)
(* second transfer is offered.                                             *)
EXTENDS Grabator, TLAPS

(* Every step of the composed bot is a step of its thread in Reconnect, or *)
(* leaves the thread's variables alone.                                    *)
LEMMA StepIsReconnectStep == [Next]_vars => [R!Next]_(R!rvars)
<1> SUFFICES ASSUME [Next]_vars PROVE R!Next \/ UNCHANGED rvars
  BY DEF rvars, R!rvars
<1> USE DEF R!Next
<1>1. CASE UNCHANGED vars
  BY <1>1 DEF vars
<1>2. CASE Start \/ LinkBreaks \/ NoticeHangup \/ HandlerSendFails
  BY <1>2 DEF Start, LinkBreaks, NoticeHangup, HandlerSendFails
<1>3. CASE OnWelcome \/ Tick \/ RunCheck \/ RunDownload
  BY <1>3 DEF OnWelcome, Tick, RunCheck, RunDownload
<1>4. CASE PeerAnswers \/ PeerIgnores
  BY <1>4 DEF PeerAnswers, PeerIgnores, PeerDrops
<1>5. CASE OnSendNew \/ OnSendResume \/ OnAccept
  BY <1>5 DEF OnSendNew, OnSendResume, OnAccept, DccConnect
<1>6. CASE \E c \in OtherCtcp : OnCtcpOther(c[1], c[2])
  BY <1>6 DEF OnCtcpOther
<1>7. CASE \E i \in DOMAIN streams : DccData(i) \/ DccDataClosed(i) \/ DccEnds(i)
  BY <1>7 DEF DccData, DccDataClosed, DccEnds, OnDccDisconnect
<1>8. CASE HandlerRaises \/ Killed \/ Relaunch
  BY <1>8 DEF HandlerRaises, Killed, Relaunch
<1> QED
  BY <1>1, <1>2, <1>3, <1>4, <1>5, <1>6, <1>7, <1>8 DEF Next, HelpfulNext

------------------------------------------------------------------------------
(* The inductive invariant behind the file.  While the bot is alive, the   *)
(* only open stream delivers exactly the chunk the file lacks; no stream   *)
(* is open while an offer is under way, so nothing moves the end of the    *)
(* file between the RESUME that names it and the ACCEPT that appends there.*)
Alive == thread \in {"new", "running"}

FileGood ==
  /\ file \in Seq(Nat)
  /\ Len(file) <= PackSize
  /\ \A i \in 1 .. Len(file) : file[i] = i
  /\ ~exists => file = <<>>

FiniGood == fini = FALSE \/ (fini = TRUE /\ thread = "exited")

StreamGood ==
  streams # <<>> =>
    streams = <<Len(file) + 1>> /\ current /\ exists /\ offer = "none"

OfferGood == offer = "accept" => resumeAt = Len(file) /\ exists

HandleGood == handle = "dirty" => file # <<>>

IInv ==
  /\ FileGood
  /\ FiniGood
  /\ Alive => StreamGood /\ OfferGood /\ HandleGood

(* What each step of Reconnect does to the thread. *)
LEMMA ThreadEffects ==
  /\ R!Start => thread = "new" /\ thread' = "running"
  /\ R!LinkBreaks => thread' = thread
  /\ R!NoticeHangup => thread = "running" /\ thread' = "running"
  /\ R!HandlerSendFails => thread = "running" /\ thread' \in {"running", "crashed"}
  /\ R!OnWelcome => thread = "running" /\ thread' \in {"running", "crashed"}
  /\ R!Tick => thread = "running" /\ thread' = "running"
  /\ R!RunCheck => thread = "running" /\ thread' = "running"
  /\ R!RunDownload => thread = "running" /\ thread' \in {"running", "crashed"}
  /\ R!HandlerDisconnects => thread = "running" /\ thread' = "running"
  /\ R!HandlerDies => thread = "running" /\ thread' = "exited"
  /\ R!HandlerRaises => thread = "running" /\ thread' = "crashed"
  /\ R!Relaunch => thread' = "new"
  /\ UNCHANGED rvars => thread' = thread
BY DEF R!Start, R!LinkBreaks, R!NoticeHangup, R!HandlerSendFails, R!OnWelcome,
       R!Tick, R!RunCheck, R!RunDownload, R!HandlerDisconnects, R!HandlerDies,
       R!HandlerRaises, R!Relaunch, R!Running, rvars

LEMMA InitIInv == Init => IInv
BY PackAssumption
   DEF Init, IInv, FileGood, FiniGood, StreamGood, OfferGood, HandleGood

(* Two shapes of a state behind a step: no stream is open, or one is.      *)
LEMMA NoStreamIInv ==
  ASSUME FileGood', FiniGood', streams' = <<>>, offer' # "accept", handle' # "dirty"
  PROVE  IInv'
BY DEF IInv, StreamGood, OfferGood, HandleGood

LEMMA OneStreamIInv ==
  ASSUME FileGood', FiniGood', streams' = <<Len(file') + 1>>, current', exists',
         offer' = "none", handle' = "dirty" => file' # <<>>
  PROVE  IInv'
BY DEF IInv, StreamGood, OfferGood, HandleGood

(* A dead thread leaves the streams and offers of its process without use. *)
LEMMA DeadIInv ==
  ASSUME FileGood', FiniGood', ~Alive' PROVE IInv'
BY DEF IInv

LEMMA SameFile ==
  ASSUME FileGood, UNCHANGED file, exists' = exists \/ exists' = TRUE
  PROVE  FileGood'
BY DEF FileGood

(* A step that leaves the bot and the disk alone keeps the invariant, when *)
(* no dead thread comes alive and offers are only lost.                    *)
LEMMA QuietStep ==
  ASSUME IInv, UNCHANGED <<bvars, dvars>>, Alive' => Alive,
         PeerSeesLink \/ UNCHANGED pvars \/ UNCHANGED <<offer, resumeAt>>,
         thread = "exited" => thread' = "exited"
  PROVE  IInv'
BY DEF IInv, FileGood, FiniGood, StreamGood, OfferGood, HandleGood, bvars, dvars,
       pvars, PeerSeesLink, ForgetPeer

(* The file and the announced end, step by step. *)
DownloadStep == Download!Next \/ UNCHANGED Download!avars

LEMMA QuietDownload ==
  ASSUME UNCHANGED <<file, fini>> PROVE DownloadStep
BY DEF DownloadStep, Download!avars

(* The steps that move the file or the streams, one lemma each. *)
LEMMA SendNewStep ==
  ASSUME IInv, OnSendNew PROVE IInv' /\ DownloadStep
<1>1. /\ Alive /\ ~exists /\ offer = "send" /\ thread = "running"
      /\ fini' = fini /\ file' = <<>> /\ exists' = TRUE /\ offer' = "none"
      /\ handle' = "open"
  BY DEF OnSendNew, Alive, R!Running
<1>2. file = <<>> /\ streams = <<>> /\ fini = FALSE
  BY <1>1 DEF IInv, FileGood, FiniGood, StreamGood
<1>3. FileGood' /\ FiniGood'
  BY <1>1, <1>2, PackAssumption DEF FileGood, FiniGood
<1>4. DownloadStep
  BY <1>1, <1>2, QuietDownload
<1>5. CASE streams' = Append(streams, 0 + 1) /\ current' = TRUE
  <2>1. streams' = <<Len(file') + 1>>
    BY <1>1, <1>2, <1>5
  <2> QED
    BY <1>1, <1>3, <1>4, <1>5, <2>1, OneStreamIInv
<1>6. CASE R!HandlerRaises
  BY <1>3, <1>4, <1>6, ThreadEffects, DeadIInv DEF Alive
<1> QED
  BY <1>5, <1>6 DEF OnSendNew, DccConnect

LEMMA SendResumeStep ==
  ASSUME IInv, OnSendResume PROVE IInv' /\ DownloadStep
<1>1. /\ Alive /\ exists /\ offer = "send" /\ thread' = thread
      /\ UNCHANGED <<received, handle, streams, current, fini, exists, file>>
      /\ offer' = "accept" => resumeAt' = Len(file)
  BY ThreadEffects
     DEF OnSendResume, Alive, R!Running, ForgetPeer, rvars, dvars
<1>2. streams = <<>>
  BY <1>1 DEF IInv, StreamGood
<1> QED
  BY <1>1, <1>2, QuietDownload
     DEF IInv, FileGood, FiniGood, StreamGood, OfferGood, HandleGood, Alive

LEMMA AcceptStep ==
  ASSUME IInv, OnAccept PROVE IInv' /\ DownloadStep
<1>1. /\ Alive /\ offer = "accept" /\ thread = "running"
      /\ UNCHANGED <<fini, file>> /\ exists' = TRUE /\ offer' = "none"
      /\ handle' = "open"
  BY DEF OnAccept, Alive, R!Running
<1>2. streams = <<>> /\ resumeAt = Len(file) /\ fini = FALSE
  BY <1>1 DEF IInv, FiniGood, StreamGood, OfferGood
<1>3. FileGood' /\ FiniGood'
  BY <1>1, <1>2, SameFile DEF IInv, FiniGood
<1>4. DownloadStep
  BY <1>1, QuietDownload
<1>5. CASE streams' = Append(streams, resumeAt + 1) /\ current' = TRUE
  <2>1. Len(file) + 1 \in Nat
    BY DEF IInv, FileGood
  <2>2. streams' = <<Len(file') + 1>>
    BY <1>1, <1>2, <1>5, <2>1
  <2> QED
    BY <1>1, <1>3, <1>4, <1>5, <2>2, OneStreamIInv
<1>6. CASE R!HandlerRaises
  BY <1>3, <1>4, <1>6, ThreadEffects, DeadIInv DEF Alive
<1> QED
  BY <1>5, <1>6 DEF OnAccept, DccConnect

(* What the invariant says of a running bot with an open stream. *)
LEMMA OneStream ==
  ASSUME IInv, thread = "running", NEW i \in DOMAIN streams
  PROVE  /\ i = 1 /\ streams = <<Len(file) + 1>> /\ Len(file) \in Nat
         /\ fini = FALSE /\ offer = "none"
<1>1. StreamGood /\ fini = FALSE /\ Len(file) \in Nat
  BY DEF IInv, FileGood, FiniGood, Alive
<1>2. streams # <<>>
  OBVIOUS
<1>3. streams = <<Len(file) + 1>> /\ offer = "none"
  BY <1>1, <1>2 DEF StreamGood
<1>4. i = 1
  BY <1>3
<1> QED
  BY <1>1, <1>3, <1>4

(* What on_dcc_disconnect leaves, whichever of its branches it takes.      *)
LEMMA DccDisconnectPost ==
  ASSUME FileGood', fini = FALSE, thread = "running", offer = "none",
         OnDccDisconnect(file'), streams' = <<>>
  PROVE  /\ IInv'
         /\ fini' = FALSE \/ (fini' = TRUE /\ Len(file') >= Enough)
<1>1. handle' = "closed" /\ offer' = "none"
  BY DEF OnDccDisconnect, PeerSeesLink, ForgetPeer, pvars
<1>2. CASE Len(file') >= Enough
  <2>1. fini' = TRUE /\ thread' = "exited"
    BY <1>2, ThreadEffects DEF OnDccDisconnect
  <2> QED
    BY <1>2, <2>1, DeadIInv DEF FiniGood, Alive
<1>3. CASE ~(Len(file') >= Enough)
  <2>1. fini' = FALSE
    BY <1>3 DEF OnDccDisconnect
  <2> QED
    BY <1>1, <2>1, NoStreamIInv DEF FiniGood
<1> QED
  BY <1>2, <1>3

(* The end of a transfer finds the one stream and closes it. *)
LEMMA EndsStep ==
  ASSUME IInv, NEW i \in DOMAIN streams, DccEnds(i)
  PROVE  IInv' /\ DownloadStep
<1>1. thread = "running" /\ UNCHANGED <<file, exists>>
  BY DEF DccEnds, R!Running, dvars
<1>2. i = 1 /\ streams = <<Len(file) + 1>> /\ fini = FALSE /\ offer = "none"
  BY <1>1, OneStream
<1>3. streams' = <<>>
  <2>1. streams' = SubSeq(streams, 1, 0) \o SubSeq(streams, 2, 1)
    BY <1>2 DEF DccEnds, CloseStream, RemoveAt
  <2> QED
    BY <1>2, <2>1
<1>4. FileGood'
  BY <1>1, SameFile DEF IInv
<1>5. OnDccDisconnect(file')
  BY <1>1 DEF DccEnds
<1>6. IInv' /\ (fini' = FALSE \/ (fini' = TRUE /\ Len(file) >= Enough))
  BY <1>1, <1>2, <1>3, <1>4, <1>5, DccDisconnectPost
<1>7. DownloadStep
  BY <1>1, <1>2, <1>6, QuietDownload
     DEF DownloadStep, Download!Next, Download!Finish
<1> QED
  BY <1>6, <1>7

(* Data: the one stream appends the chunk the file lacks, and the end may  *)
(* show in the same step, when the acknowledgement fails.                  *)
LEMMA DataStep ==
  ASSUME IInv, NEW i \in DOMAIN streams, DccData(i)
  PROVE  IInv' /\ DownloadStep
<1>1. thread = "running" /\ exists' = exists /\ streams[i] <= PackSize
  BY DEF DccData, R!Running
<1>2. /\ i = 1 /\ streams = <<Len(file) + 1>> /\ Len(file) \in Nat
      /\ fini = FALSE /\ offer = "none"
  BY <1>1, OneStream
<1>3. StreamGood /\ FileGood
  BY <1>1 DEF IInv, Alive
<1>4. exists
  BY <1>2, <1>3, Zenon DEF StreamGood
<1>5. Len(file) + 1 <= PackSize /\ file' = Append(file, Len(file) + 1)
  BY <1>1, <1>2 DEF DccData
<1>6. Len(file') = Len(file) + 1 /\ file' # <<>>
  BY <1>2, <1>3, <1>5 DEF FileGood
<1>7. FileGood'
  BY <1>1, <1>2, <1>3, <1>4, <1>5, <1>6, PackAssumption DEF FileGood
<1> DEFINE moved == [streams EXCEPT ![i] = @ + 1]
<1>8. moved = <<Len(file') + 1>>
  BY <1>2, <1>6
<1>9. Front(moved) = <<>>
  <2>1. Len(moved) - 1 = 0
    BY <1>8
  <2>2. Front(moved) = SubSeq(moved, 1, 0)
    BY <2>1 DEF Front
  <2>3. SubSeq(moved, 1, 0) = <<>>
    BY <1>8
  <2> QED
    BY <2>2, <2>3
<1> HIDE DEF moved
<1>10. ASSUME fini' = FALSE \/ (fini' = TRUE /\ Len(file') >= Enough)
       PROVE  DownloadStep
  <2>1. Download!Receive
    BY <1>2, <1>5, <1>6, <1>10, PackAssumption DEF Download!Receive
  <2> QED
    BY <2>1 DEF DownloadStep, Download!Next
<1>11. CASE streams' = moved /\ UNCHANGED <<rvars, current, fini, pvars>> /\ current
  <2>1. /\ fini' = FALSE /\ thread' = "running" /\ offer' = "none"
        /\ streams' = <<Len(file') + 1>>
    BY <1>1, <1>2, <1>8, <1>11 DEF rvars, pvars
  <2>2. current' /\ exists'
    BY <1>1, <1>4, <1>11, Zenon
  <2>3. FiniGood'
    BY <2>1 DEF FiniGood
  <2>4. IInv'
    BY <1>6, <1>7, <2>1, <2>2, <2>3, OneStreamIInv
  <2> QED
    BY <1>10, <2>1, <2>4
<1>12. CASE streams' = Front(moved) /\ OnDccDisconnect(file')
  <2>1. streams' = <<>>
    BY <1>9, <1>12
  <2>2. /\ IInv'
        /\ fini' = FALSE \/ (fini' = TRUE /\ Len(file') >= Enough)
    BY <1>1, <1>2, <1>7, <1>12, <2>1, DccDisconnectPost
  <2> QED
    BY <1>10, <2>2
<1>13. current
  BY <1>2, <1>3, Zenon DEF StreamGood
<1> QED
  BY <1>11, <1>12, <1>13 DEF DccData, moved

(* Kodi is killed: the chunk in the write buffer, if any, is the last of   *)
(* the file.                                                               *)
LEMMA KilledStep ==
  ASSUME IInv, Killed PROVE IInv' /\ DownloadStep
<1>1. /\ handle = "dirty" /\ thread = "running" /\ thread' = "crashed"
      /\ fini' = fini /\ exists' = exists
      /\ file' = SubSeq(file, 1, Len(file) - 1)
  BY ThreadEffects DEF Killed, bvars, Front
<1>2. FileGood /\ file # <<>> /\ fini = FALSE
  BY <1>1 DEF IInv, Alive, HandleGood, FiniGood
<1>3. FileGood'
  BY <1>1, <1>2, PackAssumption DEF FileGood
<1>4. Download!LoseTail
  BY <1>1, <1>2 DEF Download!LoseTail
<1> QED
  BY <1>1, <1>2, <1>3, <1>4, DeadIInv
     DEF FiniGood, Alive, DownloadStep, Download!Next

LEMMA RelaunchStep ==
  ASSUME IInv, Relaunch PROVE IInv' /\ DownloadStep
<1>1. /\ streams' = <<>> /\ handle' = "none" /\ offer' = "none" /\ fini' = FALSE
      /\ UNCHANGED <<file, exists>>
  BY DEF Relaunch, ForgetPeer, dvars
<1>2. FileGood' /\ FiniGood'
  BY <1>1, SameFile DEF IInv, FiniGood
<1>3. Download!AskAgain
  BY <1>1 DEF Download!AskAgain
<1> QED
  BY <1>1, <1>2, <1>3, NoStreamIInv DEF DownloadStep, Download!Next

(* A handler that raises ends the thread and touches nothing else. *)
LEMMA RaisesStep ==
  ASSUME IInv, R!HandlerRaises, UNCHANGED <<file, fini, exists>>
  PROVE  IInv' /\ DownloadStep
<1>1. thread = "running" /\ thread' = "crashed" /\ fini = FALSE
  BY ThreadEffects DEF IInv, FiniGood
<1> QED
  BY <1>1, SameFile, DeadIInv, QuietDownload DEF IInv, FiniGood, Alive

(* No second transfer is offered while one is open.                        *)
OneTransfer == Alive /\ streams # <<>> => offer # "send"

(* Every step keeps the invariant and is a step of ResumableDownload,      *)
(* unless the XDCC bot answers with a second transfer.                     *)
LEMMA NextIInv ==
  ASSUME PeerAnswers => OneTransfer', IInv, [Next]_vars
  PROVE  IInv' /\ DownloadStep
<1>1. CASE UNCHANGED vars
  <2>1. UNCHANGED <<bvars, dvars, pvars>> /\ thread' = thread
    BY <1>1 DEF vars, rvars
  <2> QED
    BY <2>1, QuietStep, QuietDownload DEF Alive, bvars, dvars
<1>2. CASE Start \/ LinkBreaks \/ NoticeHangup \/ HandlerSendFails
  <2>1. /\ UNCHANGED <<bvars, dvars>>
        /\ PeerSeesLink \/ UNCHANGED pvars \/ UNCHANGED <<offer, resumeAt>>
        /\ Alive' => Alive
        /\ thread = "exited" => thread' = "exited"
    BY <1>2, ThreadEffects
       DEF Start, LinkBreaks, NoticeHangup, HandlerSendFails, Alive
  <2> QED
    BY <2>1, QuietStep, QuietDownload DEF bvars, dvars
<1>3. CASE OnWelcome \/ Tick \/ RunCheck \/ RunDownload
  <2>1. /\ UNCHANGED <<bvars, dvars>>
        /\ PeerSeesLink \/ UNCHANGED pvars \/ UNCHANGED <<offer, resumeAt>>
        /\ Alive' => Alive
        /\ thread = "exited" => thread' = "exited"
    BY <1>3, ThreadEffects DEF OnWelcome, Tick, RunCheck, RunDownload, Alive
  <2> QED
    BY <2>1, QuietStep, QuietDownload DEF bvars, dvars
<1>4. CASE PeerAnswers \/ PeerIgnores
  <2>1. /\ UNCHANGED <<bvars, dvars>> /\ thread' = thread
        /\ offer' \in {"send", "none"}
    BY <1>4 DEF PeerAnswers, PeerIgnores, PeerDrops, rvars
  <2>2. DownloadStep
    BY <2>1, QuietDownload DEF bvars, dvars
  <2>3. Alive => streams = <<>> \/ offer' = "none"
    BY <1>4, <2>1 DEF PeerIgnores, PeerDrops, OneTransfer, Alive, bvars
  <2>4. FileGood' /\ FiniGood'
    BY <2>1 DEF IInv, FileGood, FiniGood, bvars, dvars
  <2>5. Alive => StreamGood' /\ OfferGood' /\ HandleGood'
    <3>1. UNCHANGED <<streams, current, handle, file, exists>>
      BY <2>1 DEF bvars, dvars
    <3>2. HandleGood' /\ OfferGood' <=> HandleGood'
      BY <2>1 DEF OfferGood
    <3> QED
      BY <2>1, <2>3, <3>1, <3>2 DEF IInv, StreamGood, HandleGood
  <2> QED
    BY <2>1, <2>2, <2>4, <2>5 DEF IInv, Alive
<1>5. CASE OnSendNew \/ OnSendResume \/ OnAccept
  BY <1>5, SendNewStep, SendResumeStep, AcceptStep
<1>6. CASE \E c \in OtherCtcp : OnCtcpOther(c[1], c[2])
  BY <1>6, RaisesStep DEF OnCtcpOther, bvars, dvars
<1>7. CASE \E i \in DOMAIN streams : DccData(i) \/ DccDataClosed(i) \/ DccEnds(i)
  <2>1. PICK i \in DOMAIN streams : DccData(i) \/ DccDataClosed(i) \/ DccEnds(i)
    BY <1>7
  <2>2. CASE DccDataClosed(i)
    BY <2>2, RaisesStep DEF DccDataClosed, bvars, dvars
  <2> QED
    BY <2>1, <2>2, DataStep, EndsStep
<1>8. CASE HandlerRaises
  BY <1>8, RaisesStep DEF HandlerRaises, bvars, dvars
<1> QED
  BY <1>1, <1>2, <1>3, <1>4, <1>5, <1>6, <1>7, <1>8, KilledStep, RelaunchStep
     DEF Next, HelpfulNext

(* An XDCC bot that runs one transfer per user makes no second offer.      *)
LEMMA LimitIsOneTransfer ==
  ASSUME TransfersPerUser = 1, IInv, PeerAnswers
  PROVE  OneTransfer'
<1>1. /\ UNCHANGED streams /\ thread' = thread
      /\ offer' = "send" => Len(streams) < 1
  BY DEF PeerAnswers, PeerDrops, rvars, bvars
<1>2. Alive /\ streams # <<>> => streams = <<Len(file) + 1>>
  BY DEF IInv, StreamGood
<1>3. Alive /\ streams # <<>> => Len(streams) = 1
  BY <1>2
<1> QED
  BY <1>1, <1>3 DEF OneTransfer, Alive

LEMMA SpecIInv == TransfersPerUser = 1 => (Spec => []IInv)
<1> SUFFICES ASSUME TransfersPerUser = 1 PROVE Spec => []IInv
  OBVIOUS
<1>1. IInv /\ [Next]_vars => IInv'
  BY NextIInv, LimitIsOneTransfer
<1> QED
  BY <1>1, InitIInv, PTL DEF Spec

LEMMA OneTransferIInv == Spec /\ []OneTransfer => []IInv
<1>1. IInv /\ OneTransfer' /\ [Next]_vars => IInv'
  BY NextIInv
<1> QED
  BY <1>1, InitIInv, PTL DEF Spec

LEMMA IInvBeginning == IInv => FileIsBeginning
<1> SUFFICES ASSUME FileGood PROVE file = Download!Pack(Len(file))
  BY DEF IInv, FileGood, FileIsBeginning, Download!IsBeginning
<1> QED
  BY DEF FileGood, Download!Pack

(* The file on disk is a beginning of the pack at all times: cuts, lost    *)
(* servers, crashes and resumes leave no gap and double no chunk (on_ctcp, *)
(* on_dccmsg), when the XDCC bot runs one transfer per user.               *)
THEOREM FileStaysBeginning == TransfersPerUser = 1 => (Spec => []FileIsBeginning)
BY IInvBeginning, SpecIInv, PTL

(* Whatever the XDCC bot allows, it takes the offer of a second transfer   *)
(* while one is open to spoil the file (on_ctcp SEND looks at the file,    *)
(* not at self.dcc).                                                       *)
THEOREM BeginningWithOneTransfer == Spec /\ []OneTransfer => []FileIsBeginning
BY IInvBeginning, OneTransferIInv, PTL

(* The bot keeps the promise of ResumableDownload: whatever interrupts the *)
(* transfer, the file only grows by the chunk it lacks, and "fini" is      *)
(* announced over a file that is long enough (on_dcc_disconnect), when the *)
(* XDCC bot runs one transfer per user.                                    *)
THEOREM BotIsResumableDownload ==
  TransfersPerUser = 1 => (Spec => ImplementsDownload)
<1> SUFFICES ASSUME TransfersPerUser = 1 PROVE Spec => ImplementsDownload
  OBVIOUS
<1>1. Init => Download!Init
  BY DEF Init, Download!Init
<1>2. IInv /\ [Next]_vars => [Download!Next]_(Download!avars)
  BY NextIInv, LimitIsOneTransfer DEF DownloadStep
<1>3. Spec => []IInv
  BY SpecIInv
<1> QED
  BY <1>1, <1>2, <1>3, PTL DEF Spec, ImplementsDownload, Download!Spec
------------------------------------------------------------------------------
(* What the composed bot inherits from its thread, and what its streams    *)
(* add, for any number of transfers.                                       *)
RP == INSTANCE ReconnectProofs

(* R and RP are the same module, which the provers see once both are       *)
(* expanded.                                                               *)
LEMMA SameThread ==
  /\ R!Init <=> RP!Init
  /\ R!Next <=> RP!Next
  /\ R!TypeOK <=> RP!TypeOK
  /\ R!ArmedWhenDown <=> RP!ArmedWhenDown
<1>0. \A queue : R!WithDownload(queue) = RP!WithDownload(queue)
  BY DEF R!WithDownload, RP!WithDownload, R!InsertAt, RP!InsertAt
<1> USE DEF R!Dial, R!Disconnect, R!NoSocket, R!ReconRun, R!WithCheck,
            R!Connected, R!Running, RP!Dial, RP!Disconnect, RP!NoSocket,
            RP!ReconRun, RP!WithCheck, RP!Connected, RP!Running
<1>1. /\ R!Start <=> RP!Start
      /\ R!LinkBreaks <=> RP!LinkBreaks
      /\ R!NoticeHangup <=> RP!NoticeHangup
      /\ R!HandlerSendFails <=> RP!HandlerSendFails
  BY DEF R!Start, R!LinkBreaks, R!NoticeHangup, R!HandlerSendFails,
         RP!Start, RP!LinkBreaks, RP!NoticeHangup, RP!HandlerSendFails
<1>2. /\ R!OnWelcome <=> RP!OnWelcome
      /\ R!Tick <=> RP!Tick
      /\ R!RunCheck <=> RP!RunCheck
      /\ R!RunDownload <=> RP!RunDownload
  <2>1. R!OnWelcome <=> RP!OnWelcome
    BY <1>0 DEF R!OnWelcome, RP!OnWelcome
  <2>2. R!Tick <=> RP!Tick
    BY Zenon DEF R!Tick, RP!Tick
  <2>3. R!RunCheck <=> RP!RunCheck
    BY Zenon DEF R!RunCheck, RP!RunCheck
  <2>4. R!RunDownload <=> RP!RunDownload
    BY Zenon DEF R!RunDownload, RP!RunDownload
  <2> QED
    BY <2>1, <2>2, <2>3, <2>4
<1>3. /\ R!HandlerDisconnects <=> RP!HandlerDisconnects
      /\ R!HandlerDies <=> RP!HandlerDies
      /\ R!HandlerRaises <=> RP!HandlerRaises
      /\ R!Relaunch <=> RP!Relaunch
  BY DEF R!HandlerDisconnects, R!HandlerDies, R!HandlerRaises, R!Relaunch,
         RP!HandlerDisconnects, RP!HandlerDies, RP!HandlerRaises, RP!Relaunch
<1>4. /\ R!Init <=> RP!Init
      /\ R!TypeOK <=> RP!TypeOK
      /\ R!ArmedWhenDown <=> RP!ArmedWhenDown
  BY DEF R!Init, RP!Init, R!TypeOK, RP!TypeOK, R!ArmedWhenDown, RP!ArmedWhenDown
<1> QED
  BY <1>1, <1>2, <1>3, <1>4, Zenon DEF R!Next, RP!Next

LEMMA ThreadInvariant == Spec => [](R!TypeOK /\ R!ArmedWhenDown)
<1>1. RP!SecondChannelAssumption
  BY PackAssumption DEF RP!SecondChannelAssumption
<1>2. RP!Spec => []RP!TypeOK
  BY <1>1, RP!TypeCorrect
<1>3. RP!Spec => []RP!ArmedWhenDown
  BY <1>1, RP!LostConnectionIsRetried
<1>4. Init => RP!Init
  BY SameThread DEF Init
<1>5. [Next]_vars => [RP!Next]_(RP!rvars)
  BY StepIsReconnectStep, SameThread DEF R!rvars, RP!rvars
<1>6. RP!TypeOK /\ RP!ArmedWhenDown => R!TypeOK /\ R!ArmedWhenDown
  BY SameThread
<1> QED
  BY <1>2, <1>3, <1>4, <1>5, <1>6, PTL DEF Spec, RP!Spec
(* The types of what the transfer adds; and a bot that was never connected *)
(* has no stream, as only a connected one is offered any.                  *)
StreamsInv == TransferTypeOK /\ (conn = "never" => streams = <<>>)

(* What the steps of Reconnect may do to conn. *)
LEMMA ConnEffects ==
  /\ R!Next \/ UNCHANGED rvars => conn' = conn \/ conn' # "never" \/ R!Relaunch
  /\ R!HandlerRaises => conn' = conn
BY DEF R!Next, R!Start, R!LinkBreaks, R!NoticeHangup, R!HandlerSendFails,
       R!OnWelcome, R!Tick, R!RunCheck, R!RunDownload, R!HandlerDisconnects,
       R!HandlerDies, R!HandlerRaises, R!Dial, R!Disconnect, rvars

LEMMA QuietStreams ==
  ASSUME StreamsInv, UNCHANGED <<bvars, dvars>>,
         conn' = conn \/ conn' # "never",
         asked' \in BOOLEAN, offer' \in {"none", "send", "accept"},
         resumeAt' \in Nat
  PROVE  StreamsInv'
BY Zenon DEF StreamsInv, TransferTypeOK, bvars, dvars

LEMMA PeerTypes ==
  ASSUME TransferTypeOK, PeerSeesLink \/ UNCHANGED pvars
  PROVE  /\ asked' \in BOOLEAN /\ offer' \in {"none", "send", "accept"}
         /\ resumeAt' \in Nat
<1>1. CASE ForgetPeer
  <2>1. asked' \in BOOLEAN
    BY <1>1, Zenon DEF ForgetPeer
  <2> QED
    BY <1>1, <2>1 DEF ForgetPeer
<1>2. CASE UNCHANGED pvars
  BY <1>2, Zenon DEF TransferTypeOK, pvars
<1> QED
  BY <1>1, <1>2 DEF PeerSeesLink

(* What RemoveAt of the community modules yields. *)
LEMMA RemoveAtElements ==
  ASSUME NEW s \in Seq(Nat), NEW i \in 1 .. Len(s)
  PROVE  RemoveAt(s, i) \in Seq(Nat) /\ Len(RemoveAt(s, i)) = Len(s) - 1
<1> DEFINE left == SubSeq(s, 1, i - 1)
           right == SubSeq(s, i + 1, Len(s))
<1>1. left \in Seq(Nat) /\ Len(left) = i - 1
  OBVIOUS
<1>2. right \in Seq(Nat) /\ Len(right) = Len(s) - i
  OBVIOUS
<1>3. RemoveAt(s, i) = left \o right
  BY DEF RemoveAt
<1> HIDE DEF left, right
<1>4. \A a, b \in Seq(Nat) :
         a \o b \in Seq(Nat) /\ Len(a \o b) = Len(a) + Len(b)
  OBVIOUS
<1>5. Len(left) + Len(right) = Len(s) - 1
  BY <1>1, <1>2
<1> QED
  BY <1>1, <1>2, <1>3, <1>4, <1>5

LEMMA FrontElements ==
  ASSUME NEW s \in Seq(Nat), s # <<>>
  PROVE  Front(s) \in Seq(Nat)
<1>1. Len(s) - 1 \in 0 .. Len(s)
  OBVIOUS
<1>2. SubSeq(s, 1, Len(s) - 1) \in Seq(Nat)
  BY <1>1
<1> QED
  BY <1>2 DEF Front

(* A stream that ends is one less, and self.dcc is among what is left.     *)
LEMMA StreamRemoved ==
  ASSUME streams \in Seq(Nat), NEW i \in DOMAIN streams
  PROVE  /\ streams # <<>>
         /\ RemoveAt(streams, i) \in Seq(Nat)
         /\ i # Len(streams) => RemoveAt(streams, i) # <<>>
         /\ [streams EXCEPT ![i] = @ + 1] \in Seq(Nat)
         /\ Len([streams EXCEPT ![i] = @ + 1]) = Len(streams)
         /\ Front([streams EXCEPT ![i] = @ + 1]) \in Seq(Nat)
<1>1. Len(streams) \in Nat /\ i \in 1 .. Len(streams)
  OBVIOUS
<1>2. /\ RemoveAt(streams, i) \in Seq(Nat)
      /\ Len(RemoveAt(streams, i)) = Len(streams) - 1
  BY <1>1, RemoveAtElements
<1>3. i # Len(streams) => RemoveAt(streams, i) # <<>>
  BY <1>1, <1>2
<1> DEFINE moved == [streams EXCEPT ![i] = @ + 1]
<1>4. moved \in Seq(Nat) /\ Len(moved) = Len(streams)
  BY <1>1
<1> HIDE DEF moved
<1>5. Front(moved) \in Seq(Nat)
  BY <1>1, <1>4, FrontElements
<1> QED
  BY <1>1, <1>2, <1>3, <1>4, <1>5 DEF moved

(* on_dcc_disconnect keeps the types, and what it does to conn. *)
LEMMA DisconnectTypes ==
  ASSUME TransferTypeOK, NEW n, OnDccDisconnect(n)
  PROVE  /\ handle' = "closed" /\ fini' \in BOOLEAN
         /\ asked' \in BOOLEAN /\ offer' \in {"none", "send", "accept"}
         /\ resumeAt' \in Nat
<1>1. PeerSeesLink
  BY DEF OnDccDisconnect
<1>2. fini' = TRUE \/ fini' = fini
  BY DEF OnDccDisconnect
<1>3. fini \in BOOLEAN
  BY DEF TransferTypeOK
<1>4. fini' \in BOOLEAN
  BY <1>2, <1>3, Zenon
<1> QED
  BY <1>1, <1>4, PeerTypes DEF OnDccDisconnect

LEMMA NextStreams ==
  ASSUME StreamsInv, [Next]_vars PROVE StreamsInv'
<1> USE DEF TransferTypeOK, bvars, dvars, pvars, rvars
<1>0. /\ TransferTypeOK /\ position \in Nat /\ received \in Nat
      /\ streams \in Seq(Nat) /\ file \in Seq(Nat) /\ resumeAt \in Nat
  BY DEF StreamsInv
<1>b. /\ current \in BOOLEAN /\ fini \in BOOLEAN /\ exists \in BOOLEAN
      /\ asked \in BOOLEAN
  BY Zenon DEF StreamsInv
<1>c. thread' # "new" \/ thread' = thread => conn' = conn \/ conn' # "never"
  BY StepIsReconnectStep, ConnEffects DEF R!rvars, R!Relaunch
<1>q. ASSUME UNCHANGED <<bvars, dvars>>, thread' # "new" \/ thread' = thread,
             PeerSeesLink \/ UNCHANGED pvars
      PROVE  StreamsInv'
  BY <1>0, <1>c, <1>q, PeerTypes, QuietStreams
<1>1. CASE UNCHANGED vars
  BY <1>1, <1>q DEF vars
<1>2. CASE Start \/ LinkBreaks \/ NoticeHangup \/ HandlerSendFails
  BY <1>q, <1>2, ThreadEffects
     DEF Start, LinkBreaks, NoticeHangup, HandlerSendFails
<1>3. CASE OnWelcome \/ Tick \/ RunCheck \/ HandlerRaises
  BY <1>q, <1>3, ThreadEffects DEF OnWelcome, Tick, RunCheck, HandlerRaises
<1>4. CASE RunDownload
  <2>1. CASE PeerSeesLink
    BY <1>q, <1>4, <2>1, ThreadEffects DEF RunDownload
  <2>2. CASE asked' = TRUE /\ UNCHANGED <<offer, resumeAt>>
    <3>1. asked' \in BOOLEAN
      BY <2>2, Zenon
    <3> QED
      BY <1>0, <1>c, <1>4, <2>2, <3>1, ThreadEffects, QuietStreams DEF RunDownload
  <2> QED
    BY <1>4, <2>1, <2>2 DEF RunDownload
<1>5. CASE PeerAnswers \/ PeerIgnores
  <2>1. asked' \in BOOLEAN /\ offer' \in {"none", "send", "accept"}
    BY <1>5, Zenon DEF PeerAnswers, PeerIgnores, PeerDrops
  <2> QED
    BY <1>0, <1>5, <2>1, QuietStreams 
       DEF StreamsInv, PeerAnswers, PeerIgnores, PeerDrops
<1>6. CASE \E c \in OtherCtcp : OnCtcpOther(c[1], c[2])
  BY <1>q, <1>6, ThreadEffects DEF OnCtcpOther
<1>7. ASSUME NEW n \in Nat, R!Connected, DccConnect(n),
             handle' = "open", exists' = TRUE, offer' = "none",
             file' \in Seq(Nat), UNCHANGED <<position, received, fini, asked, resumeAt>>
      PROVE  StreamsInv'
  <2>1. exists' \in BOOLEAN /\ asked' \in BOOLEAN /\ fini' \in BOOLEAN
    BY <1>b, <1>7, Zenon
  <2>2. conn' = conn /\ conn # "never"
    BY <1>7, ConnEffects DEF DccConnect, R!Connected
  <2>3. CASE streams' = Append(streams, n + 1) /\ current' = TRUE
    <3>1. streams' \in Seq(Nat) /\ streams' # <<>>
      <4>1. \A s \in Seq(Nat), m \in Nat :
               Append(s, m) \in Seq(Nat) /\ Len(Append(s, m)) = Len(s) + 1
        OBVIOUS
      <4>2. n + 1 \in Nat
        OBVIOUS
      <4>3. streams' \in Seq(Nat) /\ Len(streams') = Len(streams) + 1
        BY <1>0, <2>3, <4>1, <4>2
      <4> QED
        BY <1>0, <4>3
    <3>2. current' \in BOOLEAN
      BY <2>3, Zenon
    <3> QED
      BY <1>0, <1>7, <2>1, <2>2, <3>1, <3>2 DEF StreamsInv
  <2>4. CASE UNCHANGED <<streams, current>>
    <3>1. current' \in BOOLEAN /\ (current' => streams' # <<>>)
      BY <1>0, <1>b, <2>4, Zenon
    <3> QED
      BY <1>0, <1>7, <2>1, <2>2, <2>4, <3>1 DEF StreamsInv
  <2> QED
    BY <1>7, <2>3, <2>4 DEF DccConnect
<1>8. CASE OnSendNew
  BY <1>7, <1>8 DEF OnSendNew
<1>9. CASE OnAccept
  BY <1>0, <1>7, <1>9 DEF OnAccept
<1>10. CASE OnSendResume
  <2>1. /\ UNCHANGED <<received, handle, streams, current, fini, exists, file>>
        /\ position' = Len(file)
        /\ conn' = conn \/ conn' # "never"
    BY <1>10, <1>c, ThreadEffects DEF OnSendResume
  <2>2. resumeAt' \in Nat /\ position' \in Nat
    BY <1>0, <1>10 DEF OnSendResume, ForgetPeer
  <2>3. asked' \in BOOLEAN /\ offer' \in {"none", "send", "accept"}
    BY <1>b, <1>10, Zenon DEF OnSendResume, ForgetPeer
  <2> QED
    BY <2>1, <2>2, <2>3, Zenon DEF StreamsInv
<1>11. CASE \E i \in DOMAIN streams : DccData(i) \/ DccDataClosed(i) \/ DccEnds(i)
  <2>1. PICK i \in DOMAIN streams : DccData(i) \/ DccDataClosed(i) \/ DccEnds(i)
    BY <1>11
  <2>2. CASE DccDataClosed(i)
    BY <1>q, <2>2, ThreadEffects DEF DccDataClosed
  <2>3. /\ streams # <<>> /\ RemoveAt(streams, i) \in Seq(Nat)
        /\ i # Len(streams) => RemoveAt(streams, i) # <<>>
    BY <1>0, StreamRemoved
  <2> DEFINE moved == [streams EXCEPT ![i] = @ + 1]
  <2>4. moved \in Seq(Nat) /\ moved # <<>> /\ Front(moved) \in Seq(Nat)
    BY <1>0, <2>3, StreamRemoved
  <2> HIDE DEF moved
  <2>5. conn # "never"
    BY <2>3 DEF StreamsInv
  <2>6. ~DccDataClosed(i) => thread' # "new"
    BY <2>1, ThreadEffects DEF DccData, DccEnds, OnDccDisconnect, R!Running
  <2>7. CASE DccEnds(i)
    <3>1. /\ handle' = "closed" /\ fini' \in BOOLEAN
          /\ asked' \in BOOLEAN /\ offer' \in {"none", "send", "accept"}
          /\ resumeAt' \in Nat
      BY <1>0, <2>7, DisconnectTypes DEF DccEnds
    <3>2. streams' \in Seq(Nat) /\ conn' # "never"
      BY <1>c, <2>3, <2>5, <2>7, ThreadEffects
         DEF DccEnds, CloseStream, OnDccDisconnect, R!Running
    <3>3. current' \in BOOLEAN /\ (current' => streams' # <<>>)
      BY <1>b, <2>3, <2>7, Zenon DEF DccEnds, CloseStream
    <3> QED
      BY <1>0, <2>7, <3>1, <3>2, <3>3, Zenon DEF DccEnds, StreamsInv
  <2>8. CASE DccData(i)
    <3>1. /\ file' \in Seq(Nat) /\ received' \in Nat
          /\ position' = position /\ exists' = exists
      BY <1>0, <2>8 DEF DccData
    <3>2. conn' # "never"
      BY <1>c, <2>5, <2>8, ThreadEffects DEF DccData, OnDccDisconnect, R!Running
    <3>3. CASE streams' = moved /\ handle' = "dirty"
               /\ UNCHANGED <<rvars, current, fini, pvars>>
      BY <1>0, <1>b, <2>4, <3>1, <3>2, <3>3, Zenon DEF StreamsInv
    <3>4. CASE streams' = Front(moved) /\ current' = FALSE /\ OnDccDisconnect(file')
      BY <1>0, <1>b, <2>4, <3>1, <3>2, <3>4, DisconnectTypes, Zenon DEF StreamsInv
    <3>5. CASE UNCHANGED <<streams, current, handle, fini, pvars>>
      BY <1>0, <1>b, <3>1, <3>2, <3>5, Zenon DEF StreamsInv
    <3> QED
      BY <2>8, <3>3, <3>4, <3>5 DEF DccData, moved
  <2> QED
    BY <2>1, <2>2, <2>7, <2>8
<1>12. CASE Killed
  <2>1. /\ UNCHANGED <<bvars, exists, pvars>> /\ conn' = conn
        /\ file' = SubSeq(file, 1, Len(file) - 1)
    BY <1>12, ConnEffects DEF Killed, Front
  <2>2. file' \in Seq(Nat)
    BY <1>0, <2>1
  <2> QED
    BY <2>1, <2>2, Zenon DEF StreamsInv
<1>13. CASE Relaunch
  <2>1. /\ position' = 0 /\ received' = 0 /\ handle' = "none" /\ streams' = <<>>
        /\ current' = FALSE /\ fini' = FALSE /\ asked' = FALSE
        /\ offer' = "none" /\ resumeAt' = 0 /\ UNCHANGED dvars
    BY <1>13 DEF Relaunch, ForgetPeer
  <2>2. /\ current' \in BOOLEAN /\ (current' => streams' # <<>>)
        /\ fini' \in BOOLEAN /\ asked' \in BOOLEAN
    BY <2>1, Zenon
  <2>3. position' \in Nat /\ received' \in Nat /\ streams' \in Seq(Nat)
        /\ resumeAt' \in Nat
    BY <2>1
  <2> QED
    BY <2>1, <2>2, <2>3, Zenon DEF StreamsInv
<1> QED
  BY <1>1, <1>2, <1>3, <1>4, <1>5, <1>6, <1>8, <1>9, <1>10, <1>11, <1>12, <1>13
     DEF Next, HelpfulNext
LEMMA InitStreams == Init => StreamsInv
<1> SUFFICES ASSUME Init PROVE StreamsInv
  OBVIOUS
<1>1. /\ current \in BOOLEAN /\ ~current /\ fini \in BOOLEAN
      /\ exists \in BOOLEAN /\ asked \in BOOLEAN
  BY Zenon DEF Init
<1>2. streams \in Seq(Nat) /\ file \in Seq(Nat) /\ streams = <<>>
  BY DEF Init
<1>3. position \in Nat /\ received \in Nat /\ resumeAt \in Nat
  BY DEF Init
<1> QED
  BY <1>1, <1>2, <1>3 DEF Init, StreamsInv, TransferTypeOK

LEMMA SpecStreams == Spec => []StreamsInv
BY InitStreams, NextStreams, PTL DEF Spec

(* Every variable of the composed bot keeps its type. *)
THEOREM TypeCorrect == Spec => []TypeOK
<1>1. StreamsInv /\ R!TypeOK => TypeOK
  BY DEF StreamsInv, TypeOK
<1> QED
  BY <1>1, ThreadInvariant, SpecStreams, PTL

(* What on_dcc_disconnect leaves of a file that is too short.              *)
LEMMA ShortEndArms ==
  ASSUME R!TypeOK, R!ArmedWhenDown, R!Running, conn # "never",
         NEW n, OnDccDisconnect(n), Len(n) < Enough, Len(n) \in Nat
  PROVE  conn' = "down" /\ checkScheduled'
<1>1. ~(Len(n) >= Enough)
  BY PackAssumption
<1>2. CASE R!Connected
  BY <1>1, <1>2
     DEF OnDccDisconnect, R!HandlerDisconnects, R!Disconnect, R!ReconRun
<1>3. CASE ~R!Connected
  <2>1. conn = "down"
    BY <1>3 DEF R!TypeOK, R!Connected
  <2>2. conn' = conn /\ checkScheduled' = checkScheduled
    BY <1>1, <1>3 DEF OnDccDisconnect, rvars
  <2> QED
    BY <2>1, <2>2, Zenon DEF R!ArmedWhenDown
<1> QED
  BY <1>2, <1>3

(* Auto resume, for any number of transfers: a transfer that ends short of *)
(* the pack leaves the bot off the server with a check pending             *)
(* (on_dcc_disconnect, _on_disconnect), whichever stream it was and        *)
(* whether or not the server was lost before.                              *)
THEOREM ShortTransfersAreRetried == Spec => ShortTransferIsRetried
<1>1. ASSUME R!TypeOK, R!ArmedWhenDown, StreamsInv, [Next]_vars,
             Len(streams') < Len(streams), Len(file') < Enough,
             thread' = "running"
      PROVE  conn' = "down" /\ checkScheduled'
  <2>0. /\ streams \in Seq(Nat) /\ file \in Seq(Nat) /\ Len(streams) \in Nat
        /\ Len(file) \in Nat
    BY <1>1 DEF StreamsInv, TransferTypeOK
  <2>1. streams' # streams
    BY <1>1, <2>0
  <2>2. \A n \in Nat : ~DccConnect(n)
    BY <1>1, <2>0, <2>1 DEF DccConnect
  <2>3. \/ \E i \in DOMAIN streams : DccData(i) \/ DccEnds(i)
        \/ OnSendNew \/ OnAccept
    BY <1>1, <2>1, ThreadEffects
       DEF Next, HelpfulNext, vars, bvars, Start, LinkBreaks, NoticeHangup,
           HandlerSendFails,
           OnWelcome, Tick, RunCheck, RunDownload, PeerAnswers,
           PeerIgnores, PeerDrops, OnSendResume,
           OnCtcpOther, DccDataClosed, HandlerRaises, Killed, Relaunch, R!Relaunch
  <2>4. ~OnSendNew /\ ~OnAccept
    BY <1>1, <2>2 DEF OnSendNew, OnAccept, StreamsInv, TransferTypeOK
  <2>5. PICK i \in DOMAIN streams : DccData(i) \/ DccEnds(i)
    BY <2>3, <2>4
  <2>6. conn # "never"
    BY <1>1, <2>0, <2>5, StreamRemoved DEF StreamsInv
  <2>7. CASE DccEnds(i)
    BY <1>1, <2>0, <2>6, <2>7, ShortEndArms DEF DccEnds, dvars
  <2>8. CASE DccData(i)
    <3>1. Len([streams EXCEPT ![i] = @ + 1]) = Len(streams)
      BY <2>0, StreamRemoved
    <3>2. Len(file') \in Nat
      BY <2>0, <2>5, <2>8 DEF DccData
    <3>3. OnDccDisconnect(file')
      BY <1>1, <2>0, <2>1, <2>8, <3>1 DEF DccData
    <3> QED
      BY <1>1, <2>6, <2>8, <3>2, <3>3, ShortEndArms DEF DccData
  <2> QED
    BY <2>5, <2>7, <2>8
<1>2. R!TypeOK /\ R!ArmedWhenDown /\ StreamsInv /\ [Next]_vars =>
        [Len(streams') < Len(streams) /\ Len(file') < Enough /\ thread' = "running"
           => conn' = "down" /\ checkScheduled']_vars
  BY <1>1
<1> QED
  BY <1>2, ThreadInvariant, SpecStreams, PTL DEF Spec, ShortTransferIsRetried
==============================================================================
