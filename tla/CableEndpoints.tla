---------------------------- MODULE CableEndpoints ----------------------------
(***************************************************************************)
(* How the format of a Virtual Cable comes from the Slot Table to Windows. *)
(* The Worker sends it with an exchange; the driver takes it, offers it    *)
(* and no other from then on, and tells Windows, which closes its streams  *)
(* and reopens them in the endpoint's device format.  Windows keeps that   *)
(* one whatever the driver offers, so a follower thread of the Worker's    *)
(* process (CableEndpointSync) sets it.                                    *)
(*                                                                         *)
(* One cable and one of its two endpoints: the other is treated alike.  A  *)
(* format is its rate and its channels (with its sample format), because   *)
(* they are stored and read apart.  What Windows does is external: it      *)
(* opens a stream, or handles a format change, one at a time.              *)
(***************************************************************************)
EXTENDS Integers

CONSTANTS
  Rates, Channels, \* of the formats a cable may have
  Bad,             \* channels that are no valid setting of a cable
  Settings,        \* rates and channels that the table may be set to
  Default,         \* the format until a Worker connects (WHACableFormat)
  None             \* no format

Formats == [rate: Rates, channels: Channels]

ASSUME FormatAssumption ==
  /\ Default \in Formats /\ None \notin Formats
  /\ 0 \notin Rates /\ Bad \notin Channels
  /\ Settings \subseteq [rate: Rates, channels: Channels \cup {Bad}]

VARIABLES
  setting,  \* the Slot Table's rate and the cable's setting in it
  busy,     \* whether slots use the cable
  worker,   \* where the Worker is
  sent,     \* the format last sent with success (cableSent_)
  st,       \* the format the driver accepted, for others to read (cableStat_)
  driver,   \* the cable's format in the driver (WHACable::format)
  changed,  \* whether the exchange in the driver changed it
  events,   \* whether the cable has its port's events (WHACable::events)
  refs,     \* references to those events
  told,     \* a format change Windows has been told and has not handled
  sync,     \* where the follower is
  stop,     \* it shall end (stop_)
  wake,     \* its event (wake_)
  want,     \* the format it reads
  tried,    \* the format it last set, less than kRetryMs ago
  endpoint, \* the endpoint's device format
  stream,   \* the format of the Windows stream, if there is one
  opening   \* the format NewStream has found offered and makes a stream of

vars == <<setting, busy, worker, sent, st, driver, changed, events, refs, told,
          sync, stop, wake, want, tried, endpoint, stream, opening>>
table == <<setting, busy>>
follower == <<sync, stop, wake, want, tried>>
windows == <<told, endpoint, stream, opening>>
port == <<events, refs>>

TypeOK ==
  /\ setting \in Settings /\ busy \in BOOLEAN
  /\ worker \in {"off", "run", "taken", "telling", "store", "stored", "wake", "join"}
  /\ sent \in Formats \cup {None}
  /\ st \in [rate: Rates \cup {0}, channels: Channels]
  /\ driver \in Formats /\ changed \in BOOLEAN
  /\ events \in BOOLEAN /\ refs \in 0..2 /\ told \in BOOLEAN
  /\ sync \in {"off", "wait", "woken", "read", "set"}
  /\ stop \in BOOLEAN /\ wake \in BOOLEAN
  /\ want \in [rate: Rates \cup {0}, channels: Channels]
  /\ tried \in Formats \cup {None}
  /\ endpoint \in Formats
  /\ stream \in Formats \cup {None} /\ opening \in Formats \cup {None}

\* What the Worker makes of a setting: stereo float where it is not valid.
Sendable(s) == IF s.channels = Bad THEN [s EXCEPT !.channels = Default.channels] ELSE s

\* Read as no format, by its rate.
NoFormat == [Default EXCEPT !.rate = 0]

Init ==
  /\ setting \in Settings /\ busy \in BOOLEAN
  /\ worker = "off" /\ sent = None /\ st = NoFormat
  /\ driver = Default /\ changed = FALSE
  /\ events = FALSE /\ refs = 0 /\ told = FALSE
  /\ sync = "off" /\ stop = FALSE /\ wake = FALSE
  /\ want = NoFormat /\ tried = None
  /\ endpoint \in Formats /\ stream = None /\ opening = None

-----------------------------------------------------------------------------
(***************************************************************************)
(* The Worker.                                                             *)
(***************************************************************************)
Save ==
  /\ setting' \in Settings
  /\ busy' \in BOOLEAN
  /\ UNCHANGED <<worker, sent, st, driver, changed, port, follower, windows>>

\* openCables: every format is to be sent again, none is accepted yet, and
\* the follower starts, its event signaled.  Where its thread or its COM
\* objects cannot be made there is none, and the Worker goes on.
OpenCables ==
  /\ worker = "off"
  /\ worker' = "run" /\ sent' = None /\ st' = [st EXCEPT !.rate = 0]
  /\ sync' \in {"wait", "off"} /\ stop' = FALSE /\ wake' = TRUE
  /\ tried' = None
  /\ UNCHANGED <<table, driver, changed, port, want, windows>>

\* A tick exchanges with a cable that slots use, and sends an idle one a
\* format it has not had.
Due == busy \/ sent # Sendable(setting)

\* One format differs from another: SetCableFormatLocked, which then stores it.
FaultyDiffers(old, new) == old.rate # new.rate
Differs(old, new) == old.rate # new.rate \/ old.channels # new.channels

\* The driver's part of an exchange under the cable's lock.  One that fails
\* leaves all as it was, to be sent again.
Exchange ==
  /\ worker = "run" /\ Due
  /\ worker' = "taken"
  /\ changed' = Differs(driver, Sendable(setting))
  /\ driver' = Sendable(setting)
  /\ UNCHANGED <<table, sent, st, port, follower, windows>>

FaultyHold == /\ worker' = IF changed /\ events THEN "telling" ELSE "store"
              /\ UNCHANGED refs

\* NotifyCableFormatChange holds the events while it uses them without the lock.
Hold == /\ worker' = IF changed /\ events THEN "telling" ELSE "store"
        /\ refs' = IF changed /\ events THEN refs + 1 ELSE refs

NotifyHold ==
  /\ worker = "taken"
  /\ Hold
  /\ changed' = FALSE
  /\ UNCHANGED <<table, sent, st, driver, events, follower, windows>>

\* Windows, which listens at a port as long as it is there, is told.
NotifyTell ==
  /\ worker = "telling"
  /\ worker' = "store"
  /\ told' = (told \/ events)
  /\ refs' = IF refs > 0 THEN refs - 1 ELSE 0
  /\ UNCHANGED <<table, sent, st, driver, changed, events, follower, endpoint, stream, opening>>

\* Back in the Worker: what was accepted is stored field by field, and the
\* follower is woken if it is news.
StoreRate ==
  /\ worker = "store"
  /\ sent' = driver
  /\ worker' = IF st = driver THEN "run" ELSE "stored"
  /\ st' = [st EXCEPT !.rate = driver.rate]
  /\ UNCHANGED <<table, driver, changed, port, follower, windows>>

StoreChannels ==
  /\ worker = "stored"
  /\ worker' = "wake"
  /\ st' = [st EXCEPT !.channels = driver.channels]
  /\ UNCHANGED <<table, sent, driver, changed, port, follower, windows>>

Wake ==
  /\ worker = "wake"
  /\ worker' = "run" /\ wake' = TRUE
  /\ UNCHANGED <<table, sent, st, driver, changed, port, sync, stop, want, tried, windows>>

\* closeCables: the follower is told to end, and the Worker waits until it has.
CloseCables ==
  /\ worker = "run"
  /\ worker' = "join" /\ stop' = TRUE /\ wake' = TRUE
  /\ UNCHANGED <<table, sent, st, driver, changed, port, sync, want, tried, windows>>

Ended == sync = "off"

Joined ==
  /\ worker = "join" /\ Ended
  /\ worker' = "off"
  /\ UNCHANGED <<table, sent, st, driver, changed, port, follower, windows>>

-----------------------------------------------------------------------------
(***************************************************************************)
(* The follower's thread.                                                  *)
(***************************************************************************)
FaultyOrEnd(next) == next

\* Where the follower goes on, unless it shall end.
OrEnd(next) == IF stop THEN "off" ELSE next

\* It waits for its event, two seconds at most.
SyncWake ==
  /\ sync = "wait"
  /\ sync' = OrEnd("woken") /\ wake' = FALSE
  /\ UNCHANGED <<table, worker, sent, st, driver, changed, port, stop, want, tried, windows>>

\* It reads what the driver accepted, if it accepted a format yet.
SyncRate ==
  /\ sync = "woken"
  /\ want' = [want EXCEPT !.rate = st.rate]
  /\ sync' = "read"
  /\ UNCHANGED <<table, worker, sent, st, driver, changed, port, stop, wake, tried, windows>>

SyncChannels ==
  /\ sync = "read"
  /\ want' = [want EXCEPT !.channels = st.channels]
  /\ sync' = "set"
  /\ UNCHANGED <<table, worker, sent, st, driver, changed, port, stop, wake, tried, windows>>

\* An active endpoint of another format is set, but not to what was tried
\* less than ten seconds ago.
MaySet == events /\ want.rate # 0 /\ endpoint # want /\ tried # want

\* A cable offers one format, and says so of one that Windows proposes.
Offers(format) == format = driver
Proposed(format) == Offers(format)

\* Windows takes a format for an endpoint only if the driver, asked for it,
\* offers it, and may refuse that too.  It reopens the endpoint's streams.
SyncSet(taken) ==
  /\ sync = "set"
  /\ sync' = OrEnd("wait") /\ want' = NoFormat
  /\ \/ /\ ~MaySet /\ ~taken
        /\ UNCHANGED <<tried, endpoint, stream>>
     \/ /\ MaySet
        /\ taken => Proposed(want)
        /\ tried' = want
        /\ endpoint' = IF taken THEN want ELSE endpoint
        /\ stream' = IF taken THEN None ELSE stream
  /\ UNCHANGED <<table, worker, sent, st, driver, changed, port, stop, wake, told, opening>>

FaultyExpired == tried

\* What is tried less than kRetryMs ago, once they have passed.
Expired == None

Ages ==
  /\ tried # None
  /\ tried' = Expired
  /\ UNCHANGED <<table, worker, sent, st, driver, changed, port, sync, stop, wake, want, windows>>

-----------------------------------------------------------------------------
(***************************************************************************)
(* Windows and the driver's miniports.                                     *)
(***************************************************************************)

\* A wave miniport is registered, or removed once it has no stream.
PortInit ==
  /\ ~events /\ refs = 0
  /\ events' = TRUE /\ refs' = 1
  /\ UNCHANGED <<table, worker, sent, st, driver, changed, follower, windows>>

PortRemoved ==
  /\ events /\ stream = None /\ opening = None
  /\ events' = FALSE /\ refs' = refs - 1 /\ told' = FALSE
  /\ UNCHANGED <<table, worker, sent, st, driver, changed, follower, endpoint, stream, opening>>

\* NewStream: the format a stream opens in must be offered.  The lock is not
\* held until the stream is there.
NewStream ==
  /\ events /\ stream = None /\ opening = None
  /\ Offers(endpoint)
  /\ opening' = endpoint
  /\ UNCHANGED <<table, worker, sent, st, driver, changed, port, follower, told, endpoint, stream>>

StreamMade ==
  /\ opening # None
  /\ stream' = opening /\ opening' = None
  /\ UNCHANGED <<table, worker, sent, st, driver, changed, port, follower, told, endpoint>>

CloseStream ==
  /\ stream # None
  /\ stream' = None
  /\ UNCHANGED <<table, worker, sent, st, driver, changed, port, follower, told, endpoint, opening>>

\* Windows reads the formats of the pin anew and closes the stream.
HandleChange ==
  /\ told /\ opening = None
  /\ told' = FALSE /\ stream' = None
  /\ UNCHANGED <<table, worker, sent, st, driver, changed, port, follower, endpoint, opening>>

-----------------------------------------------------------------------------
Follower == SyncWake \/ SyncRate \/ SyncChannels \/ \E taken \in BOOLEAN : SyncSet(taken)
WorkerSteps == NotifyHold \/ NotifyTell \/ StoreRate \/ StoreChannels \/ Wake \/ Joined

Next ==
  \/ Save \/ OpenCables \/ Exchange \/ CloseCables \/ WorkerSteps
  \/ Follower \/ Ages
  \/ PortInit \/ PortRemoved \/ NewStream \/ StreamMade \/ CloseStream \/ HandleChange

Spec == Init /\ [][Next]_vars

\* Threads run and time passes; of what may be refused, an exchange or a
\* format, not every one is.
FairSpec ==
  /\ Spec
  /\ WF_vars(WorkerSteps) /\ WF_vars(Follower) /\ WF_vars(Ages) /\ WF_vars(Exchange)
  /\ SF_vars(SyncSet(TRUE))
  /\ WF_vars(StreamMade) /\ WF_vars(HandleChange)

-----------------------------------------------------------------------------
(***************************************************************************)
(* Properties.                                                             *)
(***************************************************************************)

\* No stream goes on in a format the cable no longer has: where one differs
\* Windows has been told, or is about to be, though NewStream looks at the
\* format and makes the stream in two steps.
NoStaleStream ==
  \A f \in {stream, opening} \ {None} :
    f # driver => told \/ worker = "telling" \/ (worker = "taken" /\ changed)

\* The port's events are there while the driver uses them without the lock.
EventsHeld == worker = "telling" => refs > 0

\* The follower runs only while the MasterHolder it reads from is open.
FollowerInHolder == sync # "off" => worker # "off"

\* The port holds one reference to its events, and whoever uses them another.
RefsCounted ==
  refs = (IF events THEN 1 ELSE 0) + (IF worker = "telling" THEN 1 ELSE 0)

\* Streams are a port's: it is not removed under one that is there or being made.
StreamsHavePort == stream # None \/ opening # None => events

\* The invariant of every step: types, the events, the streams and the follower.
IInv == TypeOK /\ RefsCounted /\ EventsHeld /\ StreamsHavePort /\ FollowerInHolder

\* While a Worker stays, what the table last asked for comes to the driver and,
\* where there is a follower, to the Windows endpoint, so that streams open again.
Steady == <>[](worker \notin {"off", "join"} /\ events) /\ <>[][UNCHANGED setting]_vars
Follows == Steady => <>[](driver = Sendable(setting) /\ (sync # "off" => endpoint = driver))

\* A Worker that closes its cables comes to an end.
CloseEnds == worker = "join" ~> worker = "off"

===============================================================================
