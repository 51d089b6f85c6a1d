---------------------------- MODULE BleTransport ----------------------------
(***************************************************************************)
(* The direct Bluetooth transport, IneproBleModbusClient of                *)
(* src/inepro_metering/ble.py: Modbus RTU frames written to one GATT       *)
(* characteristic, answers collected from the notifications of another,    *)
(* with a link opened on demand and pairing triggered on demand.           *)
(*                                                                         *)
(* The client of ModbusClient calls it with its lock held, so requests     *)
(* come one after the other; `pc` is the await the request is suspended    *)
(* in.  bleak, the radio and the meter are the environment.  A request is  *)
(* represented by its number and by what answers are recognised by, the    *)
(* slave and the function code of the frame.                               *)
(***************************************************************************)
EXTENDS Naturals, Sequences

CONSTANTS
  Links,       \* identities of BleakClient objects, reused once gone
  Keys,        \* (slave, function code) of a frame
  MaxRequests, \* bound: requests
  NoLink

ASSUME LinkAssumption == NoLink \notin Links
ASSUME BleBounds == MaxRequests \in Nat

Modes == {"never", "auto", "required"}
Errors == {"timeout", "trigger", "unsupported", "other"}
Requests == 1 .. MaxRequests
Answers == [link : Links, req : Requests, key : Keys, nth : 1 .. 2]

VARIABLES
  mode,       \* _pairing_mode
  pin,        \* a PIN or a PIN provider was given
  repair,     \* _force_repair and not _force_repair_attempted
  client,     \* _client
  notify,     \* _notify_started
  queue,      \* _notification_queue, as the answers it completes
  attempted,  \* _pairing_attempted
  agent,      \* a pairing agent of this client is registered with BlueZ
  up,         \* links that are connected
  subscribed, \* links whose notifications are delivered
  coming,     \* answers the meter may still send
  pc,         \* the await of the current request
  after,      \* where the request goes once the link is closed
  old,        \* the link being closed
  why,        \* what the session is opened or subscribed for
  attempt,    \* attempt of connect()
  retry,      \* the frame is being sent again
  gatt,       \* the request reads the Device Information service instead
  req,        \* number of the current or last request
  key,        \* its slave and function code
  sent,       \* times its frame was written
  arrived,    \* the meter has the frame being written
  result,     \* how the last request ended
  answered,   \* the request whose answer was returned last
  pairings,   \* history: times pairing was started on demand
  strays,     \* history: links on which a request was cancelled, or whose
              \* disconnection raised
  repeatedOn  \* history: links on which a frame was sent again

config == <<mode, pin, repair>>
object == <<config, client, notify, queue, attempted>>
radio == <<up, subscribed, coming>>
task == <<gatt, req, key, result, answered>>
call == <<after, old, why, attempt, retry, sent, arrived, task>>
history == <<pairings, strays, repeatedOn>>
bleVars == <<object, agent, radio, pc, call, history>>

PCs == {"idle", "open", "dial", "subscribe", "send", "answer", "pair",
        "gatt", "closing", "sleep"}
Outcomes == {"none", "ok", "cancelled", "not_paired", "pairing_failed",
             "no_information"} \cup Errors

BleTypeOK ==
  /\ mode \in Modes /\ pin \in BOOLEAN /\ repair \in BOOLEAN
  /\ client \in Links \cup {NoLink}
  /\ notify \in BOOLEAN /\ attempted \in BOOLEAN /\ agent \in BOOLEAN
  /\ queue \in Seq(Answers)
  /\ up \subseteq Links /\ subscribed \subseteq up
  /\ coming \subseteq Answers
  /\ pc \in PCs /\ after \in PCs
  /\ old \in Links \cup {NoLink}
  /\ why \in {"connect", "ensure", "plain", "pairing", "refresh"}
  /\ attempt \in 1 .. 2 /\ retry \in BOOLEAN /\ gatt \in BOOLEAN
  /\ req \in 0 .. MaxRequests /\ key \in Keys /\ sent \in 0 .. 2
  /\ arrived \in BOOLEAN
  /\ result \in Outcomes /\ answered \in 0 .. MaxRequests
  /\ pairings \in Nat /\ strays \subseteq Links /\ repeatedOn \subseteq Links

BleInit ==
  /\ mode \in Modes /\ pin \in BOOLEAN /\ repair \in BOOLEAN
  /\ client = NoLink /\ notify = FALSE /\ queue = <<>>
  /\ attempted = FALSE /\ agent = FALSE
  /\ up = {} /\ subscribed = {} /\ coming = {}
  /\ pc = "idle" /\ after = "idle" /\ old = NoLink
  /\ why = "connect" /\ attempt = 1 /\ retry = FALSE /\ gatt = FALSE
  /\ req = 0 /\ key \in Keys /\ sent = 0 /\ arrived = FALSE
  /\ result = "none" /\ answered = 0
  /\ pairings = 0 /\ strays = {} /\ repeatedOn = {}

connected == client \in up

\* What a request kept for itself is gone once it ends.
Over ==
  /\ why' = "connect" /\ attempt' = 1
  /\ retry' = FALSE /\ gatt' = FALSE
  /\ sent' = 0 /\ arrived' = FALSE

\* Nothing is heard any more on link l.
Mute(l) ==
  /\ subscribed' = subscribed \ {l}
  /\ coming' = {a \in coming : a.link # l}

\* Link l is down.
Hush(l) ==
  /\ up' = up \ {l}
  /\ Mute(l)

-----------------------------------------------------------------------------
(* Closing a session: _reset_client *)

\* The client and its notifications are forgotten first; a live link is then
\* unsubscribed and disconnected.
Reset(next) ==
  /\ client' = NoLink
  /\ notify' = FALSE
  /\ queue' = <<>>
  /\ old' = IF connected THEN client ELSE NoLink
  /\ after' = next
  /\ pc' = IF connected THEN "closing" ELSE next

\* Both calls returned or raised.  A disconnection that raised is logged only:
\* its link may still be up, with its notifications.
Closed ==
  /\ pc = "closing"
  /\ \/ Hush(old) /\ UNCHANGED strays
     \/ /\ old \in up
        /\ strays' = strays \cup {old}
        /\ UNCHANGED up
        /\ \/ UNCHANGED <<subscribed, coming>>
           \/ Mute(old)
  /\ pc' = after
  /\ old' = NoLink
  /\ UNCHANGED <<object, agent, after, why, attempt, retry, sent, arrived, task,
                 pairings, repeatedOn>>

\* Wrong on purpose: the error is reported and the link kept.
FailKeepingLink(outcome) ==
  /\ pc' = "idle"
  /\ result' = outcome
  /\ agent' = FALSE
  /\ Over
  /\ UNCHANGED <<object, radio, after, old, req, key, answered, history>>

\* async_transceive_frame: any Exception closes the link on its way out.
Fail(outcome) ==
  /\ Reset("idle")
  /\ result' = outcome
  /\ agent' = FALSE
  /\ Over
  /\ UNCHANGED <<config, attempted, radio, req, key, answered, history>>

\* async_close, with no request running.
Close ==
  /\ pc = "idle"
  /\ client # NoLink
  /\ Reset("idle")
  /\ UNCHANGED <<config, attempted, agent, radio, why, attempt, retry, sent, arrived,
                 task, history>>

-----------------------------------------------------------------------------
(* Opening a session: connect and _connect_once *)

\* _connect_once begins by dropping whatever session there was.
OpenSession(purpose, nth) ==
  /\ Reset("open")
  /\ why' = purpose
  /\ attempt' = nth

\* pair=True of _connect_once.
Pairing == \/ why = "pairing"
           \/ why = "connect" /\ mode = "required"

\* Wrong on purpose: notifications that came in between are kept.
ToSendUncleared(again) ==
  /\ pc' = "send"
  /\ UNCHANGED queue
  /\ retry' = again
  /\ arrived' = FALSE
  /\ agent' = (~again /\ mode = "auto" /\ ~attempted /\ pin)

\* The frame is about to be written: stale notifications are discarded.  In
\* auto mode the first transactions keep an agent for the meter's PIN request.
ToSend(again) ==
  /\ pc' = "send"
  /\ queue' = <<>>
  /\ retry' = again
  /\ arrived' = FALSE
  /\ agent' = (~again /\ mode = "auto" /\ ~attempted /\ pin)

\* The session is there: the Device Information is read, or the frame written.
Ready(info, again) ==
  \/ /\ info
     /\ pc' = "gatt" /\ agent' = FALSE
     /\ UNCHANGED <<queue, retry, arrived>>
  \/ ~info /\ ToSend(again)

\* A request begins: it uses the session, subscribes to the notifications
\* first when they are off, or opens a session first.
Begin(k, info) ==
  /\ pc = "idle"
  /\ req < MaxRequests
  /\ req' = req + 1
  /\ key' = k
  /\ gatt' = info
  /\ sent' = 0
  /\ result' = "none"
  /\ \/ /\ connected /\ (notify \/ info)
        /\ Ready(info, FALSE)
        /\ UNCHANGED <<client, notify, old, after, why, attempt>>
     \/ /\ connected /\ ~notify /\ ~info
        /\ pc' = "subscribe" /\ why' = "ensure" /\ retry' = FALSE
        /\ UNCHANGED <<client, notify, queue, agent, old, after, attempt, arrived>>
     \/ /\ ~connected
        /\ OpenSession("connect", 1)
        /\ retry' = FALSE
        /\ UNCHANGED <<agent, arrived>>
  /\ UNCHANGED <<config, attempted, radio, answered, history>>

\* The target is known; a bond to be repaired is removed, once; a session
\* with pairing is dialled with the agent registered.
Resolve ==
  /\ pc = "open"
  /\ repair' = FALSE
  /\ agent' = (Pairing /\ pin)
  /\ pc' = "dial"
  /\ UNCHANGED <<mode, pin, attempted, client, notify, queue, radio, call,
                 history>>

DialOk ==
  /\ pc = "dial"
  /\ Links # up
  /\ LET l == CHOOSE l \in Links : l \notin up IN
       /\ client' = l
       /\ up' = up \cup {l}
       /\ strays' = strays \ {l}
       /\ repeatedOn' = repeatedOn \ {l}
  /\ agent' = FALSE
  /\ pc' = "subscribe"
  /\ UNCHANGED <<config, attempted, notify, queue, subscribed, coming, call,
                 pairings>>

\* Wrong on purpose: connect tries until it succeeds.
SessionFailsForEver(e) ==
  /\ e \in Errors
  /\ Reset("sleep")
  /\ agent' = FALSE
  /\ why' = "connect"
  /\ UNCHANGED <<config, attempted, radio, attempt, retry, sent, arrived, task,
                 history>>

\* _connect_once failed: connect() tries once more after a pause; a plain
\* reconnect, or fresh notifications, that fail after pairing are followed by
\* a reconnect with pairing; otherwise the request ends.
SessionFails(e) ==
  \/ /\ why = "connect" /\ attempt = 1
     /\ Reset("sleep")
     /\ agent' = FALSE
     /\ UNCHANGED <<config, attempted, radio, why, attempt, retry, sent, arrived, task,
                 history>>
  \/ /\ why \in {"plain", "refresh"}
     /\ OpenSession("pairing", attempt)
     /\ agent' = FALSE
     /\ UNCHANGED <<config, attempted, radio, retry, sent, arrived, task,
                 history>>
  \/ /\ why = "ensure" \/ (why = "connect" /\ attempt = 2 /\ ~Pairing)
     /\ Fail(e)
  \/ /\ why = "pairing" \/ (why = "connect" /\ attempt = 2 /\ Pairing)
     /\ Fail(IF e = "unsupported" THEN e ELSE "pairing_failed")

\* No connectable device, no agent, no link, missing characteristics, or no
\* notifications.
OpenFails == pc \in {"open", "dial", "subscribe"} /\ \E e \in Errors : SessionFails(e)

SleepEnds ==
  /\ pc = "sleep"
  /\ OpenSession("connect", 2)
  /\ UNCHANGED <<config, attempted, agent, radio, retry, sent, arrived, task,
                 history>>

\* _ensure_notify_subscription succeeded.
Subscribed ==
  /\ pc = "subscribe"
  /\ connected
  /\ notify' = TRUE
  /\ subscribed' = subscribed \cup {client}
  /\ Ready(gatt, why \in {"plain", "pairing", "refresh"})
  /\ UNCHANGED <<config, attempted, client, up, coming, after, old, why,
                 attempt, sent, task,
                 history>>

-----------------------------------------------------------------------------
(* The transaction: _async_transceive_frame_locked *)

Answer == [link |-> client, req |-> req, key |-> key, nth |-> sent + 1]

\* The meter gets the frame and will answer it.
FrameArrives ==
  /\ pc = "send" /\ ~arrived
  /\ connected
  /\ arrived' = TRUE
  /\ sent' = sent + 1
  /\ coming' = coming \cup {Answer}
  /\ UNCHANGED <<object, agent, up, subscribed, pc, after, old, why, attempt,
                 retry, task, history>>

\* write_gatt_char, with response, returned.
WriteOk ==
  /\ pc = "send" /\ arrived
  /\ pc' = "answer"
  /\ UNCHANGED <<object, agent, radio, call, history>>

\* _should_attempt_pairing
ShouldPair(e) == mode = "auto" /\ ~attempted /\ e \in {"timeout", "trigger"}

\* The first transaction of a frame failed: pair once and send it again.
StartPairing ==
  /\ attempted' = TRUE
  /\ retry' = TRUE
  /\ pairings' = pairings + 1
  /\ \/ /\ connected
        /\ pc' = "pair" /\ agent' = pin
        /\ UNCHANGED <<client, notify, queue, old, after, why, attempt>>
     \/ /\ ~connected
        /\ OpenSession("pairing", attempt)
        /\ agent' = FALSE
  /\ UNCHANGED <<config, radio, sent, arrived, task, strays, repeatedOn>>

\* Without pairing, or when the retry fails too, the error is classified.
Raised(e) ==
  IF retry THEN IF e = "trigger" THEN "pairing_failed" ELSE e
  ELSE IF mode = "never" /\ e = "trigger" THEN "not_paired" ELSE e

FrameFails(e) ==
  \/ ~retry /\ ShouldPair(e) /\ StartPairing
  \/ (retry \/ ~ShouldPair(e)) /\ Fail(Raised(e))

\* The write raised, whether or not the meter got the frame; a frame that is
\* too large for the characteristic is one of the other errors.
WriteFails ==
  /\ pc = "send"
  /\ \E e \in Errors \ {"timeout"} : FrameFails(e)

\* _handle_notification: an answer arrives and is queued for whoever waits.
Notified(a) ==
  /\ a \in coming
  /\ a.link \in subscribed
  /\ coming' = coming \ {a}
  /\ queue' = Append(queue, a)
  /\ UNCHANGED <<config, client, notify, attempted, agent, up, subscribed, pc,
                 call, history>>

\* _await_matching_response takes the first chunks; what does not complete an
\* answer to this slave and function is skipped.
TakeAnswer ==
  /\ pc = "answer"
  /\ queue # <<>>
  /\ queue' = Tail(queue)
  /\ \/ /\ Head(queue).key = key
        /\ pc' = "idle" /\ result' = "ok" /\ answered' = Head(queue).req
        /\ agent' = FALSE
        /\ Over
     \/ /\ Head(queue).key # key
        /\ UNCHANGED <<pc, agent, why, attempt, retry, gatt, sent, arrived, result,
                       answered>>
  /\ UNCHANGED <<config, client, notify, attempted, radio, after, old,
                 req, key, history>>

\* The deadline passes.
AnswerTimesOut ==
  /\ pc = "answer"
  /\ FrameFails("timeout")

-----------------------------------------------------------------------------
(* Pairing on demand: _pair_current_device_for_retry *)

\* pair() returned: the session is kept with fresh notifications, or opened
\* again when pairing closed it.
PairOk ==
  /\ pc = "pair"
  /\ agent' = FALSE
  /\ \/ /\ connected
        /\ notify' = FALSE
        /\ subscribed' = subscribed \ {client}
        /\ pc' = "subscribe" /\ why' = "refresh"
        /\ repeatedOn' = repeatedOn \cup {client}
        /\ UNCHANGED <<client, queue, old, after, attempt>>
     \/ /\ ~connected
        /\ OpenSession("plain", attempt)
        /\ UNCHANGED <<subscribed, repeatedOn>>
  /\ UNCHANGED <<config, attempted, up, coming, retry, sent, arrived, task,
                 pairings, strays>>

\* pair() is missing, raised or timed out: reconnect with pairing enabled.
PairFails ==
  /\ pc = "pair"
  /\ agent' = FALSE
  /\ OpenSession("pairing", attempt)
  /\ UNCHANGED <<config, attempted, radio, retry, sent, arrived, task, history>>

-----------------------------------------------------------------------------
(* read_gatt_device_information *)

GattOk ==
  /\ pc = "gatt"
  /\ pc' = "idle"
  /\ result' = "ok"
  /\ Over
  /\ UNCHANGED <<object, agent, radio, after, old, req, key, answered, history>>

\* The service is missing, or no characteristic of it gave a value: the client
\* above raises that as a failed read and keeps the session.
GattFails ==
  /\ pc = "gatt"
  /\ pc' = "idle"
  /\ result' = "no_information"
  /\ Over
  /\ UNCHANGED <<object, agent, radio, after, old, req, key, answered, history>>

\* On any other exception the client above closes the transport.
GattRaises == pc = "gatt" /\ Fail("other")

-----------------------------------------------------------------------------
(* The environment *)

LinkLost(l) ==
  /\ l \in up
  /\ Hush(l)
  /\ UNCHANGED <<object, agent, pc, call, history>>

\* asyncio cancels the task.  CancelledError is no Exception: nothing is
\* closed, only the pairing agent's context is left.  A frame, a subscription
\* or a disconnection under way may or may not take place.
Cancel ==
  /\ pc # "idle"
  /\ pc' = "idle"
  /\ result' = "cancelled"
  /\ agent' = FALSE
  /\ LET at == IF pc = "closing" THEN old ELSE client IN
     /\ strays' = strays \cup ({at} \cap Links)
     /\ \/ UNCHANGED radio
        \/ pc = "closing" /\ Hush(at)
        \/ pc = "closing" /\ Mute(at) /\ UNCHANGED up
        \/ /\ pc = "subscribe" /\ connected
           /\ subscribed' = subscribed \cup {at}
           /\ UNCHANGED <<up, coming>>
  /\ Over
  /\ UNCHANGED <<object, after, old, req, key, answered, pairings, repeatedOn>>

-----------------------------------------------------------------------------

Step ==
  \/ Closed \/ Resolve \/ DialOk \/ OpenFails \/ SleepEnds \/ Subscribed
  \/ WriteOk \/ WriteFails \/ TakeAnswer \/ AnswerTimesOut
  \/ PairOk \/ PairFails \/ GattOk \/ GattFails \/ GattRaises

Radio == \/ FrameArrives
         \/ \E a \in coming : Notified(a)
         \/ \E l \in Links : LinkLost(l)

Caller == \/ Close \/ Cancel
          \/ \E k \in Keys, info \in BOOLEAN : Begin(k, info)

BleNext == Step \/ Radio \/ Caller

BleSpec == BleInit /\ [][BleNext]_bleVars

-----------------------------------------------------------------------------
(* Properties *)

\* "Write one RTU frame and wait for the matching notification response"
\* (async_transceive_frame): what a request returns is the meter's answer to
\* that request, unless the session outlived a cancelled request, or a session
\* that could not be disconnected is still heard.
AnswerBelongsToRequest ==
  [][pc = "answer" /\ result' = "ok" /\ strays = {} => answered' = req]_bleVars

\* The same in a session whose first frame was not sent twice: timeouts, late
\* answers, reconnects and pairing with a reconnect never deliver the answer to
\* another request.
AnswerIsOwnInFreshSession ==
  [][pc = "answer" /\ result' = "ok" /\ strays \cup repeatedOn = {}
       => answered' = req]_bleVars

\* A frame that may be a write is sent again only after pairing was started
\* for it; one client object starts pairing on demand at most once, and never
\* outside auto mode.
RepeatedOnlyForPairing ==
  /\ pairings <= IF mode = "auto" THEN 1 ELSE 0
  /\ sent = 2 => retry /\ pairings = 1

\* No agent outlives a request.  Whatever link is open between requests is the
\* one the next request uses, and after a request that failed there is none: but
\* for the session that gave no Device Information, which is kept, and for links
\* of cancelled requests or failed disconnections.
NothingLeftBehind ==
  pc = "idle" =>
    /\ ~agent
    /\ up \subseteq {client} \cup strays
    /\ result \notin {"none", "ok", "cancelled", "no_information"} =>
         client = NoLink /\ up \subseteq strays

\* Every request ends, whatever the radio does.
RequestEnds == (pc # "idle") ~> (pc = "idle")

BleInv == BleTypeOK /\ RepeatedOnlyForPairing /\ NothingLeftBehind
=============================================================================
