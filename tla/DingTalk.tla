------------------------------ MODULE DingTalk ------------------------------
(***************************************************************************)
(* The DingTalk channel (connectors/channels/dingtalk): the adapter's      *)
(* start and stop, the supervisor that keeps the stream connected, the     *)
(* guard against redeliveries, and the replies posted in segments.         *)
(*                                                                         *)
(* One adapter from its start to its end; an adapter cannot be started a   *)
(* second time.  The stream SDK, DingTalk and the message handler are      *)
(* external: a connect() that nobody waits for any more can still succeed, *)
(* the link can go down with or without the client noticing, messages are  *)
(* redelivered, a handler ends when it likes.  An adapter that was asked   *)
(* to stop while its SDK was still loading goes on starting, connects and  *)
(* says that it runs.                                                      *)
(*                                                                         *)
(* Time passes in Ticks of a watchdog interval.  Ages and remaining times  *)
(* saturate at the limits the code compares them with, so time itself is   *)
(* not bounded.                                                            *)
(***************************************************************************)
EXTENDS Naturals, FiniteSets, Sequences, SequencesExt, FiniteSetsExt

CONSTANTS Messages,        \* message -> [key, usable, webhook, text]: an envelope
          MaxDeliveries,   \* bound: deliveries of envelopes
          Ttl, MaxEntries, \* the dedupe cache's
          StaleAfter, WakeDrift,  \* the watchdog's limits, in intervals
          ReconnectAttempts,
          MaxLength,       \* characters of a segment
          Newline          \* the character "\n"

Characters == UNION {Range(Messages[m].text) : m \in DOMAIN Messages}

\* The cache and the splitter refuse a limit that is not a positive integer.
ASSUME DingAssumption ==
  /\ Ttl \in Nat \ {0} /\ MaxEntries \in Nat \ {0} /\ MaxLength \in Nat \ {0}
  /\ \A m \in DOMAIN Messages : Messages[m].text \in Seq(Characters)

VARIABLES ch,        \* the adapter: state, where start() is, and, a history,
                     \* what the last stop() to do anything met: start()
                     \* "loading" the SDK, or anything else
          sup,       \* the stream supervisor
          client,    \* the SDK client: link, and connect() calls nobody awaits
          dedupe,    \* entries of the cache, oldest first
          handling,  \* messages whose handler is running, with its reply
          targets,   \* keys of messages that can be replied to
          count,     \* bound: deliveries so far
          since      \* history: per key, what happened since it was handled

dingVars == <<ch, sup, client, dedupe, handling, targets, count, since>>

-----------------------------------------------------------------------------
(* splitDingTalkText: by length, but after a newline in the latter half.   *)

SegmentEnd(text, start) ==
  LET end == IF start + MaxLength < Len(text) THEN start + MaxLength ELSE Len(text)
      breaks == {k \in (start + MaxLength \div 2) + 1 .. end : text[k] = Newline}
  IN IF end < Len(text) /\ breaks # {} THEN Max(breaks) ELSE end

SplitDingTalkText(text) ==
  LET Cut[start \in 0 .. Len(text)] ==
        IF start = Len(text) THEN <<>>
        ELSE <<SubSeq(text, start + 1, SegmentEnd(text, start))>> \o Cut[SegmentEnd(text, start)]
  IN IF Len(text) <= MaxLength THEN <<text>> ELSE Cut[0]

-----------------------------------------------------------------------------
(* createDingTalkDedupeCache. *)

(* pruneExpired stops at the first entry that has not expired. *)
PruneExpired(es) ==
  LET live == {k \in DOMAIN es : es[k].left > 0} IN
  IF live = {} THEN <<>> ELSE SubSeq(es, Min(live), Len(es))

\* The variant lets an entry expire one tick early.
ClaimedTooShort(key) == \E k \in DOMAIN dedupe : dedupe[k].key = key /\ dedupe[k].left > 1

Claimed(key) == \E k \in DOMAIN dedupe : dedupe[k].key = key /\ dedupe[k].left > 0

(* The claimed key moves to the end, and the oldest keys make room for it. *)
Claim(key) ==
  LET kept == PruneExpired(dedupe)
      held == {k \in DOMAIN kept : kept[k].key = key}
      others == IF held = {} THEN kept ELSE RemoveAt(kept, Max(held))
      es == Append(others, [key |-> key, left |-> Ttl])
  IN SubSeq(es, (IF Len(es) > MaxEntries THEN Len(es) - MaxEntries ELSE 0) + 1, Len(es))

Keys == {Messages[m].key : m \in DOMAIN Messages}

-----------------------------------------------------------------------------
DingInit ==
  /\ ch = [state |-> "idle", start |-> "none", stop |-> "none"]
  /\ sup = [st |-> "none", timer |-> FALSE, connect |-> "none", rec |-> 0, idle |-> 0, drift |-> 0]
  /\ client = [link |-> "down", late |-> FALSE, via |-> "none"]
  /\ dedupe = <<>> /\ handling = <<>> /\ targets = {} /\ count = 0
  /\ since = [k \in Keys |-> [age |-> Ttl, others |-> {}, cleared |-> FALSE]]

Untouched == UNCHANGED <<dedupe, handling, targets, count, since>>

Connected == client.link # "down"
Down == [client EXCEPT !.link = "down"]

(* start(): refused unless idle; loads the SDK. *)
StartChannel ==
  /\ ch.state = "idle"
  /\ ch' = [ch EXCEPT !.state = "starting", !.start = "loading"]
  /\ UNCHANGED <<sup, client>> /\ Untouched

(* The listener's registration and supervisor.start(). *)
SdkLoaded ==
  /\ ch.start = "loading"
  /\ ch' = [ch EXCEPT !.start = "connecting"]
  /\ sup' = [sup EXCEPT !.st = "live", !.connect = "start"]
  /\ UNCHANGED client /\ Untouched

(* createClient: no SDK, no credentials or no client to construct. *)
ClientUnavailable ==
  /\ ch.start = "loading"
  /\ ch' = [ch EXCEPT !.state = "failed", !.start = "none"]
  /\ UNCHANGED <<sup, client>> /\ Untouched

(* The connect() that is awaited did not lead to a connection: start()     *)
(* stops the supervisor, the reconnect loop disconnects and counts.        *)
ConnectFailed(c) ==
  IF sup.connect = "start"
    THEN /\ ch' = [ch EXCEPT !.state = "failed", !.start = "none"]
         /\ sup' = [sup EXCEPT !.st = "stopped", !.timer = FALSE, !.connect = "none"]
         /\ client' = [c EXCEPT !.link = "down"]
    ELSE /\ sup' = IF sup.rec < ReconnectAttempts
                     THEN [sup EXCEPT !.connect = "backoff"]
                     ELSE [sup EXCEPT !.connect = "none", !.rec = 0]
         /\ client' = [c EXCEPT !.link = "down"]
         /\ UNCHANGED ch

\* The variant does not look whether it was stopped meanwhile.
ConnectNotSuperseded ==
  /\ client' = [client EXCEPT !.link = "up", !.via = "awaited"]
  /\ sup' = [sup EXCEPT !.timer = TRUE, !.connect = "none", !.rec = 0, !.idle = 0, !.drift = 0]
  /\ ch' = IF sup.connect = "start" THEN [ch EXCEPT !.state = "running", !.start = "none"] ELSE ch

(* connectOnce: a stop that came in the meantime supersedes the connection. *)
ConnectResolved ==
  IF sup.st = "stopped" THEN ConnectFailed(client)
  ELSE /\ client' = [client EXCEPT !.link = "up", !.via = "awaited"]
       /\ sup' = [sup EXCEPT !.timer = TRUE, !.connect = "none", !.rec = 0, !.idle = 0, !.drift = 0]
       /\ ch' = IF sup.connect = "start" THEN [ch EXCEPT !.state = "running", !.start = "none"] ELSE ch

ConnectSucceeds ==
  /\ sup.connect \in {"start", "reconnect"}
  /\ ConnectResolved /\ Untouched

(* connect() rejects, or resolves without the client being connected. *)
ConnectRejects ==
  /\ sup.connect \in {"start", "reconnect"}
  /\ ConnectFailed(client) /\ Untouched

(* withTimeout: the caller gives up, the connect() goes on. *)
ConnectTimesOut ==
  /\ sup.connect \in {"start", "reconnect"}
  /\ ConnectFailed([client EXCEPT !.late = TRUE]) /\ Untouched

LateConnect ==
  /\ client.late
  /\ client' = [client EXCEPT !.late = FALSE, !.link = "up",
                              !.via = IF Connected THEN @ ELSE "late"]
  /\ UNCHANGED <<ch, sup>> /\ Untouched

(* The reconnect loop after its backoff. *)
BackoffEnds ==
  /\ sup.connect = "backoff"
  /\ sup' = IF sup.st = "stopped" THEN [sup EXCEPT !.connect = "none", !.rec = 0]
            ELSE [sup EXCEPT !.connect = "reconnect", !.rec = @ + 1]
  /\ UNCHANGED <<ch, client>> /\ Untouched

\* The variant does not notice a link that has gone silent.
NeedsReconnectIfDisconnected == ~Connected \/ sup.drift > WakeDrift

(* watchdogTick, and forceReconnect when the client is disconnected, the   *)
(* process slept, or nothing was heard for too long.                       *)
NeedsReconnect == ~Connected \/ sup.drift > WakeDrift \/ sup.idle > StaleAfter

WatchdogTick ==
  /\ sup.timer /\ sup.rec = 0
  /\ IF NeedsReconnect
       THEN /\ sup' = [sup EXCEPT !.drift = 0, !.rec = 1, !.connect = "reconnect"]
            /\ client' = Down
       ELSE sup' = [sup EXCEPT !.drift = 0] /\ UNCHANGED client
  /\ UNCHANGED ch /\ Untouched

(* stop(): the handlers that run are not waited for, and while the SDK is  *)
(* being loaded there is no supervisor to stop.                            *)
StopChannel ==
  /\ ch.state # "stopped"
  /\ ch' = [ch EXCEPT !.state = "stopped",
                      !.stop = IF ch.start = "loading" THEN "loading" ELSE "done"]
  /\ IF sup.st = "none" THEN UNCHANGED <<sup, client>>
     ELSE /\ sup' = [sup EXCEPT !.st = "stopped", !.timer = FALSE]
          /\ client' = IF sup.st = "live" THEN Down ELSE client
  /\ dedupe' = <<>> /\ targets' = {}
  /\ since' = [k \in Keys |-> [since[k] EXCEPT !.cleared = TRUE]]
  /\ UNCHANGED <<handling, count>>

-----------------------------------------------------------------------------
(* Messages and replies. *)

MarkAlive == IF sup.st = "live" THEN [sup EXCEPT !.idle = 0] ELSE sup

(* The listener: acknowledge, mark alive, normalize, claim, and hand over. *)
Deliver(m) ==
  LET key == Messages[m].key IN
  /\ client.link = "up" /\ count < MaxDeliveries
  /\ count' = count + 1
  /\ sup' = MarkAlive
  /\ IF ch.state \notin {"running", "starting"} \/ ~Messages[m].usable \/ Claimed(key)
       THEN UNCHANGED <<dedupe, handling, targets, since>>
       ELSE /\ dedupe' = Claim(key)
            /\ handling' = Append(handling, [msg |-> m, reply |-> "none", posted |-> <<>>])
            /\ targets' = targets \cup {key}
            /\ since' = [k \in Keys |->
                 IF k = key THEN [age |-> 0, others |-> {}, cleared |-> FALSE]
                 ELSE [since[k] EXCEPT !.others = @ \cup {key}]]
  /\ UNCHANGED <<ch, client>>

Heartbeat ==
  /\ client.link = "up"
  /\ sup' = MarkAlive
  /\ UNCHANGED <<ch, client>> /\ Untouched

HandlerSet(h) ==
  /\ handling' = h
  /\ UNCHANGED <<ch, sup, client, dedupe, count, since>>

(* parseDingTalkWebhookUrl: https, a DingTalk host, the default port, no   *)
(* user information, no fragment; else the message has no replier.         *)
WebhookAllowed(w) ==
  w.https /\ w.host \in {"oapi.dingtalk.com", "api.dingtalk.com"} /\ w.port = 443 /\ w.bare

(* DingTalkChannel.reply: no target after stop() or after another handler  *)
(* of the same message ended, and an empty answer is not sent.             *)
BeginReply(k) ==
  LET m == Messages[handling[k].msg] IN
  /\ handling[k].reply = "none" /\ m.text # <<>>
  /\ HandlerSet([handling EXCEPT ![k].reply =
       IF m.key \in targets /\ WebhookAllowed(m.webhook) THEN "posting" ELSE "unavailable"])
  /\ UNCHANGED targets

(* postDingTalkWebhook: confirmed by a 2xx; refused by another answer, a   *)
(* redirect or no connection; or timed out, and it may have arrived.       *)
PostOutcomes == {[arrives |-> TRUE, ok |-> TRUE], [arrives |-> FALSE, ok |-> FALSE],
                 [arrives |-> TRUE, ok |-> FALSE]}

(* sendSegments posts the next segment; the first failure ends the reply. *)
PostSegment(k) ==
  LET segments == SplitDingTalkText(Messages[handling[k].msg].text)
      next == Append(handling[k].posted, segments[Len(handling[k].posted) + 1])
  IN
  /\ handling[k].reply = "posting"
  /\ \E o \in PostOutcomes :
       HandlerSet([handling EXCEPT
         ![k].posted = IF o.arrives THEN next ELSE @,
         ![k].reply = IF ~o.ok THEN "failed"
                      ELSE IF Len(next) = Len(segments) THEN "sent" ELSE "posting"])
  /\ UNCHANGED targets

(* The handler returns or throws, and its target is deleted. *)
HandlerEnds(k) ==
  /\ handling[k].reply # "posting"
  /\ HandlerSet(RemoveAt(handling, k))
  /\ targets' = targets \ {Messages[handling[k].msg].key}

-----------------------------------------------------------------------------
(* The world. *)

LinkBreaks ==
  /\ client.link = "up"
  /\ client' \in {Down, [client EXCEPT !.link = "half"]}
  /\ UNCHANGED <<ch, sup>> /\ Untouched

AtMost(n, limit) == IF n < limit THEN n + 1 ELSE limit

(* Time passes; more than one interval between two ticks is drift. *)
RetentionTick ==
  /\ sup' = [sup EXCEPT !.idle = AtMost(@, StaleAfter + 1), !.drift = AtMost(@, WakeDrift + 1)]
  /\ dedupe' = [k \in DOMAIN dedupe |-> [dedupe[k] EXCEPT !.left = IF @ = 0 THEN 0 ELSE @ - 1]]
  /\ since' = [k \in Keys |-> [since[k] EXCEPT !.age = AtMost(@, Ttl)]]
  /\ UNCHANGED <<ch, client, handling, targets, count>>

Connecting ==
  \/ StartChannel \/ SdkLoaded \/ ClientUnavailable \/ StopChannel
  \/ ConnectSucceeds \/ ConnectRejects \/ ConnectTimesOut \/ LateConnect
  \/ BackoffEnds \/ WatchdogTick

DingNext ==
  \/ Connecting \/ Heartbeat \/ LinkBreaks \/ RetentionTick
  \/ \E m \in DOMAIN Messages : Deliver(m)
  \/ \E k \in DOMAIN handling : BeginReply(k) \/ PostSegment(k) \/ HandlerEnds(k)

(* Timers fire and time passes.  The network may refuse a connection for   *)
(* as long as it likes, but not for ever.                                  *)
DingFairness ==
  /\ WF_dingVars(WatchdogTick) /\ WF_dingVars(BackoffEnds) /\ WF_dingVars(RetentionTick)
  /\ WF_dingVars(ConnectTimesOut) /\ SF_dingVars(ConnectSucceeds)

DingSpec == DingInit /\ [][DingNext]_dingVars /\ DingFairness

-----------------------------------------------------------------------------
(* Properties. *)

(* A redelivery is handled a second time only after the time to live of    *)
(* the first, after so many other messages that the cache had to forget    *)
(* it, or after a stop: however deliveries, expiry and eviction interleave.*)
HandledOnce ==
  [][Len(handling') > Len(handling) =>
       LET h == since[Messages[Last(handling').msg].key] IN
       h.age >= Ttl \/ Cardinality(h.others) >= MaxEntries \/ h.cleared]_dingVars

(* A reply that reports success arrived whole and in order, and one that   *)
(* failed half-way is a prefix of it; no segment is empty or too long.     *)
RepliesWhole ==
  \A k \in DOMAIN handling :
    LET text == Messages[handling[k].msg].text
        sent == FlattenSeq(handling[k].posted) IN
    /\ IsPrefix(sent, text)
    /\ handling[k].reply = "sent" => sent = text
    /\ \A s \in Range(handling[k].posted) : 0 < Len(s) /\ Len(s) <= MaxLength

(* After a stop no connection is left, whatever was under way when it came *)
(* -- reconnects, the watchdog, an awaited connect() -- with two           *)
(* exceptions: a connect() that had been given up succeeds later, and a    *)
(* start() that was loading its SDK goes on (index.ts:277-281, 346-354).   *)
(* That one ends "running", so that a second stop() takes it down.         *)
StopDisconnects ==
  ch.stop # "none" /\ Connected =>
    \/ client.via = "late"
    \/ ch.stop = "loading" /\ sup.st = "live" /\ ch.state = "running"

(* A stream that went down or fell silent comes back, unless the channel   *)
(* is stopped, also after every attempt of a reconnect failed.             *)
StreamRecovers == []<>(client.link = "up" \/ ~sup.timer)

(* A message is answered once, whole and in order: redeliveries, partial   *)
(* sends and stops (message.ts, reply.ts) included.                        *)
RepliedOnce == HandledOnce /\ []RepliesWhole
=============================================================================
