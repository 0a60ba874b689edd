---------------------------- MODULE PriorityWriter ----------------------------
(***************************************************************************)
(* The task that writes to a language server's stdin                       *)
(* (lsp-core/src/transport/stdio.rs, priority_writer_loop): two bounded    *)
(* channels in, three queues by priority, the demotion of a Normal frame   *)
(* that waited 50 ms, and the token bucket of the Background frames.       *)
(*                                                                         *)
(* A step of the writer is what it does between two awaits: a frame is     *)
(* written by the step that takes it from its queue.                       *)
(***************************************************************************)
EXTENDS Naturals, SequencesExt

CONSTANTS
    High, Normal, Background,   \* the frames of each priority, each sent once
    Replies,                    \* answers to requests of the server
    OutboundCap,                \* capacity of the outbound channel (64)
    ReplyCap,                   \* capacity of the reply channel (8)
    Burst                       \* capacity of the token bucket (60)

ASSUME WriterAssumption ==
    /\ High \cap Normal = {} /\ High \cap Background = {} /\ Normal \cap Background = {}
    /\ OutboundCap \in Nat \ {0} /\ ReplyCap \in Nat \ {0} /\ Burst \in Nat \ {0}

Frames == High \cup Normal \cup Background

\* The writer has returned: its channel was closed, or the server has gone.
Ended == {"done", "failed"}

VARIABLES
    pc,             \* the writer's place in its loop
    outbound,       \* the outbound channel
    closed,         \* every sender of it is gone
    outClosed,      \* out_closed: the writer has met the end of the channel
    replies,        \* the reply channel
    high, normal, bg,
    since,          \* first_normal_at: none, less than 50 ms ago, or more
    tokens,
    sent,           \* history: the frames accepted by the channel, in order
    written,        \* history: the frames written
    unsent          \* the frames and replies that nobody has sent yet

queues == <<high, normal, bg, since>>
history == <<sent, written>>
vars == <<pc, outbound, closed, outClosed, replies, queues, tokens, history, unsent>>

TypeOK ==
    /\ pc \in {"select", "drain", "drainReply", "reply", "inner", "sleep"} \cup Ended
    /\ outbound \in Seq(Frames) /\ Len(outbound) <= OutboundCap
    /\ closed \in BOOLEAN /\ outClosed \in BOOLEAN
    /\ replies \in Seq(Replies) /\ Len(replies) <= ReplyCap
    /\ high \in Seq(High) /\ normal \in Seq(Normal) /\ bg \in Seq(Normal \cup Background)
    /\ since \in {"none", "fresh", "aged"}
    /\ since # "none" => normal # <<>>
    /\ tokens \in 0..Burst
    /\ sent \in Seq(Frames) /\ written \in Seq(Frames)
    /\ unsent \subseteq Frames \cup Replies

Init ==
    /\ pc = "select"
    /\ outbound = <<>> /\ closed = FALSE /\ outClosed = FALSE /\ replies = <<>>
    /\ high = <<>> /\ normal = <<>> /\ bg = <<>> /\ since = "none"
    /\ tokens = Burst
    /\ sent = <<>> /\ written = <<>>
    /\ unsent = Frames \cup Replies

-----------------------------------------------------------------------------
(* The senders: Client::notify and send_once_at, and the stdout pump.      *)

Send(f) ==
    /\ f \in unsent /\ ~closed /\ pc \notin Ended
    /\ Len(outbound) < OutboundCap
    /\ unsent' = unsent \ {f}
    /\ outbound' = Append(outbound, f)
    /\ sent' = Append(sent, f)
    /\ UNCHANGED <<pc, closed, outClosed, replies, queues, tokens, written>>

\* A full channel: a notification fails at once, a request after its timeout.  A
\* closed one, or a writer that has ended: Terminated.
SendFails(f) ==
    /\ f \in unsent
    /\ Len(outbound) = OutboundCap \/ closed \/ pc \in Ended
    /\ unsent' = unsent \ {f}
    /\ UNCHANGED <<pc, outbound, closed, outClosed, replies, queues, tokens, history>>

\* dispatch: a reply that finds its channel full, or closed, is dropped.
Reply(r) ==
    /\ r \in unsent
    /\ unsent' = unsent \ {r}
    /\ replies' = IF Len(replies) < ReplyCap /\ pc \notin Ended THEN Append(replies, r) ELSE replies
    /\ UNCHANGED <<pc, outbound, closed, outClosed, queues, tokens, history>>

\* The session and its client are dropped.
Close ==
    /\ ~closed /\ closed' = TRUE
    /\ UNCHANGED <<pc, outbound, outClosed, replies, queues, tokens, history, unsent>>

-----------------------------------------------------------------------------
(* The queues.                                                             *)

\* Mutant of RoutedHigh: a High frame is put at the head of its queue.
RoutedHighFirst(f) == <<f>> \o high

RoutedHigh(f) == Append(high, f)

\* route_into: a Normal frame sets first_normal_at, a frame of another priority resets it.
Route(f) ==
    IF f \in High THEN high' = RoutedHigh(f) /\ since' = "none" /\ UNCHANGED <<normal, bg>>
    ELSE IF f \in Normal
    THEN /\ normal' = Append(normal, f)
         /\ since' = IF since = "none" THEN "fresh" ELSE since
         /\ UNCHANGED <<high, bg>>
    ELSE bg' = Append(bg, f) /\ since' = "none" /\ UNCHANGED <<high, normal>>

\* One frame of the channel.
Take ==
    /\ outbound # <<>>
    /\ outbound' = Tail(outbound)
    /\ Route(Head(outbound))

\* Mutant of Settle: the demoted frame is not put into the other queue.
SettleDrops(n, b, s) ==
    IF s = "aged"
    THEN normal' = Tail(n) /\ bg' = b /\ since' = "none"
    ELSE normal' = n /\ bg' = b /\ since' = s

\* After each frame: needs_demote, demote_one_normal.
Settle(n, b, s) ==
    IF s = "aged"
    THEN normal' = Tail(n) /\ bg' = Append(b, Head(n)) /\ since' = "none"
    ELSE normal' = n /\ bg' = b /\ since' = s

-----------------------------------------------------------------------------
(* The writer.                                                             *)

\* select! is biased: replies first.
SelectReply ==
    /\ pc = "select" /\ replies # <<>>
    /\ replies' = Tail(replies)
    /\ pc' = "drainReply"
    /\ UNCHANGED <<outbound, closed, outClosed, queues, tokens, history, unsent>>

SelectFrame ==
    /\ pc = "select" /\ replies = <<>>
    /\ Take
    /\ pc' = "drain"
    /\ UNCHANGED <<closed, outClosed, replies, tokens, history, unsent>>

\* Either way the channel is then drained, as long as frames come.
Drain ==
    /\ pc \in {"drain", "drainReply"}
    /\ Take
    /\ UNCHANGED <<pc, closed, outClosed, replies, tokens, history, unsent>>

Drained ==
    /\ pc \in {"drain", "drainReply"} /\ outbound = <<>>
    /\ pc' = IF pc = "drain" THEN "inner" ELSE "reply"
    /\ UNCHANGED <<outbound, closed, outClosed, replies, queues, tokens, history, unsent>>

\* recv() = None: one more turn for what is in the queues.
SelectClosed ==
    /\ pc = "select" /\ replies = <<>> /\ outbound = <<>> /\ closed
    /\ outClosed' = TRUE
    /\ pc' = "inner"
    /\ UNCHANGED <<outbound, closed, replies, queues, tokens, history, unsent>>

\* NextAction::WriteReply, and back to the select.
WriteReply ==
    /\ pc = "reply"
    /\ Settle(normal, bg, since)
    /\ pc' = "select"
    /\ UNCHANGED <<outbound, closed, outClosed, replies, high, tokens, history, unsent>>

InnerReply ==
    /\ pc = "inner" /\ replies # <<>>
    /\ replies' = Tail(replies)
    /\ UNCHANGED <<pc, outbound, closed, outClosed, queues, tokens, history, unsent>>

\* pick_next, a High frame.
WriteHigh ==
    /\ pc = "inner" /\ replies = <<>> /\ high # <<>>
    /\ high' = Tail(high)
    /\ written' = Append(written, Head(high))
    /\ Settle(normal, bg, since)
    /\ UNCHANGED <<pc, outbound, closed, outClosed, replies, tokens, sent, unsent>>

\* Mutant of WriteNormal: the last frame leaves first_normal_at set.
WriteNormalKeepsSince ==
    /\ pc = "inner" /\ replies = <<>> /\ high = <<>> /\ normal # <<>>
    /\ written' = Append(written, Head(normal))
    /\ Settle(Tail(normal), bg, since)
    /\ UNCHANGED <<pc, outbound, closed, outClosed, replies, high, tokens, sent, unsent>>

\* pick_next, a Normal frame: the last one resets first_normal_at.
WriteNormal ==
    /\ pc = "inner" /\ replies = <<>> /\ high = <<>> /\ normal # <<>>
    /\ written' = Append(written, Head(normal))
    /\ Settle(Tail(normal), bg, IF Len(normal) = 1 THEN "none" ELSE since)
    /\ UNCHANGED <<pc, outbound, closed, outClosed, replies, high, tokens, sent, unsent>>

WriteBackground ==
    /\ pc = "inner" /\ replies = <<>> /\ high = <<>> /\ normal = <<>> /\ bg # <<>>
    /\ tokens > 0
    /\ tokens' = tokens - 1
    /\ bg' = Tail(bg)
    /\ written' = Append(written, Head(bg))
    /\ UNCHANGED <<pc, outbound, closed, outClosed, replies, high, normal, since, sent, unsent>>

\* Mutant of NoToken: the writer goes back to its select, which has no timer.
NoTokenBreaks ==
    /\ pc = "inner" /\ replies = <<>> /\ high = <<>> /\ normal = <<>> /\ bg # <<>>
    /\ tokens = 0
    /\ pc' = "select"
    /\ UNCHANGED <<outbound, closed, outClosed, replies, queues, tokens, history, unsent>>

NoToken ==
    /\ pc = "inner" /\ replies = <<>> /\ high = <<>> /\ normal = <<>> /\ bg # <<>>
    /\ tokens = 0
    /\ pc' = "sleep"
    /\ UNCHANGED <<outbound, closed, outClosed, replies, queues, tokens, history, unsent>>

\* The sleep is the time a token takes.
Wake ==
    /\ pc = "sleep" /\ tokens > 0
    /\ pc' = "inner"
    /\ UNCHANGED <<outbound, closed, outClosed, replies, queues, tokens, history, unsent>>

\* Everything routed is written.
InnerEnds ==
    /\ pc = "inner" /\ replies = <<>> /\ high \o normal \o bg = <<>>
    /\ pc' = IF outClosed THEN "done" ELSE "select"
    /\ UNCHANGED <<outbound, closed, outClosed, replies, queues, tokens, history, unsent>>

\* The server is gone: a write fails, the task returns, its queues are dropped.
WriteFails ==
    /\ pc = "reply" \/ (pc = "inner" /\ replies \o high \o normal \o bg # <<>>)
    /\ pc' = "failed"
    /\ UNCHANGED <<outbound, closed, outClosed, replies, queues, tokens, history, unsent>>

\* Time passes.
Age ==
    /\ since = "fresh" /\ since' = "aged"
    /\ UNCHANGED <<pc, outbound, closed, outClosed, replies, high, normal, bg, tokens, history, unsent>>

Refill ==
    /\ tokens < Burst /\ tokens' = tokens + 1
    /\ UNCHANGED <<pc, outbound, closed, outClosed, replies, queues, history, unsent>>

Writer ==
    \/ SelectReply \/ SelectFrame \/ SelectClosed \/ Drain \/ Drained
    \/ WriteReply \/ InnerReply \/ WriteHigh \/ WriteNormal \/ WriteBackground
    \/ NoToken \/ Wake \/ InnerEnds

Next ==
    \/ \E f \in Frames : Send(f) \/ SendFails(f)
    \/ \E r \in Replies : Reply(r)
    \/ Close
    \/ Writer \/ WriteFails
    \/ Age \/ Refill

Spec == Init /\ [][Next]_vars

\* The writer runs, tokens come back with time, and the server reads its stdin as
\* long as it lives.  Nobody has to send, answer or close anything.
FairSpec == Spec /\ WF_vars(Writer) /\ WF_vars(Refill)

-----------------------------------------------------------------------------
\* High frames are written in the order in which they were sent, whatever is
\* demoted meanwhile: didOpen before the request about the document, initialized
\* before everything.
HighInOrder ==
    \A i, j \in DOMAIN sent : i < j /\ sent[i] \in High /\ sent[j] \in High =>
        \A l \in DOMAIN written : written[l] = sent[j] => \E k \in 1..(l - 1) : written[k] = sent[i]

\* Every frame the channel accepted is in exactly one place; demotion neither
\* loses nor repeats one.
NoFrameIsLost ==
    LET all == outbound \o high \o normal \o bg \o written IN
        Len(all) = Len(sent) /\ ToSet(all) = ToSet(sent)

\* Once the writer is on the way to its queues, all of them are written, however few tokens
\* there are and though nothing else arrives; and the end of a session does not cut
\* off what was sent before it, wherever it waits.
BacklogDrains ==
    LET Due(f) == \/ pc \in {"drain", "inner", "sleep"} /\ f \in ToSet(high \o normal \o bg)
                  \/ closed /\ f \in ToSet(sent)
    IN \A f \in Frames : Due(f) ~> f \in ToSet(written) \/ pc = "failed"

-----------------------------------------------------------------------------
(* What comments of the code say of it, and its loop does not keep.        *)

\* "High and Normal are written directly: at most one recv, the encoding, the
\* write": a frame that was sent is written.
FramesAreWritten ==
    \A f \in Frames : f \in ToSet(sent) ~> f \in ToSet(written) \/ pc = "failed"

=============================================================================
