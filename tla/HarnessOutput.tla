---------------------------- MODULE HarnessOutput ----------------------------
(***************************************************************************)
(* The way of one launch's output: reader tasks frame the child's streams, *)
(* a bounded channel carries the frames (supervisor output_capture.rs),    *)
(* and the shell's forwarder thread maps them to wire frames for the       *)
(* renderer (src-tauri ipc/commands.rs, app harness_adapter.rs).           *)
(*                                                                         *)
(* The reader tasks and the prompt writer run on one runtime thread, so    *)
(* try_send is one step as far as they are concerned; the forwarder, the   *)
(* state-frame thread and the callers that confirm a reap run beside it.   *)
(* A frame is known by its stream and, on stdout, by its place: the line   *)
(* and the piece of that line it carries.                                  *)
(***************************************************************************)
EXTENDS Naturals, Sequences, FiniteSets, SequencesExt

CONSTANTS
  Launches,      \* the kinds of launch: "raw" (demo, approved), "line", "pty"
  Capacity,      \* CHANNEL_CAPACITY
  LineCap,       \* pieces that fit LINE_ASSEMBLER_CAP_BYTES
  MaxStdout,     \* bound: the text frames stdout makes
  MaxStderr,     \* bound: the text frames made for stderr
  PromptMayFail, \* whether writing the prompt may fail
  ThreadMayFail  \* whether the state-frame thread may fail to start

ASSUME LaunchesAssumption == Launches \subseteq {"raw", "line", "pty"}
ASSUME SizesAssumption == /\ Capacity \in Nat \ {0}
                          /\ LineCap \in Nat \ {0}
                          /\ MaxStdout \in Nat /\ MaxStderr \in Nat
ASSUME MayFailAssumption == PromptMayFail \in BOOLEAN /\ ThreadMayFail \in BOOLEAN

VARIABLES
  launch,     \* what was launched
  \* the reader tasks
  open,       \* the streams whose reader task still runs
  broken,     \* the streams that met a read error
  made,       \* how many text frames each stream made
  place,      \* <<line, piece>> the stdout reader is at
  \* OutputChannelState
  queue, seq, drops,
  sender,     \* the entry still holds its sender
  receiver,   \* "held" by the entry, "taken" by a subscriber, or "dropped"
  confirmed,  \* confirmed_state is set
  entry,      \* the OutputTable has the entry
  \* the two senders that hold a numbered frame for a while
  writer,     \* the prompt writer and its "stdin write failed" frame
  delivery,   \* the state-frame thread and its frame
  \* the forwarder thread
  asm,        \* LineAssembler
  carried,    \* drop counts not yet put on a wire frame
  wire,       \* the wire frames sent to the renderer
  wireOpen,   \* the renderer's channel accepts frames
  relay,      \* "running" or "ended"
  finished,   \* RunEndTracker::finish ran
  \* history
  received,   \* the raw frames the forwarder got
  lost        \* the text frames a full channel dropped

readerVars == <<open, broken, made, place>>
channel == <<queue, seq, drops, sender, receiver, confirmed, entry>>
holders == <<writer, delivery>>
forwarder == <<asm, carried, wire, wireOpen, relay, finished>>
history == <<received, lost>>
vars == <<launch, readerVars, channel, holders, forwarder, history>>

Streams(l) == IF l = "pty" THEN {"stdout"} ELSE {"stdout", "stderr"}

Numbered(n, d, stream, at, continued) ==
  [seq |-> n, dropped |-> d, stream |-> stream, at |-> at, continued |-> continued]

Nowhere == <<0, 0>>
NoFrame == Numbered(0, 0, "report", Nowhere, FALSE)
EmptyLine == [pending |-> FALSE, truncated |-> FALSE, pieces |-> <<>>]

Init ==
  /\ launch \in Launches
  /\ open = Streams(launch)
  /\ broken = {}
  /\ made = [s \in {"stdout", "stderr"} |-> 0]
  /\ place = <<1, 1>>
  /\ queue = <<>> /\ seq = 0 /\ drops = 0
  /\ sender = TRUE /\ receiver = "held" /\ confirmed = FALSE /\ entry = TRUE
  /\ writer = [pc |-> IF launch = "raw" THEN "closed" ELSE "writing", frame |-> NoFrame]
  /\ delivery = [pc |-> "idle", frame |-> NoFrame]
  /\ asm = EmptyLine /\ carried = 0
  /\ wire = <<>> /\ wireOpen \in BOOLEAN
  /\ relay = "running" /\ finished = FALSE
  /\ received = <<>> /\ lost = 0

-----------------------------------------------------------------------------
(* Plausible mistakes: each stands in for the definition of the same arity *)
(* that its comment names, when the properties are tried on a program that *)
(* gets it wrong.  No action uses them.                                    *)

FinalizableEarly(running, known) == sender /\ known     \* for Finalizable
LateNumber == Numbered(seq, drops, "report", Nowhere, FALSE) \* for ReportFrame
DropsForgotten(dropped) ==                              \* for StateFrames
  {<<[kind |-> "state", dropped |-> 0, pieces |-> <<>>]>>}
PushedBlindly(f) ==                                     \* for Pushed
  [pending |-> f.continued, truncated |-> FALSE, pieces |-> Append(asm.pieces, f.at)]
KeptForever == TRUE                                     \* for KeptAfterSubscribe
RoomIgnored == TRUE                                     \* for HasRoom
TableSenderGone == ~sender                              \* for Disconnected

-----------------------------------------------------------------------------
(* Pieces several operations share.                                        *)

HasRoom == Len(queue) < Capacity
RuntimeFree == writer.pc # "holding"

\* A frame the readers number is counted or dropped, never waited for.
TrySend(stream, at, continued) ==
  \/ /\ receiver # "dropped" /\ HasRoom
     /\ queue' = Append(queue, Numbered(seq, drops, stream, at, continued))
     /\ seq' = seq + 1 /\ drops' = 0
     /\ UNCHANGED lost
  \/ /\ receiver # "dropped" /\ ~HasRoom
     /\ drops' = drops + 1 /\ lost' = lost + 1
     /\ UNCHANGED <<queue, seq>>
  \/ /\ receiver = "dropped"
     /\ UNCHANGED <<queue, seq, drops, lost>>

\* The sender leaves the table, and a thread of its own gets the state frame.
Finalize ==
  /\ seq' = seq + 1 /\ drops' = 0
  /\ sender' = FALSE
  /\ entry' = (receiver = "held")
  /\ \/ delivery' = [pc |-> "sending", frame |-> Numbered(seq, drops, "state", Nowhere, FALSE)]
     \/ /\ ThreadMayFail
        /\ delivery' = [pc |-> "failed", frame |-> NoFrame]

Finalizable(running, known) == sender /\ running = {} /\ known

TryFinalize(running, known) ==
  \/ Finalizable(running, known) /\ Finalize
  \/ ~Finalizable(running, known) /\ UNCHANGED <<seq, drops, sender, entry, delivery>>

-----------------------------------------------------------------------------
(* The runtime thread: readers and the prompt writer.                      *)

\* A piece that ends its line, or one the cap split off, on stdout.
ReadStdout(continued) ==
  /\ "stdout" \in open \ broken /\ RuntimeFree
  /\ made["stdout"] < MaxStdout
  /\ continued => made["stdout"] + 1 < MaxStdout
  /\ TrySend("stdout", place, continued)
  /\ place' = IF continued THEN <<place[1], place[2] + 1>> ELSE <<place[1] + 1, 1>>
  /\ made' = [made EXCEPT !["stdout"] = @ + 1]
  /\ UNCHANGED <<launch, open, broken, sender, receiver, confirmed, entry, holders, forwarder,
                 received>>

ReadStderr ==
  /\ "stderr" \in open \ broken /\ RuntimeFree
  /\ made["stderr"] < MaxStderr
  /\ TrySend("stderr", Nowhere, FALSE)
  /\ made' = [made EXCEPT !["stderr"] = @ + 1]
  /\ UNCHANGED <<launch, open, broken, place, sender, receiver, confirmed, entry, holders,
                 forwarder, received>>

\* A partial line is flushed as the end of its line before the stream ends.
AtLineStart(s) == s = "stdout" => place[2] = 1

\* End of file.
ReaderEnds(s) ==
  /\ s \in open /\ RuntimeFree
  /\ AtLineStart(s)
  /\ open' = open \ {s}
  /\ TryFinalize(open', confirmed)
  /\ UNCHANGED <<launch, broken, made, place, queue, receiver, confirmed, writer, forwarder, history>>

\* A read error: the diagnostic goes out as a stderr frame, and nothing but
\* the end of the stream is left.
ReadFails(s) ==
  /\ s \in open \ broken /\ RuntimeFree
  /\ AtLineStart(s)
  /\ made["stderr"] < MaxStderr
  /\ TrySend("stderr", Nowhere, FALSE)
  /\ made' = [made EXCEPT !["stderr"] = @ + 1]
  /\ broken' = broken \cup {s}
  /\ UNCHANGED <<launch, open, place, sender, receiver, confirmed, entry, holders, forwarder,
                 received>>

\* The prompt is written, or its channel is gone by the time writing fails.
WriterEnds ==
  /\ writer.pc = "writing"
  /\ writer' = [writer EXCEPT !.pc = "closed"]
  /\ UNCHANGED <<launch, readerVars, channel, delivery, forwarder, history>>

\* emit_stdin_write_failed, the part under the table's lock.
ReportTakesNumber ==
  /\ PromptMayFail
  /\ writer.pc = "writing"
  /\ entry /\ sender
  /\ writer' = [pc |-> "holding", frame |-> Numbered(seq, drops, "report", Nowhere, FALSE)]
  /\ seq' = seq + 1 /\ drops' = 0
  /\ UNCHANGED <<launch, readerVars, queue, sender, receiver, confirmed, entry, delivery,
                 forwarder, history>>

\* The frame of the report as the channel's end gets it.
ReportFrame == writer.frame

\* The rest of it, with the lock given back.
ReportSends ==
  /\ writer.pc = "holding"
  /\ \/ /\ receiver # "dropped" /\ HasRoom
        /\ queue' = Append(queue, ReportFrame)
        /\ writer' = [writer EXCEPT !.pc = "sent"]
     \/ /\ receiver = "dropped" \/ ~HasRoom
        /\ writer' = [writer EXCEPT !.pc = "lost"]
        /\ UNCHANGED queue
  /\ UNCHANGED <<launch, readerVars, seq, drops, sender, receiver, confirmed, entry, delivery,
                 forwarder, history>>

-----------------------------------------------------------------------------
(* Callers and the state-frame thread.                                     *)

\* record_confirmed_state: observe, stop or the reaper saw the child reaped.
RecordConfirmed ==
  /\ entry
  /\ ~confirmed
  /\ confirmed' = TRUE
  /\ TryFinalize(open, TRUE)
  /\ UNCHANGED <<launch, readerVars, queue, receiver, writer, forwarder, history>>

\* A channel finalized before anyone subscribed goes when it is subscribed to.
KeptAfterSubscribe == sender

Subscribe ==
  /\ entry /\ receiver = "held"
  /\ receiver' = "taken"
  /\ entry' = KeptAfterSubscribe
  /\ UNCHANGED <<launch, readerVars, queue, seq, drops, sender, confirmed, holders, forwarder,
                 history>>

\* The blocking send: it goes through when the channel has room.
DeliverState ==
  /\ delivery.pc = "sending"
  /\ receiver # "dropped"
  /\ HasRoom
  /\ queue' = Append(queue, delivery.frame)
  /\ delivery' = [delivery EXCEPT !.pc = "done"]
  /\ UNCHANGED <<launch, readerVars, seq, drops, sender, receiver, confirmed, entry, writer,
                 forwarder, history>>

DeliveryFails ==
  /\ delivery.pc = "sending"
  /\ receiver = "dropped"
  /\ delivery' = [delivery EXCEPT !.pc = "done"]
  /\ UNCHANGED <<launch, readerVars, channel, writer, forwarder, history>>

-----------------------------------------------------------------------------
(* The forwarder thread.                                                   *)

\* LineAssembler::push on the piece a frame carries: a hole seen while the
\* line is pending cuts it, and so does a line over the cap.
Pushed(f) ==
  LET holed == asm.truncated \/ (f.dropped > 0 /\ asm.pending)
      cut == holed \/ Len(asm.pieces) = LineCap
  IN [pending |-> f.continued, truncated |-> cut,
      pieces |-> IF cut THEN asm.pieces ELSE Append(asm.pieces, f.at)]

WireFrame(kind, dropped, pieces) == [kind |-> kind, dropped |-> dropped, pieces |-> pieces]

\* The wire frame of an assembled line, parsed or reported truncated.
LineEvent(line, dropped) ==
  WireFrame(IF line.truncated THEN "truncated" ELSE "parsed", dropped, line.pieces)

\* A truncated line's pieces do not matter any more.
Event(kind, dropped) == WireFrame(kind, dropped, <<>>)

\* What is sent of the mapped frames: all, or those before the send that
\* found the channel closed.
Send(frames) ==
  \/ /\ wireOpen
     /\ wire' = wire \o frames
     /\ UNCHANGED wireOpen
  \/ /\ wireOpen /\ frames # <<>>
     /\ \E n \in 0 .. Len(frames) - 1 : wire' = wire \o SubSeq(frames, 1, n)
     /\ wireOpen' = FALSE
  \/ /\ ~wireOpen
     /\ UNCHANGED <<wire, wireOpen>>

\* sequencer.state: the run-end events, then the state, the drops on the first.
StateFrames(dropped) ==
  {<<Event("state", dropped)>>, <<Event("run-end", dropped), Event("state", 0)>>}

\* adapter_wire_frames: the three kinds of raw frame of a line launch.
MapLine(f) ==
  \/ /\ f.stream = "stdout" /\ f.continued
     /\ asm' = Pushed(f) /\ carried' = carried + f.dropped
     /\ Send(<<>>)
     /\ UNCHANGED finished
  \/ /\ f.stream = "stdout" /\ ~f.continued
     /\ asm' = EmptyLine /\ carried' = 0
     /\ Send(<<LineEvent(Pushed(f), carried + f.dropped)>>)
     /\ UNCHANGED finished
  \/ /\ f.stream \in {"stderr", "report"}
     /\ Send(<<Event("diagnostic", f.dropped)>>)
     /\ UNCHANGED <<asm, carried, finished>>
  \/ /\ f.stream = "state"
     /\ asm' = EmptyLine /\ carried' = 0
     /\ finished' = TRUE
     /\ \E ends \in StateFrames(f.dropped) :
          Send(IF asm.pending
               THEN <<LineEvent([asm EXCEPT !.truncated = TRUE], carried)>> \o ends
               ELSE ends)

\* pty_wire_frames: what the normalizer yields for a raw frame is left open,
\* and a count that meets a silent frame waits for the next wire frame.
MapPty(f) ==
  LET due == carried + f.dropped
  IN /\ UNCHANGED asm
     /\ \/ /\ f.stream = "stdout"
           /\ carried' = due
           /\ Send(<<>>)
           /\ UNCHANGED finished
        \/ /\ f.stream = "stdout"
           /\ carried' = 0
           /\ Send(<<Event("text", due)>>)
           /\ UNCHANGED finished
        \/ /\ f.stream \in {"stderr", "report"}
           /\ carried' = 0
           /\ Send(<<Event("diagnostic", due)>>)
           /\ UNCHANGED finished
        \/ /\ f.stream = "state"
           /\ carried' = 0
           /\ finished' = TRUE
           /\ \/ \E ends \in StateFrames(due) : Send(ends)
              \/ \E ends \in StateFrames(0) : Send(<<Event("text", due)>> \o ends)

Receives == receiver = "taken" /\ relay = "running" /\ queue # <<>>

\* relay_logged_run: a closed renderer channel stops the sending only.
RelayAdapter ==
  /\ Receives /\ launch # "raw"
  /\ queue' = Tail(queue)
  /\ received' = Append(received, Head(queue))
  /\ IF launch = "line" THEN MapLine(Head(queue)) ELSE MapPty(Head(queue))
  /\ UNCHANGED <<launch, readerVars, seq, drops, sender, receiver, confirmed, entry, holders,
                 relay, lost>>

\* forward_output: one wire frame per raw frame, until a send fails.
RelayRaw ==
  /\ Receives /\ launch = "raw"
  /\ received' = Append(received, Head(queue))
  /\ \/ /\ wireOpen
        /\ queue' = Tail(queue)
        /\ wire' = Append(wire, Event(Head(queue).stream, Head(queue).dropped))
        /\ UNCHANGED <<wireOpen, receiver, relay>>
     \/ /\ wireOpen' = FALSE
        /\ queue' = <<>> /\ receiver' = "dropped" /\ relay' = "ended"
        /\ UNCHANGED wire
  /\ UNCHANGED <<launch, readerVars, seq, drops, sender, confirmed, entry, holders, asm, carried,
                 finished, lost>>

\* Every clone of the sender is gone.
Disconnected ==
  /\ ~sender /\ open = {}
  /\ writer.pc # "holding" /\ delivery.pc # "sending"

RelayEnds ==
  /\ receiver = "taken" /\ relay = "running"
  /\ queue = <<>> /\ Disconnected
  /\ relay' = "ended" /\ receiver' = "dropped"
  /\ UNCHANGED <<launch, readerVars, queue, seq, drops, sender, confirmed, entry, holders, asm,
                 carried, wire, wireOpen, finished, history>>

\* The child was reaped, its streams ended, and the output was handed over.
Over ==
  /\ open = {} /\ confirmed /\ relay = "ended"
  /\ writer.pc \notin {"writing", "holding"} /\ delivery.pc # "sending"
  /\ UNCHANGED vars

Next ==
  \/ \E continued \in BOOLEAN : ReadStdout(continued)
  \/ ReadStderr
  \/ \E s \in open : ReaderEnds(s) \/ ReadFails(s)
  \/ WriterEnds \/ ReportTakesNumber \/ ReportSends
  \/ RecordConfirmed \/ Subscribe
  \/ DeliverState \/ DeliveryFails
  \/ RelayAdapter \/ RelayRaw \/ RelayEnds
  \/ Over

Spec == Init /\ [][Next]_vars

\* The forwarder and the two sending threads run until they are done; nothing
\* is assumed of the child, of the renderer or of who subscribes.
Fairness ==
  /\ WF_vars(ReportSends)
  /\ WF_vars(DeliverState \/ DeliveryFails)
  /\ WF_vars(RelayAdapter \/ RelayRaw \/ RelayEnds)

FairSpec == Spec /\ Fairness

-----------------------------------------------------------------------------
(* Properties.                                                             *)

Frame == [seq : Nat, dropped : Nat, continued : BOOLEAN, at : Nat \X Nat,
          stream : {"stdout", "stderr", "report", "state"}]

\* Every variable is of its type, and a channel never holds more than it may.
TypeOK ==
  /\ launch \in Launches
  /\ open \in SUBSET {"stdout", "stderr"} /\ broken \in SUBSET {"stdout", "stderr"}
  /\ made \in [{"stdout", "stderr"} -> Nat] /\ place \in Nat \X Nat
  /\ queue \in Seq(Frame) /\ Len(queue) <= Capacity
  /\ seq \in Nat /\ drops \in Nat
  /\ sender \in BOOLEAN /\ confirmed \in BOOLEAN /\ entry \in BOOLEAN
  /\ receiver \in {"held", "taken", "dropped"}
  /\ writer \in [pc : {"writing", "closed", "holding", "sent", "lost"}, frame : Frame]
  /\ delivery \in [pc : {"idle", "sending", "done", "failed"}, frame : Frame]
  /\ asm \in [pending : BOOLEAN, truncated : BOOLEAN, pieces : Seq(Nat \X Nat)]
  /\ carried \in Nat
  /\ wire \in Seq([kind : {"stdout", "stderr", "report", "state", "parsed", "truncated",
                            "diagnostic", "run-end", "text"},
                    dropped : Nat, pieces : Seq(Nat \X Nat)])
  /\ wireOpen \in BOOLEAN /\ finished \in BOOLEAN
  /\ relay \in {"running", "ended"}
  /\ received \in Seq(Frame) /\ lost \in Nat

\* Every frame the channel accepted and nobody threw away, in order.
Accepted == received \o queue

\* The frames a thread holds back, numbered and not yet accepted.
HeldBack ==
  (IF writer.pc = "holding" THEN <<writer.frame>> ELSE <<>>)
    \o (IF delivery.pc = "sending" THEN <<delivery.frame>> ELSE <<>>)

\* Nothing on the way threw a numbered frame away.
NothingDiscarded ==
  /\ writer.pc # "lost" /\ delivery.pc # "failed"
  /\ launch = "raw" => wireOpen

\* Readers, prompt writer and finalizer share one counter without a common
\* lock: as long as no frame is discarded, each number is on exactly one
\* frame and none is left out (output_capture.rs try_send,
\* emit_stdin_write_failed, try_finalize).
NumbersAssignedOnce ==
  NothingDiscarded =>
    LET frames == Accepted \o HeldBack
    IN /\ Len(frames) = seq
       /\ {frames[i].seq : i \in DOMAIN frames} = 0 .. seq - 1

\* What the readers framed is always ahead of the state frame, which is there
\* once: only the report of a failed prompt can come behind it (try_finalize).
OnlyReportFollowsState ==
  \A i, j \in DOMAIN Accepted :
    (i < j /\ Accepted[i].stream = "state") => Accepted[j].stream = "report"

Total(frames) == FoldLeft(LAMBDA sum, f : sum + f.dropped, 0, frames)

\* Every text frame a full channel dropped is counted exactly once from the
\* reader's counter to the renderer: on a frame in the channel, in the
\* forwarder's pending count or on a wire frame that was sent (try_send,
\* LineAssembler, PtyForwarder, AdapterWireSequencer::state).
DropsAddUp ==
  (NothingDiscarded /\ wireOpen) =>
    drops + Total(HeldBack) + Total(queue) + carried + Total(wire) = lost

Consecutive(a, b) == b[1] = a[1] /\ b[2] = a[2] + 1

\* The pieces are those of one line from its first piece on, none left out.
IsWhole(pieces, i) ==
  IF i = 1 THEN pieces[1][2] = 1 ELSE Consecutive(pieces[i - 1], pieces[i])

\* "An adapter must never parse a line with a hole in it as if complete."
\* (docs/spike-log.md:369)
ParsedLineHasNoHole ==
  \A w \in DOMAIN wire : wire[w].kind = "parsed" =>
    \A i \in DOMAIN wire[w].pieces : IsWhole(wire[w].pieces, i)

\* A frame of the other stream took the count of the pieces dropped between
\* piece b and the stdout frame received before it.
CountWentAside(b) ==
  \E k, j \in DOMAIN received :
    /\ k < j /\ received[j].at = b
    /\ received[k].stream \in {"stderr", "report"} /\ received[k].dropped > 0
    /\ \A i \in k .. j - 1 : received[i].stream # "stdout"

\* What the assembler does notice (harness_adapter.rs LineAssembler::push).
\* A parsed line has a piece missing only where no count reached the assembler
\* between two of its pieces: a frame of the other stream took the count, or
\* the report that took it was lost.  What is missing at its head is not
\* noticed even when the count does reach the assembler, which then has no
\* line pending, but the count is on the line's own wire frame.
HolesAreAccountedFor ==
  \A w \in DOMAIN wire : wire[w].kind = "parsed" =>
    \A i \in DOMAIN wire[w].pieces :
      \/ IsWhole(wire[w].pieces, i)
      \/ i = 1 /\ wire[w].dropped > 0
      \/ CountWentAside(wire[w].pieces[i]) \/ writer.pc = "lost"

\* The table keeps an entry exactly until it is finalized and subscribed to,
\* in whichever order the two come (try_finalize, take_receiver).
EntryIsReclaimed == entry <=> (sender \/ receiver = "held")

\* Once the child is reaped and its streams have ended, a subscriber's
\* forwarder ends, and an adapter launch's run-end work is done whether or
\* not the renderer still listens (relay_logged_run, try_finalize).
RunEnds ==
  (confirmed /\ open = {} /\ receiver = "taken")
    ~> (relay = "ended" /\ (finished \/ launch = "raw" \/ delivery.pc = "failed"))
=============================================================================
