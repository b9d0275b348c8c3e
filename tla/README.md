# A verification model of TritonTalk

TritonTalk (`src/`) is a simulator in C: hosts exchange text messages over a
switch that corrupts and drops frames, with a sliding-window protocol and a
TCP-like congestion window. It is one process with one thread; what makes it
hard is not threads but the protocol: 8-bit sequence numbers that wrap, lost and
corrupted frames, retransmission by timeout and by duplicate acks, one send
window shared by all the receivers of a host, and one queue per host in which
data frames and acks meet.

This directory holds TLA+ modules of the program, the TLC configurations that
check them, and theorems with proofs for TLAPS.

    tlc -config OneWay.cfg MCOneWay        one of the runs below
    tlapm TypeProofs.tla                   the proofs of a module

## 1. Inventory

| Part (code) | State | Operations | What makes it correct |
|---|---|---|---|
| Main loop, exit (`main.c`, `run_main.c`) | `glb_exit_main` | `handle_input`, `run_hosts`, `graceful_exit` | exits after "exit", and only when every message has come out |
| Input (`input.c`) | `input_cmdlist` of each host | `check_input` | messages reach the right host in order |
| Hosts (`host.c`, `common.h`) | all of the below | `init_host`, `run_hosts` | the four phases of a round |
| Sequence numbers (`util.c`) | - | `seq_num_diff`, conversion to `uint8_t` | distances survive the wrap-around |
| Sender (`sender.c`) | `buffered_outframes`, `send_window` (frame and timeout of each slot), `wait`, `LAR`, `LFS`, `active` | `handle_input_cmds`, `handle_incoming_acks`, `handle_timedout_frames`, `handle_outgoing_frames` | no frame is given up before it is delivered; every frame sent has a deadline; one receiver at a time |
| Congestion control (`sender.c`) | `cwnd`, `ssthresh`, `state` per receiver, duplicates of the round | on each accepted ack, on fast retransmit | the window stays positive and bounds what is sent |
| Receiver (`receiver.c`) | `NFE`, `receive_window`, `emptyCharArray` per sender | `handle_incoming_frames` | each message printed once, whole, in order |
| Switch (`switch.c`) | port queues, frames accepted in the round | `send_data_frames`, `send_ack_frames`, `send_frame` | nothing: it loses and corrupts, and the others must cope |
| Timers (`util.c`, `sender.c`) | deadlines, `latest_timeout` | `host_get_next_expiring_timeval`, `timeval_usec*` | frames expire in the order they were sent |
| CRC-8 and frame layout (`util.c`, `common.h`) | - | `compute_crc8`, `convert_*` | every frame the switch corrupts is detected |
| Linked lists (`util.c`) | the nodes of every queue | `ll_append_node`, `ll_pop_node`, `ll_peek_node`, `ll_get_length` | they are FIFO queues, also those that share a heap |
| Configuration, CSV diagnostics, tests | - | | not part of the protocol |

How they interact. A round of the main loop calls, in this order, `check_input`
(commands to hosts), `run_senders` (each host in random order: commands become
numbered frames, queued frames are read as acks, expired slots are cleared, then
the window is resent and refilled into `outgoing_frames`), `send_data_frames`
(the switch moves frames to `incoming_frames` of the receivers), `run_receivers`
(each host consumes `incoming_frames`, prints, and puts acks in
`outgoing_frames`), `send_ack_frames` (acks to `incoming_frames`) and
`graceful_exit`. The acks are consumed by the next round's `run_senders`.

The hard behaviours are listed one by one, with their lines, under "hazards" in
`PROJECT.json`.

## 2. Modules

    SeqNum      8-bit sequence numbers, seq_num_diff, the test on an ack number
    Congestion  the congestion controller as operators on a record
    TalkState   EXTENDS both: constants, variables, Init, the type invariant
    Sender      EXTENDS TalkState: run_senders and its four handlers
    Receiver    EXTENDS TalkState: run_receivers
    Switch      EXTENDS TalkState: send_data_frames, send_ack_frames
    TritonTalk  EXTENDS Sender, Receiver, Switch: the main loop, the user,
                fairness, and all the properties
    Transport   the abstract specification: messages come out whole, once, in order
    Transfer    EXTENDS TritonTalk: the invariant of a one-way transfer, definitions
                only

    Timeval       struct timeval and its arithmetic
    SendTimers    EXTENDS Timeval: the deadlines of one host in microseconds
    FifoTimeouts  the abstract specification of SendTimers

    LinkedList    the circular list of util.c, several lists on one heap
    Fragment      where handle_input_cmds cuts a message, in 16- and 8-bit fields
    Wire          EXTENDS LinkedList, Fragment, SeqNum: messages as bytes, from the
                  input to the output

    MCOneWay, MCBothWays, MCFanIn, MCFanOut, MCFastRetransmit, MCLiveness,
    MCDataAsAck   the instances of TritonTalk TLC checks (SendTimers and Wire are
                  checked directly)
    MCFaults      EXTENDS TritonTalk: the bound on corrupted frames that MCBothWays
                  and MCLiveness share
    SeqNumProofs, TypeProofs, SafetyProofs, TransferFacts, TransferProofs,
    TimerProofs, WireFacts, WireProofs
                  theorems and proofs; TransferFacts has the lemmas about queues,
                  windows, messages and acks that no state appears in,
                  TransferProofs the steps of the program; in the same way
                  WireFacts is about lists, fragments and the CRC, WireProofs
                  about the steps of Wire

`TritonTalk` is the protocol; `SendTimers` and `Wire` look through a magnifying glass at
two things it abstracts, time and bytes. Each takes from the rest of the program what
it needs as an open choice: `SendTimers` lets any slots be freed and any buffered
frames leave, `Wire` lets any frame be resent and corrupted at any time.

State and actions keep the names of the code. The program counter of the main
loop is `stage` (which phase), `todo` (the hosts the phase has still to visit;
taking any of them is `get_rand_seq`) and `cur` (the host being visited). A loop
that pops a queue is one action per element: `HandleInputCmd`, `DropAck` and
`AcceptAck` in the sender, `Corrupted`, `Unstored`, `Store` in the receiver,
`ServeIngress`, `ForwardFrame`, `SendAck` in the switch; the delivery loop of the
receiver is one action per frame (`Deliver`, with its local variables in
`delivery`). `handle_timedout_frames` and `handle_outgoing_frames` work on one
host without looking at a queue others write, and are one action,
`HandleOutgoing`; since one thread runs, the grain of the actions only decides
what an invariant can see.

In `SendTimers` a turn of a host has three steps, `HandleAcks`, `HandleTimedout` and
`HandleOutgoing`, after `Wake`; `Sleep` is a turn in which the host finds nothing to do.
The three loops of `handle_outgoing_frames` (fast retransmission, expired slots,
buffered frames) give a frame its `Position`, and the position its deadline. In `Wire`
every action is one iteration of the loop of its handler; an action does one
`ll_pop_node`, one `ll_append_node` or one of each on the record `lists`, whose
component `chain` says which nodes each queue ought to hold and is read by no guard.

Operators named `<definition>_<mistake>` are the definition after a plausible
mistake in its code. Nothing uses them; each is told from the right definition
by at least one property of one run (`PROJECT.json`, "mutants").

### What is abstracted

- **Payload.** A *piece* stands for the up to 53 bytes of one frame, and is a
  number: the pieces of a pair of hosts are numbered in the order they are typed,
  so that loss, duplication and reordering show. `starting_index` and
  `remaining` count pieces. `Wire` has the bytes.
- **Corruption.** `intact = FALSE` stands for an inverted byte. `compute_crc8`
  is taken to detect it, and no other field of such a frame is read after it. That
  it does detect it is `Wire!CorruptionDetected`.
- **Time.** `timeout[h][q]` says that slot q has a deadline. When a host has its
  turn, `expired` is *any* subset of the slots with deadlines; that is more than
  the clock allows, so safety holds for every spacing of the deadlines. What the
  clock does allow is the subject of `SendTimers`.
- **Queues** are sequences; that the rings of pointers behave as such is
  `Wire!QueuesAreRings`. `malloc` returns any address that is in no queue (`CHOOSE`
  in `Wire`, any address in the lemmas); a popped node is freed in the code or never
  used again, and the model does not tell these apart.
- **Messages in `Wire`** have any length the run lists and one fixed pattern of bytes
  (`Message`): any two bytes less than 90 apart differ, and the last one alone is NUL, so
  that a byte that is lost, moved or repeated shows. The CRC's theorems are about every
  frame.
- **Wire** has a window of one slot, so that a frame is taken by its receiver only
  if it is the one that is due; the assembling of frames that arrive out of order is
  in `TritonTalk`. The acks are not on this wire: the bytes of an ack after its
  header are uninitialised memory, and their CRC is computed from whatever they are.
- **Doubles.** `cwnd` and `ssthresh` are multiples of 1/`CWND_UNIT` frame, rounded
  down. The conversion of `LAR + cwnd` to `uint8_t` is taken modulo 256, also where
  C leaves it undefined.
- **Sequence numbers** range over 0..`MAX_SEQ_NUM`, 255 in the code; 127 in
  `seq_num_diff` is `MAX_SEQ_NUM \div 2`.
- **Input.** Lines that change no state (ill-formed, invalid ids) are left out.
- **Left out:** CSV output and its counters, the unused fields (`dup_acks`,
  `LFR`, `LAF`, `bad`, the egress ports), most of the memory management (most of the
  frames are never freed). `c` of a host is local to the fill loop and appears as
  `OutsideCwndNext`. The counter of duplicates does not wrap at 256.

History variables `typed`, `issued` and `printed` record what the user typed and
what was printed; no guard of the program reads them (`typed` bounds the input).

## 3. Properties

Safety (in `TritonTalk`):

- `NothingLost`: a piece that is not delivered is still held by its sender.
- `SeqNumsUnambiguous`: the 8-bit number of every intact data frame under way gives the
  receiver the true distance to the frame it expects. This is where the wrap-around
  could go wrong.
- `AckedIsDelivered`: LAR names a delivered frame, at most a window behind NFE.
- `LarNeverBack` (action property): LAR never goes back.
- `UsefulAckAccepted`: an ack that would free a frame is never rejected by the test
  of `sender.c:90`. As it is written, with a misplaced parenthesis, the test lets
  every ack ahead of LAR pass; with the parenthesis moved, the sender would
  deadlock when LFS has run far ahead (the mutant `AckRejected_BothAbs`).
- `SlotsHaveDeadlines`: a slot has a deadline iff it holds a frame.
- `OverrunByOne` (action property): a turn puts at most one frame into the window that
  is farther ahead of LAR than the congestion window is long. The code compares with
  `LAR + cwnd` in 8 bits; the property counts the frames, so that an end which wraps
  behind LAR would show (the mutant `OutsideCwndNext_NumbersCompared`).
- `OneReceiverInWindow`, `OneCopyPerTurn`, `CwndFloor`, `CleanExit`,
  `NoFrameLeftBehind`, `TypeOK`: see their comments.

- `TransferInv` (in `Transfer`): four counts explain the whole state of a one-way
  transfer; section 5.
- `WindowCanClear`: a full window of delivered frames can be cleared, as the ack the
  receiver answers its copies with would be accepted.

In `SendTimers`: `NoneOverdue` (no deadline that a turn could see pass is left behind),
`SelectiveRetransmission` (turns less than 10 ms apart find one deadline passed at
most: the purpose the comment at `sender.c:441` states for the 10 ms), and the
refinement `InOrderSent` of `FifoTimeouts`: frames expire in the order they were last
sent, over any turns and any behaviour of the clock, also when it is set back. In the
mapping, `lost` is the set of the slots that hold a frame and no deadline.

In `Wire`: `CorruptionDetected` (a frame is rejected by its CRC if and only if the
switch has inverted one of its 64 bytes), `MessagesWhole` (what is printed is what was
typed, byte by byte), `QueuesAreRings` (the four queues are disjoint rings of exactly
the nodes appended to them).

Liveness: `EveryMessagePrinted`, `ExitEnds`. Refinement: `ImplementsTransport`, the
abstract specification `Transport` under the mapping Ends <- Hosts, Message <-
`Messages`, with `issued` and `printed` as themselves.

**Fairness** (`Fairness`). The program is one thread that never blocks (`select` has a
zero timeout) and the user cannot stop it, hence weak fairness of `Program \/
Input`: the input phase ends one way or another. Time passes between rounds, so a
deadline that stays set is found expired: strong fairness, for each slot, of
the host's turn with the slot expired; strong, because the turn is enabled only
once per round. Corruption is not fair: it is bounded (`MaxFaults`), as a line
that always corrupts delivers nothing.

`fan_in` assumes `SelectiveFairness` instead: a deadline that stays set is found
expired *alone*. With a rate below the window the weaker condition is not enough: the
frames of a window that always expire together leave together, in slot order, and the
port drops the last of them every time; if that is the oldest, nothing is ever
delivered. What rules this out in the program is the 10 ms between deadlines, as
long as a round of the main loop takes less: this is `SelectiveRetransmission`, proved
in `TimerProofs`. Rounds that take longer are the case in which the property fails.

## 4. Runs

| Run | Instance | Shows |
|---|---|---|
| `one_way` | 2 hosts, window 2, numbers 0..5, 8 one-frame messages, corruption, rate 2, no port queue | all the safety properties of a one-way transfer through a full turn of the numbers |
| `both_ways` | the same; a message of 6 frames and one of 1 frame there, one of 2 frames back at any time, at most 2 corruptions | data frames read as acks of 0, before and after the wrap, move LAR, but nothing is lost or taken for something newer, and the messages come out whole |
| `fan_in` | 3 hosts, 2 senders, rate 1, port queue 1, messages of up to 2 frames | drops and queueing; `TransferInv`; refinement of `Transport`; every message is printed all the same |
| `fan_out` | 3 hosts, 1 sender to 2 receivers and to itself, corruption | the shared window |
| `fast_retransmit` | window 5, numbers 0..11, one message of 18 frames, rate 4, at most 3 expiries | four duplicate acks, halving, fast retransmission, slots that collide at the wrap |
| `liveness` | window 2, numbers 0..5, messages of 2 and 5 frames, at most 2 corruptions | liveness and refinement over the wrap |
| `timers` | window 3, 4 microseconds to the second, timeout 5, gap 2, 4 seconds | deadlines, their order and spacing |
| `wire` | payload 53, messages of 2, 53, 107 bytes, 2 messages, 2 frames in flight, 1 corrupted at a time, 6 nodes | bytes, CRC, queues |

Why the bounds are enough. What matters for the numbers is window against range:
a window of 2 of 6 numbers has, like 8 of 256, more than twice the window, and 8
frames go once around. In `one_way` every frame may be corrupted in either
direction and every deadline may pass in every round. `window_size` must divide
nothing in particular: `fast_retransmit` has 5 and 12. In `both_ways` the seventh frame
of host 0 has the number of the first. One corruption is enough to leave the second
frame of host 1 behind the first, so that host 0 reads it as an ack of 0; the other can
hit any frame or ack of host 0, at the wrap too, where an ack of 0 looks like progress.
In `liveness` the loop that delivers stored frames meets the wrap: it compares the
numbers as ints and stops there, with the frame behind the wrap still stored. That it
is delivered when it is sent again, and not for ever taken for one the receiver has
already, is what `EveryMessagePrinted` shows (the mutant `InWindow_NotStoredYet`).
`fan_in` has a port queue of one frame, where the code fixes
`INGRESS_PORT_QUEUE_CAPACITY` at 0 as the other runs do: a queue delays old frames, which
is the harder case, and the theorems are about any capacity. It types two pieces for each
pair, so its numbers do not wrap.
`MCFanOut` lets the user type only while the sender is idle; the run `mixed_window`
drops that restriction. `MCFastRetransmit` types one long message and bounds the
expiries, because a timeout hides a fast retransmission. In `timers` a second has few
microseconds so that times carry, a timeout is longer than a second and two gaps, and
three slots are enough for frames of each of the three loops in one turn; the clock
takes every value at every turn. In `wire` the real sizes are used: 2 is the shortest
message, 53 fills a frame exactly, 107 takes three frames of which the last holds the
NUL alone; a frame may be inverted at any of its 64 bytes, any number of times in a
behaviour, but one frame at a time. Six nodes hold every queue at once.

Four runs find a **disagreement** between the code and what its documents say (quoted
in `PROJECT.json`, "findings"):

- `mixed_window`: `wait` does not keep frames for a second receiver out of an
  occupied window if they are typed later.
- `data_as_ack`: a data frame left behind a corrupted one is read as an ack of 0 and,
  if LAR is up to half a turn behind 0, overwrites it. The acks of the window then
  lie behind LAR and are rejected: both hosts repeat themselves for ever over a window
  of frames that were all delivered. The run has 12 numbers, two answers from host 1,
  two corruptions and one timeout; it stops after some 127 steps.
- `left_behind`: the receiver leaves its queue at the first corrupted frame instead
  of moving on, which is how data frames get to be read as acks.
- `wide_window`: a window of more than half the numbers (129 and more of 256),
  which the configuration allows, makes an ack free frames that were never
  delivered.

## 5. Proofs

For every number of hosts, window size, rate, port capacity, range of sequence
numbers and `CWND_UNIT` (the assumptions are `SeqNumAssumption`,
`CwndUnitAssumption` and `ConfigAssumption`, the checks of `run_config`), and for every
timeout, gap and length of a second (`UsecAssumption`, `TimersAssumption`), every payload
and every set of nodes (`FragmentAssumption`, `AddressAssumption`, and `WireAssumption`:
four different queues, messages that fit 16 bits, numbers of 8 bits):

- `SeqNumProofs!DistanceRecovered`: `seq_num_diff(uint8(n), uint8(n + k)) = k` for
  |k| up to half a turn. It is what all the window tests rely on.
- `SeqNumProofs!AheadAckAccepted`: an ack up to half a turn ahead of LAR passes the
  test of `sender.c:90`, whatever LFS is.
- `TypeProofs!TypeCorrect`: `Spec => []TypeOK`. TypeOK is not inductive: `Deliver`
  reads a slot of the receive window that it must find full. The strengthening
  `TypeInv` adds `DeliveryOK`: a delivery under way belongs to the host being
  visited and the slot of NFE holds a frame. `Store` establishes it, `Deliver`
  keeps it by the loop's own condition. There is a lemma per action; the
  positions in the window that `HandleOutgoing` fills need that a set of slots
  has a k-th element (`NthIn`), proved from the well-foundedness of the naturals.
- `SafetyProofs!DeadlinesCorrect`: `Spec => []SlotsHaveDeadlines`; inductive together with
  `TypeInv`.
- `SafetyProofs!CwndFloorCorrect`: `Spec => []CwndFloor`. The invariant `CwndInv` says that
  ssthresh is at least half a frame, that a window smaller than a frame is equal
  to ssthresh (a fast retransmit has just set it), and that it is not smaller
  once an ack of the turn was a duplicate. Hence the halving at the third
  duplicate always halves at least a whole frame.
- `SafetyProofs!OverrunByOneCorrect`: `Spec => OverrunByOne`, an action property. The loop
  of `handle_outgoing_frames` stops by what it sees of the next frame, so every frame of
  a turn but the first has passed the test (`LaterInside`). The test looks at an end that
  has been cut to 8 bits; a frame inside it is not farther away than the congestion window
  is long, however often the end has wrapped around (`InsideIsNear`): the wrap can only
  close the window early. A slot filled in a turn that
  overruns the window can only be the one of the first frame, and slots are filled in
  ascending order, each once.
- `SafetyProofs!OneReceiverWhenTypedIdle`: `MCFanOut!MCSpec => []OneReceiverInWindow`, for
  users who type only while no host holds a frame, as in the run `fan_out`. The fill loop
  stops where the next frame is for another receiver, so the frames that enter in one
  turn are for one (`OneReceiverFilled`). The invariant `ReceiversApart` says why a later
  turn does not mix them: a host waits, or the head of its buffer is for the receiver of
  its window, and commands only come while the window is empty. The run `mixed_window`
  shows that the hypothesis is needed.
- `TimerProofs!TimersTypeCorrect`, `NoneOverdueCorrect`, `SelectiveRetransmissionCorrect`. The
  invariant `TimerInv` has three parts: deadlines of different slots are at least a gap
  apart (`Spaced`), none lies more than timeout minus gap beyond `latest_timeout`
  (`NoneBeyond`), and none had passed at the last turn (`NoneMissed`). The deadlines of a
  turn start no earlier than `latest_timeout` and are placed a gap apart by `Position`,
  which is injective (`PositionsDistinct`); by `NoneBeyond` they all lie a gap behind the
  old ones. Two deadlines found passed at once would both lie between two turns less
  than a gap apart, against `Spaced`. The arithmetic of `timeval` enters through two
  lemmas only, `DiffIsDistance` and `PlusAdds`.
- `TimerProofs!InOrderSentCorrect`: `Spec => InOrderSent`, step by step. The invariant
  `OrderInv` ties the order of `FifoTimeouts` to the deadlines: of two slots with a
  deadline, the frame sent before has the earlier one; and only within a turn does a slot
  hold a frame and no deadline. So what the clock finds passed is closed under "sent
  before", which is all `Expire` asks for, and `Position` is the `turn` of `Send`.
- `WireFacts!AppendKeepsQueues` and `PopKeepsQueues`: the two list functions keep all
  the queues of a heap rings (`SoundLists`), for any free node. Each first states
  what becomes of the pointers of every node (`AppendedNodes`, `PoppedNodes`), then of the
  ring that changes, then of those that do not; that two queues share no node is what
  the last needs. `WireProofs!QueuesAreRingsCorrect` follows for all behaviours of `Wire`.
- `WireFacts!FragmentsCover`: the frames of a message of up to 65535 bytes cover it,
  without gap or overlap, and only the last says that nothing remains; no field wraps.
- `WireFacts!SealedFrameIsWhole` and `InvertedFrameIsCorrupted`: what the CRC-8 is worth,
  for every frame. A byte is eight bits (`ByteHasBits`, `ValueUnique`); one round of
  `compute_crc8` is, on bits, a shift and an exclusive or, linear in the remainder
  (`SteppedLinear`) and injective (`SteppedApart`). Hence two buffers that differ in one
  byte have different remainders after it and after every byte that follows
  (`RemaindersApart`, `CrcOfChanged`), and a last byte equal to the remainder of the others
  followed by 0 makes the whole remainder 0 (`CrcOfSealed`). The conversion of a frame to
  bytes and back loses nothing (`RoundTrip`), which needs all header fields to fit.
  `compute_crc8` is a recursive function. What it computes is shown by induction on a
  *set* of positions (`SeqNumProofs!IntervalInduction`, from the well-foundedness of the
  naturals), which needs none of the library's theorems over operators; that the function
  exists and obeys its equation is `ByteRecursion`, by the same induction.
- `WireProofs!CorruptionDetectedCorrect`: `Spec => []CorruptionDetected`. The invariant
  `WireInv` says what each queue holds: messages in `input_cmdlist`, frames without a CRC
  in `buffered_outframes`, frames that pass the test in `outgoing_frames` and in the slot,
  and in `incoming_frames` frames of which those in altered nodes, and no others, fail it.
  The steps use what an append or a pop does to the values of all queues (`AppendedQueues`,
  `PoppedQueues`, `MovedQueues`), so that a node that is freed and used again cannot pass for
  the altered frame it held before.
- `WireProofs!MessagesWholeCorrect`: `Spec => []MessagesWhole`. `MessageInv` gives every
  frame its *place* in what was typed: the frame `i` of the message `k`. There is a
  sequence of places that follow one another, one for each frame cut so far and one for
  the frame to be cut next, and two counts `got <= sent <= got + 1` into it: LFS and NFE
  are remainders of positions in it, the buffer holds the frames `sent + 1 ..` of it, the
  slot is free (then `got = sent`) or holds the frame `sent`, and the receiver has printed
  the messages before the place `got + 1` and assembled the bytes before it. What makes
  it inductive is `Line`: only copies of the frames `got` and `sent` and corrupted frames
  are in `outgoing_frames` and `incoming_frames`, and nothing old is behind a copy of the
  frame `sent`. So when the receiver has taken it, no copy of an older frame is left that
  could be taken for a new one 256 frames later. A corrupted frame is rejected by
  `InvertedFrameIsCorrupted`; that a frame joins the bytes before it, and that the last one
  completes the message up to its NUL and no other does, are `FrameJoins` and
  `StringOfText`, from `FragmentsCover`. `WireAssumption` has the two facts about NULL this
  needs, that it is no frame and no command: `slot = NULL` says that the slot is free.

### One-way transfers

`TransferProofs` proves the protocol itself, under one hypothesis, `OneWayTraffic`: a
host types to one other host only, which does not type back to it, and the window is at
most `HALF_SEQ_NUM`, 127 in the code. Any number of such pairs may share the hosts, several
senders may have one receiver, and a receiver may be the sender of another pair, so that
data frames do get read as acks. Loss, corruption, timeouts, capacities and the number of
frames are as arbitrary as in `TritonTalk`. What lies outside the hypothesis is not there
for convenience: `wide_window`, `data_as_ack` and `mixed_window` are runs in which a
property fails because the window is wider (129 and more; 128 is in neither), the two
hosts type to each other, or one host
types to two. `both_ways` and `fan_out` are the instances outside it in which the listed
properties hold and TLC alone says so.

- `TransferCorrect`: `Spec => []TransferInv`. None of the properties is inductive. What
  the program keeps modulo 256, the invariant keeps as a number: for every pair there are
  counts `acked <= got <= sent <= numbered` such that LAR, NFE and LFS are their
  remainders, the window holds `acked + 1 .. sent`, the buffer `sent + 1 .. numbered`, the
  commands the rest, and the receiver has printed or assembled `1 .. got`. That would be
  inductive if frames could not be late. They can: a frame may wait in the port queue, be
  resent, and be acknowledged by a cumulative ack meanwhile. The part that deals with it
  is an *order* of the three queues a data frame goes through (`DataLineOK`): a frame
  may be followed by older ones, but what is in front of it is less than a window ahead
  of it, and what the receiver has delivered or stored is less than a window ahead of
  every frame under way. Acks under way lie between `acked` and `got`, and in that order
  (`AckLineOK`): this is why an old ack never takes LAR back. While the receiver delivers
  a run of frames, its window moves under it: `DeliveringOK` says that the stored frames
  are still within a window of the first of the run, so no slot is taken twice.
  `Routing`, `Phases`, `IdleLAR` and `Rested` say where frames can be and what a data
  frame that is read as an ack can do (leave a LAR of 0 towards a host that is not
  typed to: nothing).
- From it, `NothingLostAlways`, `SeqNumsUnambiguousAlways`, `AckedIsDeliveredAlways`,
  `UsefulAckAcceptedAlways`; `LarNeverBackAlways`, an action property; and
  `CleanExitAlways`, with `ExitIdle`: a program that has exited has no active host.
- `OneCopyPerTurnAlways`: no frame is sent twice in a turn. The frames of a window and of
  the buffer behind it carry different pieces by the invariant (`HeldDifferent`), and what
  is due for fast retransmission is not resent as timed out. That a turn starts from an
  empty queue is `TurnsOK`, the part the main loop contributes.
- `TransportImplemented`: `Spec => ImplementsTransport`. Every step maps to a step of
  `Transport` or to a stutter: a line typed is `Type`, a delivery that completes a message
  is `Deliver`, because by the invariant *after* the step what is printed is a prefix of
  what was issued. `Transport` states no fairness; that messages do come out is
  `EveryMessagePrinted`, which TLC checks.

The proof has one lemma for each action and each part of the invariant the action can
disturb. The operators whose arguments are whole queues or windows are reasoned about in
`TransferFacts`, as facts on sequences and functions; sequence numbers enter through
`DistanceRecovered` and the count an ack stands for (`AcknowledgesCount`,
`AcknowledgesNumber`) only.

### Model-checked only

Liveness under fairness, `EveryMessagePrinted` and `ExitEnds`: temporal formulas with
fairness, and ENABLED, are beyond the provers. And the properties of `TritonTalk` outside
`OneWayTraffic`, or with a window of more than half of the numbers, as far as the runs
reach: there some of them fail.

## 6. Not modelled

- The command line and the configuration file: no state after the start; their checks
  are `ConfigAssumption`.
- The CSV counters and all other diagnostics: only printed. Among them is the number
  of duplicates, a `uint8_t` that would wrap at 256 duplicates of one receiver in one
  round; the model does not wrap it.
- `getline` (a copy of glibc's) and lines that are ill-formed or name unknown hosts.
- Messages of more than 65535 bytes, for which the 16-bit fields and the buffer in
  `handle_incoming_frames` are too small.
- `ll_destroy_node` and `print_cmd`, `print_frame`: never called.

## 7. Plan

Done: every part of the program that takes part in the protocol, the runs above, the
proofs above.

Every safety invariant and action property that a passing run checks, and both
refinements, are stated by a theorem. Left open is an invariant of two hosts that type to
each other: there a data frame can be read as an ack (`data_as_ack`), and which of the
properties survive is known from `both_ways` alone.
