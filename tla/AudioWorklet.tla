---------------------------- MODULE AudioWorklet ----------------------------
(***************************************************************************)
(* The sound output of the web export, which is built without threads.     *)
(* The engine mixes on the main thread into a buffer of its heap           *)
(* (GodotAudioWorklet.start_no_threads in index.js); the audio thread      *)
(* plays from a ring buffer of its own (index.audio.worklet.js).  Between  *)
(* them are the two ends of a message port.  A sample stands for its       *)
(* number in the stream, so that a buffer shows what it was filled with.   *)
(*                                                                         *)
(* Left out: the branches with threads, which this export never takes, and *)
(* the microphone, which the game does not use.                            *)
(***************************************************************************)
EXTENDS Integers, Sequences

CONSTANTS
  Size,       \* length of both buffers, in samples
  Chunk,      \* how many samples an output quantum can have
  MaxSamples  \* bound of the model: the audio thread plays no further

ASSUME SizeAssumption ==
  /\ Size \in Nat \ {0}
  /\ Chunk \subseteq 1..Size
  /\ MaxSamples \in Nat

VARIABLES
  \* main thread
  driver,    \* GodotAudioWorklet.worklet: "none", "connected" or "closed"
  heap,      \* the engine's output buffer
  wpos,      \* where the engine mixes next
  mixed,     \* how many samples it has mixed (the engine's clock)
  \* audio thread
  state,     \* "idle": running, output is null; "playing"; "stopped"
  output,    \* the RingBuffer: buffer, avail, rpos, wpos
  speaker,   \* the quantum written to the outputs last
  heard,     \* how many samples have been played (history)
  \* the port
  toWorklet, \* messages to the audio thread
  toMain     \* messages to the main thread

mainVars  == <<driver, heap, wpos, mixed>>
audioVars == <<state, output, speaker, heard>>
vars      == <<mainVars, audioVars, toWorklet, toMain>>

Index == 0..Size - 1

\* The slot that lies i samples after p, for p up to Size and i below Size.
Slot(p, i) == IF p + i >= Size THEN p + i - Size ELSE p + i

(***************************************************************************)
(* RingBuffer.                                                             *)
(***************************************************************************)

\* A buffer into which data goes from position p on, wrapping at the end.
Filled(buffer, p, data) ==
  [k \in Index |->
     IF k >= p /\ k - p < Len(data) THEN data[k - p + 1]
     ELSE IF k + Size - p < Len(data) THEN data[k + Size - p + 1]
     ELSE buffer[k]]

\* n samples from position p on, wrapping at the end.
Taken(buffer, p, n) == [i \in 1..n |-> buffer[Slot(p, i - 1)]]

NewRing(buffer) == [buffer |-> buffer, avail |-> Size, rpos |-> 0, wpos |-> 0]

\* Slip: the samples are not given back, so they count as there to be read.
Read_Variant(r, n) ==
  [r EXCEPT !.rpos = IF @ + n > Size THEN @ + n - Size ELSE @ + n]

\* rpos may come to rest at Size; the next read wraps with nothing before it.
Read(r, n) ==
  [r EXCEPT !.rpos  = IF @ + n > Size THEN @ + n - Size ELSE @ + n,
            !.avail = @ - n]

\* Slip: filled up to its end, the buffer goes on behind it.
Write_Variant(r, data) ==
  LET n  == Len(data)
      mw == Size - r.wpos
  IN  [r EXCEPT !.buffer = Filled(@, r.wpos, data),
                !.avail  = @ + n,
                !.wpos   = IF mw >= n THEN @ + n ELSE n - mw]

Write(r, data) ==
  LET n  == Len(data)
      mw == Size - r.wpos
  IN  [r EXCEPT !.buffer = Filled(@, r.wpos, data),
                !.avail  = @ + n,
                !.wpos   = IF mw = n THEN 0
                           ELSE IF mw > n THEN @ + n ELSE n - mw]

(***************************************************************************)
(* Main thread.                                                            *)
(***************************************************************************)

\* Messages carry their place in the stream, from up to and without to: of the
\* notice of a read the program sends only the length, of the others the data.
Message(cmd, from, data) ==
  [cmd |-> cmd, from |-> from, to |-> from + Len(data), data |-> data]
Notice(from, to) == [from |-> from, to |-> to]

\* The module is loaded: the node gets a copy of the buffer, all of it to play.
Start ==
  /\ driver = "none"
  /\ driver' = "connected"
  /\ toWorklet' = Append(toWorklet, Message("start_nothreads", 0, Taken(heap, 0, Size)))
  /\ UNCHANGED <<heap, wpos, mixed, audioVars, toMain>>

\* consumed and send: the engine mixes as many samples as were read, at wpos,
\* and what it mixed goes back in a message.
Consumed(n) ==
  LET fresh == [i \in 1..n |-> mixed + i - 1]
      heap2 == Filled(heap, wpos, fresh)
  IN  /\ heap' = heap2
      /\ mixed' = mixed + n
      /\ wpos' = Slot(wpos, n)
      /\ toWorklet' = Append(toWorklet, Message("chunk", mixed, Taken(heap2, wpos, n)))

OnMessage ==
  /\ toMain # <<>>
  /\ toMain' = Tail(toMain)
  /\ \/ /\ driver = "connected"
        /\ Consumed(Head(toMain).to - Head(toMain).from)
     \/ /\ driver = "closed"
        /\ UNCHANGED <<heap, mixed, wpos, toWorklet>>
  /\ UNCHANGED <<driver, audioVars>>

Close ==
  /\ driver = "connected"
  /\ driver' = "closed"
  /\ toWorklet' = Append(toWorklet, Message("stop", mixed, <<>>))
  /\ UNCHANGED <<heap, wpos, mixed, audioVars, toMain>>

(***************************************************************************)
(* Audio thread.                                                           *)
(***************************************************************************)

ParseMessage ==
  /\ toWorklet # <<>>
  /\ toWorklet' = Tail(toWorklet)
  /\ LET m == Head(toWorklet) IN
     \/ /\ m.cmd = "start_nothreads"
        /\ state' = "playing"
        /\ output' = NewRing([k \in Index |-> m.data[k + 1]])
     \/ /\ m.cmd = "chunk"
        /\ output' = Write(output, m.data)
        /\ UNCHANGED state
     \/ /\ m.cmd = "stop"
        /\ state' = "stopped"
        /\ UNCHANGED output
  /\ UNCHANGED <<mainVars, speaker, heard, toMain>>

\* Slip: the quantum is read without asking how much there is.
Process_Variant(n) ==
  /\ state = "playing"
  /\ heard + n <= MaxSamples
  /\ speaker' = Taken(output.buffer, output.rpos, n)
  /\ output' = Read(output, n)
  /\ heard' = heard + n
  /\ toMain' = Append(toMain, Notice(heard, heard + n))
  /\ UNCHANGED <<mainVars, state, toWorklet>>

\* Slip: what the last read before a wrap has taken is not given back.
Process_Silent(n) ==
  /\ state = "playing"
  /\ heard + n <= MaxSamples
  /\ output.avail >= n
  /\ speaker' = Taken(output.buffer, output.rpos, n)
  /\ output' = Read(output, n)
  /\ heard' = heard + n
  /\ toMain' = IF output.rpos + n > Size THEN toMain
               ELSE Append(toMain, Notice(heard, heard + n))
  /\ UNCHANGED <<mainVars, state, toWorklet>>

\* process; a quantum for which there is not enough data is skipped.
Process(n) ==
  /\ state = "playing"
  /\ heard + n <= MaxSamples
  /\ output.avail >= n
  /\ speaker' = Taken(output.buffer, output.rpos, n)
  /\ output' = Read(output, n)
  /\ heard' = heard + n
  /\ toMain' = Append(toMain, Notice(heard, heard + n))
  /\ UNCHANGED <<mainVars, state, toWorklet>>

Init ==
  /\ driver = "none"
  /\ heap = [k \in Index |-> k]
  /\ wpos = 0
  /\ mixed = Size
  /\ state = "idle"
  /\ output = [NewRing([k \in Index |-> 0]) EXCEPT !.avail = 0]
  /\ speaker = <<>>
  /\ heard = 0
  /\ toWorklet = <<>>
  /\ toMain = <<>>

Next ==
  \/ Start
  \/ OnMessage
  \/ Close
  \/ ParseMessage
  \/ \E n \in Chunk : Process(n)

Spec == Init /\ [][Next]_vars

\* The page's event loop and the audio thread run, and ports deliver.
Fairness ==
  /\ WF_vars(Start)
  /\ WF_vars(OnMessage)
  /\ WF_vars(ParseMessage)
  /\ WF_vars(\E n \in Chunk : Process(n))

FairSpec == Spec /\ Fairness

(***************************************************************************)
(* Properties.                                                             *)
(***************************************************************************)

\* The variables have their types.
TypeOK ==
  /\ driver \in {"none", "connected", "closed"}
  /\ heap \in [Index -> Nat]
  /\ wpos \in Index
  /\ mixed \in Nat
  /\ state \in {"idle", "playing", "stopped"}
  /\ output \in [buffer : [Index -> Nat], avail : 0..Size, rpos : 0..Size, wpos : Index]
  /\ speaker \in Seq(Nat)
  /\ heard \in Nat
  /\ toWorklet \in Seq([cmd : {"start_nothreads", "chunk", "stop"}, from : Nat, to : Nat, data : Seq(Nat)])
  /\ toMain \in Seq([from : Nat, to : Nat])

\* No chunk is written over samples that have not been played, and none finds
\* the ring buffer gone: a chunk is only what the audio thread has given back,
\* and stop is the last message on the port.
ChunksFit ==
  \A k \in DOMAIN toWorklet : toWorklet[k].cmd = "chunk" =>
    /\ state # "stopped"
    /\ k = 1 => state = "playing" /\ output.avail + Len(toWorklet[k].data) <= Size

\* data are the samples from first on; the n slots of buffer from p on hold them.
Stream(data, first) == \A i \in 1..Len(data) : data[i] = first + i - 1
Holds(buffer, p, n, first) == \A i \in 0..n - 1 : buffer[Slot(p, i)] = first + i

\* What the ring buffer holds are the next samples to be played, in order.
RingOK ==
  /\ Holds(output.buffer, output.rpos, output.avail, heard)
  /\ output.rpos + output.avail \in {output.wpos, output.wpos + Size, output.wpos + 2 * Size}

\* The messages of q are consecutive parts of the stream from first to last.
Chain(q, first, last) ==
  /\ \A k \in 1..Len(q) : q[k].from <= q[k].to /\ q[k].to <= last
  /\ \A k \in 1..Len(q) - 1 : q[k + 1].from = q[k].to
  /\ q # <<>> => q[1].from = first /\ q[Len(q)].to = last
  /\ q = <<>> => first = last

\* What is under way to the audio thread is what follows the ring buffer, up to
\* what has been mixed; what is under way from it has not been mixed anew.
ChainsOK ==
  /\ driver # "none" /\ state # "stopped" => Chain(toWorklet, heard + output.avail, mixed)
  /\ driver # "closed" => Chain(toMain, mixed - Size, heard)

\* A message holds the samples it stands for, and finds what it expects.
MessageOK(k) ==
  LET m == toWorklet[k] IN
    /\ m.to = m.from + Len(m.data)
    /\ Stream(m.data, m.from)
    /\ m.cmd = "start_nothreads" => k = 1 /\ state = "idle" /\ Len(m.data) = Size
    /\ m.cmd = "chunk" => state = "playing" \/ (k > 1 /\ state = "idle")
    /\ m.cmd = "stop" => k = Len(toWorklet) /\ driver = "closed" /\ m.data = <<>>

MessagesOK ==
  /\ \A k \in 1..Len(toWorklet) : MessageOK(k)
  /\ \A k \in 1..Len(toMain) : toMain[k].from < toMain[k].to /\ toMain[k].to <= toMain[k].from + Size

LifeOK ==
  /\ mixed <= heard + Size
  /\ heard + output.avail <= mixed
  /\ state = "idle" => heard = 0 /\ output.avail = 0 /\ mixed = Size /\ toMain = <<>>
  /\ driver = "none" => state = "idle" /\ toWorklet = <<>> /\ \A k \in Index : heap[k] = k
  /\ state = "idle" /\ driver # "none" => toWorklet # <<>> /\ toWorklet[1].cmd = "start_nothreads"
  /\ state = "stopped" => driver = "closed" /\ toWorklet = <<>>

IInv == TypeOK /\ RingOK /\ ChainsOK /\ MessagesOK /\ LifeOK

Abstract == INSTANCE SampleStream WITH Capacity <- Size

\* Through two buffers that wrap at different moments and two queues, every
\* sample mixed is played once and in order, and at most Size samples are ahead.
PlaysInOrder == Abstract!Spec

\* While nothing is under way either way, the ring buffer is full; and what is under
\* way runs out unless a quantum is played: a message to the main thread becomes at most
\* one to the audio thread (onmessage of start_no_threads, parse_message).
Pending == 2 * Len(toMain) + Len(toWorklet)

SoundIsDriven ==
  /\ [](driver = "connected" /\ Pending = 0 => state = "playing" /\ output.avail = Size)
  /\ [][heard' > heard \/ driver' # driver \/ Pending' < Pending]_vars

\* The sound does not stall: buffers and messages always come back to a state
\* in which there is a quantum to play, until the node is closed (or the bound).
SoundGoesOn ==
  \A p \in 0..MaxSamples - Size :
    (driver = "connected" /\ heard = p) ~> (heard > p \/ driver = "closed")
=============================================================================
