--------------------------- MODULE HeartbeatDoctor ---------------------------
(***************************************************************************)
(* The heartbeat demo's doctor script (doctor.py): it connects to a seed   *)
(* Ursula, becomes a Bob from stored keys, joins Alicia's policy from the  *)
(* metadata file, loads the heart monitor's message kits, and for each kit *)
(* retrieves the re-encrypted plaintext and prints one line: a bar scaled *)
(* to the terminal, the heart rate, and the retrieval time.                *)
(*                                                                         *)
(* The script is one sequential program; the network, the files written   *)
(* by the other demo scripts and the terminal are its environment, so     *)
(* every call into them is a nondeterministic outcome.  An exception ends *)
(* the script.  Keys, ciphertexts and labels are left out: only whether a *)
(* step succeeds matters.  A printed line is kept as its layout: the       *)
(* lengths the script computes from the heart rate and terminal width.    *)
(***************************************************************************)
EXTENDS Integers, Sequences, SequencesExt

CONSTANTS
  HeartRates,      \* heart rates the monitor may have encrypted
  TerminalWidths,  \* columns shutil.get_terminal_size() may report
  MsWidths,        \* widths "{:8.2f}" may give the retrieval time in ms
  MaxKits          \* bound: most message kits in heart_data.msgpack

ASSUME /\ HeartRates \subseteq Nat
       /\ TerminalWidths \subseteq Nat \ {0}
       /\ MsWidths \subseteq 8..12

VARIABLES
  pc,     \* the statement the script is at, or "done" / "crashed"
  kits,   \* heart rates of the kits read from heart_data.msgpack
  next,   \* index of the next kit the loop retrieves
  out     \* the lines printed so far, by their layout

vars == <<pc, kits, next, out>>

(***************************************************************************)
(* Layout arithmetic of the pretty-printing block (lines 127-134).         *)
(***************************************************************************)
RECURSIVE Digits(_)
\* len(str(n)) for n >= 0
Digits(n) == IF n < 10 THEN 1 ELSE 1 + Digits(n \div 10)

\* int(x) truncates towards zero.
TruncDiv(a, b) == IF a >= 0 THEN a \div b ELSE -((-a) \div b)

\* int(scale * (heart_rate - 60)) with scale = columns / 40 in binary
\* floating point: the exact quotient truncated, except that when the
\* quotient is a nonzero integer the rounded product may fall just short
\* of it and truncate one step nearer zero.
ScaledHeartRates(columns, rate) ==
  LET p == columns * (rate - 60)
      q == TruncDiv(p, 40)
  IN  IF p % 40 = 0 /\ q # 0
        THEN {q, IF q > 0 THEN q - 1 ELSE q + 1}
        ELSE {q}

\* Seeded fault: the bar taken as the scaled rate, negative ones included.
BarLengthSigned(n) == n

\* "-" * n is empty for n <= 0.
BarLength(n) == IF n > 0 THEN n ELSE 0

\* One printed line: the bar, the "❤︎ (r BPM)" text (9 code points and the
\* digits), left-justified to max_width - 27, then the retrieval time
\* "Retrieval time: " + ms + " ms".
Line(rate, terminal, scaled, msWidth) ==
  LET maxWidth == IF terminal < 120 THEN terminal ELSE 120
      heart == BarLength(scaled) + 9 + Digits(rate)
      padded == IF heart < maxWidth - 27 THEN maxWidth - 27 ELSE heart
  IN  [rate |-> rate, terminal |-> terminal, bar |-> BarLength(scaled),
       length |-> padded + 16 + msWidth + 3]

\* Seeded fault: the bar is scaled to the width without the retrieval
\* column.
LinesNoTimeColumn(rate, terminal, msWidth) ==
  LET columns == (IF terminal < 120 THEN terminal ELSE 120) - 12
  IN  {Line(rate, terminal, s, msWidth) : s \in ScaledHeartRates(columns, rate)}

\* The lines one iteration may print: columns = max_width - 12 - 27.
Lines(rate, terminal, msWidth) ==
  LET columns == (IF terminal < 120 THEN terminal ELSE 120) - 12 - 27
  IN  {Line(rate, terminal, s, msWidth) : s \in ScaledHeartRates(columns, rate)}

(***************************************************************************)
(* The script.  Each step either moves on or raises, which ends it.       *)
(***************************************************************************)
Step(from, to) == pc = from /\ pc' = to

Crash(from) == Step(from, "crashed") /\ UNCHANGED <<kits, next, out>>

Init ==
  /\ pc = "seed"
  /\ kits = <<>>
  /\ next = 1
  /\ out = <<>>

\* Lines 42-55: the seed URI, the old doctor-files removed, the seed Ursula
\* learned from the network (raises when it is unreachable).
ConnectSeed ==
  \/ Step("seed", "bob") /\ UNCHANGED <<kits, next, out>>
  \/ Crash("seed")

\* Lines 57-81: the doctor's stored private keys (raises when missing) and
\* the Bob built on them, which starts learning from the seed Ursula.
CreateDoctor ==
  \/ Step("bob", "policy") /\ UNCHANGED <<kits, next, out>>
  \/ Crash("bob")

\* Lines 83-92: Alicia's policy-metadata.json read and parsed (raises when
\* it is absent or malformed) and the policy joined.
JoinPolicy ==
  \/ Step("policy", "data") /\ UNCHANGED <<kits, next, out>>
  \/ Crash("policy")

\* Lines 97-106: heart_data.msgpack loaded (raises when absent or
\* malformed); its kits are decoded lazily, one per iteration.
LoadHeartData ==
  \/ /\ Step("data", "loop")
     /\ kits' \in BoundedSeq(HeartRates, MaxKits)
     /\ UNCHANGED <<next, out>>
  \/ Crash("data")

(***************************************************************************)
(* Lines 108-135: one iteration.  The kit is decoded and retrieved; the    *)
(* retrieval (or the decoding) may raise, or return no plaintext, and then *)
(* retrieved_plaintexts[0] raises IndexError.  Otherwise the line is       *)
(* printed against the terminal width read in this iteration.              *)
(***************************************************************************)
\* The kit fails to decode, doctor.retrieve raises, or it returns no
\* plaintext and retrieved_plaintexts[0] raises IndexError.
RetrieveRaises ==
  /\ pc = "loop" /\ next <= Len(kits)
  /\ Crash("loop")

RetrieveAndPrint ==
  /\ pc = "loop" /\ next <= Len(kits)
  /\ \E terminal \in TerminalWidths, msWidth \in MsWidths :
       \E line \in Lines(kits[next], terminal, msWidth) :
          out' = Append(out, line)
  /\ next' = next + 1
  /\ UNCHANGED <<pc, kits>>

\* The generator is exhausted and the script ends.
Finish ==
  /\ pc = "loop" /\ next > Len(kits)
  /\ pc' = "done"
  /\ UNCHANGED <<kits, next, out>>

\* The learning loop Bob started (abort_on_learning_error=True) may raise
\* at any point after the doctor exists, ending the script.
LearningAborts ==
  /\ pc \in {"policy", "data", "loop"}
  /\ pc' = "crashed"
  /\ UNCHANGED <<kits, next, out>>

Next ==
  \/ ConnectSeed
  \/ CreateDoctor
  \/ JoinPolicy
  \/ LoadHeartData
  \/ RetrieveRaises
  \/ RetrieveAndPrint
  \/ Finish
  \/ LearningAborts

Spec == Init /\ [][Next]_vars

-----------------------------------------------------------------------------
TypeOK ==
  /\ pc \in {"seed", "bob", "policy", "data", "loop", "done", "crashed"}
  /\ kits \in BoundedSeq(HeartRates, MaxKits)
  /\ next \in 1..MaxKits + 1
  /\ \A k \in 1..Len(out) :
        /\ out[k].rate \in HeartRates
        /\ out[k].bar \in Nat
        /\ out[k].length \in Nat

(* Every printed line fits in the terminal it was printed on: the bar is  *)
(* scaled so that bar, heart rate and the 27-column retrieval time stay   *)
(* within min(terminal width, 120).                                        *)
LineFitsTerminal ==
  \A k \in 1..Len(out) : out[k].length <= out[k].terminal
=============================================================================
