------------------------ MODULE TerminalHistoryProofs ------------------------
(***************************************************************************)
(* Theorems about TerminalHistory, for every capacity of the pending       *)
(* buffer and of the log, and any number of tokens, takes, shells and      *)
(* faults.                                                                 *)
(***************************************************************************)
EXTENDS TerminalHistory, SequenceTheorems, TLAPS

(***************************************************************************)
(* Pieces of a screen.                                                     *)
(***************************************************************************)

\* r is what s shows after its first j tokens.
Piece(r, s, j) ==
  /\ j \in Nat /\ j + Len(r) <= Len(s)
  /\ \A i \in 1 .. Len(r) : r[i] = s[j + i]

\* A screen is a piece of itself, and nothing is a piece of it at every place.
LEMMA PieceOfItself ==
  ASSUME NEW S, NEW s \in Seq(S)
  PROVE  /\ Piece(s, s, 0)
         /\ \A j \in 0 .. Len(s) : Piece(<<>>, s, j)
<1>1. Len(s) \in Nat
  BY LenProperties
<1> QED
  BY <1>1 DEF Piece

\* What was shown is shown when more is.
LEMMA PieceStays ==
  ASSUME NEW S, NEW r \in Seq(S), NEW s \in Seq(S), NEW e \in S, NEW j, Piece(r, s, j)
  PROVE  Piece(r, Append(s, e), j)
<1>1. Len(s) \in Nat /\ Len(r) \in Nat
  BY LenProperties
<1>2. Len(Append(s, e)) = Len(s) + 1 /\ \A i \in 1 .. Len(s) : Append(s, e)[i] = s[i]
  BY <1>1
<1>3. j \in Nat /\ j + Len(r) <= Len(s) /\ \A i \in 1 .. Len(r) : r[i] = s[j + i]
  BY DEF Piece
<1>4. \A i \in 1 .. Len(r) : j + i \in 1 .. Len(s)
  BY <1>1, <1>3
<1> QED
  BY <1>1, <1>2, <1>3, <1>4 DEF Piece

\* The end of a screen follows it when a token comes.
LEMMA EndFollows ==
  ASSUME NEW S, NEW r \in Seq(S), NEW s \in Seq(S), NEW e \in S,
         NEW j, j + Len(r) = Len(s), Piece(r, s, j)
  PROVE  Piece(Append(r, e), Append(s, e), j)
<1>1. Len(s) \in Nat /\ Len(r) \in Nat
  BY LenProperties
<1>2. /\ Len(Append(s, e)) = Len(s) + 1 /\ Append(s, e)[Len(s) + 1] = e
      /\ \A i \in 1 .. Len(s) : Append(s, e)[i] = s[i]
  BY <1>1
<1>3. /\ Len(Append(r, e)) = Len(r) + 1 /\ Append(r, e)[Len(r) + 1] = e
      /\ \A i \in 1 .. Len(r) : Append(r, e)[i] = r[i]
  BY <1>1
<1>4. j \in Nat /\ \A i \in 1 .. Len(r) : r[i] = s[j + i]
  BY DEF Piece
<1>5. ASSUME NEW i \in 1 .. Len(r) + 1
      PROVE  Append(r, e)[i] = Append(s, e)[j + i]
  <2>1. CASE i = Len(r) + 1
    <3>1. j + i = Len(s) + 1
      BY <1>1, <1>4, <2>1
    <3> QED
      BY <1>2, <1>3, <2>1, <3>1
  <2>2. CASE i \in 1 .. Len(r)
    <3>1. j + i \in 1 .. Len(s)
      BY <1>1, <1>4, <2>2
    <3> QED
      BY <1>2, <1>3, <1>4, <2>2, <3>1
  <2>3. i = Len(r) + 1 \/ i \in 1 .. Len(r)
    BY <1>1
  <2> QED
    BY <2>1, <2>2, <2>3
<1>6. j + Len(Append(r, e)) <= Len(Append(s, e))
  BY <1>1, <1>2, <1>3, <1>4
<1> QED
  BY <1>3, <1>4, <1>5, <1>6 DEF Piece

\* A screen seeded with two parts begins with the first.
LEMMA PieceOfSeed ==
  ASSUME NEW S, NEW r \in Seq(S), NEW s \in Seq(S)
  PROVE  Piece(r, r \o s, 0)
<1>1. Len(s) \in Nat /\ Len(r) \in Nat
  BY LenProperties
<1>2. /\ Len(r \o s) = Len(r) + Len(s)
      /\ \A i \in 1 .. Len(r) + Len(s) :
           (r \o s)[i] = IF i <= Len(r) THEN r[i] ELSE s[i - Len(r)]
  BY ConcatProperties
<1>3. ASSUME NEW i \in 1 .. Len(r) PROVE r[i] = (r \o s)[0 + i]
  BY <1>1, <1>2
<1> QED
  BY <1>1, <1>2, <1>3 DEF Piece

\* A screen seeded with two parts has the second behind the first.
LEMMA RestOfSeed ==
  ASSUME NEW S, NEW r \in Seq(S), NEW s \in Seq(S)
  PROVE  Len(r) \in 0 .. Len(r \o s) /\ Piece(s, r \o s, Len(r))
<1>1. Len(s) \in Nat /\ Len(r) \in Nat
  BY LenProperties
<1>2. /\ Len(r \o s) = Len(r) + Len(s)
      /\ \A i \in 1 .. Len(r) + Len(s) :
           (r \o s)[i] = IF i <= Len(r) THEN r[i] ELSE s[i - Len(r)]
  BY ConcatProperties
<1>3. ASSUME NEW i \in 1 .. Len(s) PROVE s[i] = (r \o s)[Len(r) + i]
  <2>1. Len(r) + i \in 1 .. Len(r) + Len(s) /\ ~(Len(r) + i <= Len(r)) /\ Len(r) + i - Len(r) = i
    BY <1>1
  <2> QED
    BY <1>2, <2>1
<1> QED
  BY <1>1, <1>2, <1>3 DEF Piece

\* Two pieces, one behind the other, are one.
LEMMA PiecesJoin ==
  ASSUME NEW S, NEW q \in Seq(S), NEW r \in Seq(S), NEW s \in Seq(S), NEW j,
         Piece(q, s, j), Piece(r, s, j + Len(q))
  PROVE  Piece(q \o r, s, j)
<1>1. Len(q) \in Nat /\ Len(r) \in Nat /\ Len(s) \in Nat
  BY LenProperties
<1>2. /\ Len(q \o r) = Len(q) + Len(r)
      /\ \A i \in 1 .. Len(q) + Len(r) :
           (q \o r)[i] = IF i <= Len(q) THEN q[i] ELSE r[i - Len(q)]
  BY ConcatProperties
<1>3. /\ j \in Nat /\ j + Len(q) + Len(r) <= Len(s)
      /\ \A i \in 1 .. Len(q) : q[i] = s[j + i]
      /\ \A i \in 1 .. Len(r) : r[i] = s[j + Len(q) + i]
  BY DEF Piece
<1>4. ASSUME NEW i \in 1 .. Len(q) + Len(r)
      PROVE  (q \o r)[i] = s[j + i]
  <2>1. CASE i <= Len(q)
    BY <1>1, <1>2, <1>3, <2>1
  <2>2. CASE ~(i <= Len(q))
    <3>1. i - Len(q) \in 1 .. Len(r) /\ j + Len(q) + (i - Len(q)) = j + i
      BY <1>1, <1>3, <2>2
    <3> QED
      BY <1>2, <1>3, <2>2, <3>1
  <2> QED
    BY <2>1, <2>2
<1> QED
  BY <1>1, <1>2, <1>3, <1>4 DEF Piece

\* A sequence with one element more.
LEMMA OneMore ==
  ASSUME NEW S, NEW s \in Seq(S), NEW e \in S
  PROVE  /\ Append(s, e) \in Seq(S) /\ Append(s, e) # <<>>
         /\ Len(Append(s, e)) = Len(s) + 1 /\ Append(s, e)[Len(s) + 1] = e
         /\ \A i \in 1 .. Len(s) : Append(s, e)[i] = s[i]
<1>1. Len(s) \in Nat
  BY LenProperties
<1>2. /\ Append(s, e) \in Seq(S)
      /\ Len(Append(s, e)) = Len(s) + 1 /\ Append(s, e)[Len(s) + 1] = e
      /\ \A i \in 1 .. Len(s) : Append(s, e)[i] = s[i]
  BY <1>1
<1>3. Append(s, e) # <<>>
  <2>1. Len(<<>>) = 0
    BY EmptySeq
  <2>2. Len(Append(s, e)) # 0
    BY <1>1, <1>2
  <2> QED
    BY <2>1, <2>2
<1> QED
  BY <1>2, <1>3

\* What is cut from a sequence.
LEMMA CutSeq ==
  ASSUME NEW S, NEW r \in Seq(S), NEW n \in 0 .. Len(r)
  PROVE  /\ SubSeq(r, 1, n) \in Seq(S) /\ Len(SubSeq(r, 1, n)) = n
         /\ \A i \in 1 .. n : SubSeq(r, 1, n)[i] = r[i]
         /\ n = Len(r) => SubSeq(r, 1, n) = r
<1>1. Len(r) \in Nat
  BY LenProperties
<1>2. \A i \in 1 .. n : r[i] \in S
  BY <1>1, ElementOfSeq
<1>3. n \in Int /\ 1 \in Int
  BY <1>1
<1>4. /\ SubSeq(r, 1, n) \in Seq(S)
      /\ Len(SubSeq(r, 1, n)) = IF 1 <= n THEN n - 1 + 1 ELSE 0
      /\ \A i \in 1 .. n - 1 + 1 : SubSeq(r, 1, n)[i] = r[1 + i - 1]
  BY <1>2, <1>3, SubSeqProperties
<1> QED
  BY <1>1, <1>4, SubSeqFull

\* The beginning of a piece is one.
LEMMA PieceIsCut ==
  ASSUME NEW S, NEW r \in Seq(S), NEW s \in Seq(S), NEW j, Piece(r, s, j), NEW n \in 0 .. Len(r)
  PROVE  Piece(SubSeq(r, 1, n), s, j)
<1>1. Len(r) \in Nat /\ Len(s) \in Nat
  BY LenProperties
<1>2. Len(SubSeq(r, 1, n)) = n /\ \A i \in 1 .. n : SubSeq(r, 1, n)[i] = r[i]
  BY CutSeq
<1> QED
  BY <1>1, <1>2 DEF Piece

\* A beginning of a beginning is one.
LEMMA PieceOfPiece ==
  ASSUME NEW S, NEW q \in Seq(S), NEW r \in Seq(S), NEW s \in Seq(S), Piece(q, r, 0), Piece(r, s, 0)
  PROVE  Piece(q, s, 0)
<1>1. Len(q) \in Nat /\ Len(r) \in Nat /\ Len(s) \in Nat
  BY LenProperties
<1> QED
  BY <1>1 DEF Piece

\* A piece at the beginning is a prefix.
LEMMA PieceIsPrefix ==
  ASSUME NEW S, NEW r \in Seq(S), NEW s \in Seq(S), Piece(r, s, 0)
  PROVE  IsPrefix(r, s)
<1>1. Len(r) \in Nat /\ Len(s) \in Nat /\ Len(r) <= Len(s)
  BY LenProperties DEF Piece
<1>2. SubSeq(r, 1, Len(r)) = SubSeq(s, 1, Len(r))
  <2>1. \A i \in 1 .. Len(r) : r[i] = s[i] /\ r[i] \in S
    BY <1>1, ElementOfSeq DEF Piece
  <2>2. SubSeq(r, 1, Len(r)) = r
    BY SubSeqFull
  <2>3. \A i \in 1 .. Len(r) : s[i] \in S
    BY <2>1
  <2>4. /\ SubSeq(s, 1, Len(r)) \in Seq(S)
        /\ Len(SubSeq(s, 1, Len(r))) = IF 1 <= Len(r) THEN Len(r) - 1 + 1 ELSE 0
        /\ \A i \in 1 .. Len(r) - 1 + 1 : SubSeq(s, 1, Len(r))[i] = s[1 + i - 1]
    <3>1. Len(r) \in Int /\ 1 \in Int
      BY <1>1
    <3> QED
      BY <2>3, <3>1, SubSeqProperties
  <2>5. Len(SubSeq(s, 1, Len(r))) = Len(r) /\ \A i \in 1 .. Len(r) : SubSeq(s, 1, Len(r))[i] = r[i]
    BY <1>1, <2>1, <2>4
  <2> QED
    BY <2>2, <2>4, <2>5, SeqEqual
<1> QED
  BY <1>1, <1>2 DEF IsPrefix

\* A piece anywhere is a subsequence.
LEMMA PieceIsSubSeq ==
  ASSUME NEW S, NEW r \in Seq(S), NEW s \in Seq(S), NEW j, Piece(r, s, j)
  PROVE  r = SubSeq(s, j + 1, j + Len(r))
<1>1. Len(r) \in Nat /\ Len(s) \in Nat /\ j \in Nat /\ j + Len(r) <= Len(s)
  BY LenProperties DEF Piece
<1>2. \A i \in 1 .. Len(r) : r[i] = s[j + i]
  BY DEF Piece
<1>3. \A m, n \in Int :
        m = j + 1 /\ n = j + Len(r) => SubSeq(s, m, n) \in Seq(S) /\ SubSeq(s, m, n) = r
  <2> SUFFICES ASSUME NEW m \in Int, NEW n \in Int, m = j + 1, n = j + Len(r)
               PROVE  SubSeq(s, m, n) \in Seq(S) /\ SubSeq(s, m, n) = r
    OBVIOUS
  <2>1. \A i \in m .. n : i \in 1 .. Len(s)
    BY <1>1
  <2>2. \A i \in m .. n : s[i] \in S
    BY <2>1, ElementOfSeq
  <2>3. /\ SubSeq(s, m, n) \in Seq(S)
        /\ Len(SubSeq(s, m, n)) = IF m <= n THEN n - m + 1 ELSE 0
        /\ \A i \in 1 .. n - m + 1 : SubSeq(s, m, n)[i] = s[m + i - 1]
    BY <2>2, SubSeqProperties
  <2>4. n - m + 1 = Len(r) /\ \A i \in 1 .. Len(r) : m + i - 1 = j + i
    BY <1>1
  <2>5. Len(SubSeq(s, m, n)) = Len(r) /\ \A i \in 1 .. Len(r) : SubSeq(s, m, n)[i] = r[i]
    BY <1>1, <1>2, <2>3, <2>4
  <2> QED
    BY <2>3, <2>5, SeqEqual
<1> QED
  BY <1>1, <1>3

-----------------------------------------------------------------------------
(***************************************************************************)
(* The invariant.                                                          *)
(***************************************************************************)

Takes == [seq : Nat, records : Tokens, overflowed : BOOLEAN, snapshot : Tokens]

Logs == [gen : Nat, seqs : Seq(Nat), records : Tokens, tail : {"missing", "whole", "torn", "garbled"}]

Passes ==
  [pc : {"idle", "asked", "replied", "append", "tmp", "reset"},
   kind : {"tick", "flagged", "escalated", "final"}, take : Takes, gen : Nat]

\* The types of the variables, and the limits.
DaemonShape ==
  /\ live \in BOOLEAN /\ overflowed \in BOOLEAN /\ exiting \in BOOLEAN /\ up \in BOOLEAN
  /\ linked \in BOOLEAN

AppShape ==
  /\ active \in BOOLEAN /\ dirty \in BOOLEAN /\ needFull \in BOOLEAN
  /\ cooling \in BOOLEAN /\ excused \in BOOLEAN

StageShape ==
  /\ writer \in {"none", "on", "disabled"} /\ cached \in {"no", "restore", "sleep"}
  /\ leaving \in {"no", "quit", "sleep"} /\ meta \in {"none", "open", "ended"}
  /\ faults \in Nat /\ asked \in Nat

SessionShape ==
  /\ screen \in Tokens /\ pending \in Tokens /\ past \subseteq Tokens
  /\ Len(pending) <= PendingMax
  /\ seq \in Nat /\ produced \in 0 .. MaxOutput

FileShape ==
  /\ ckpt \in [content : Tokens, gen : Nat] /\ log \in Logs
  /\ log.tail = "missing" => log = NoLog
  /\ log.seqs = <<>> => log.records = <<>>
  /\ Len(log.records) <= LogMax

PassShape ==
  /\ pass \in Passes
  /\ pass.pc = "append" => Len(log.records) + Len(pass.take.records) <= LogMax

ShapeInv == SessionShape /\ FileShape /\ PassShape

\* A tick's records are between the daemon and the log, or a snapshot between it and the disk.
InFlight ==
  pass.pc \in {"replied", "append"} /\ ~Full /\ pass.take.seq # 0 /\ ~pass.take.overflowed
Shot == pass.pc \in {"replied", "tmp", "reset"} /\ Full /\ pass.take.seq # 0

\* How many tokens of the screen have been drained; the rest is pending, or overflowed.
Drained == Len(screen) - Len(pending)
PendAt(e) == overflowed \/ e = Drained
TakeAt(e) == Piece(pass.take.records, screen, e) /\ PendAt(e + Len(pass.take.records))

\* There is a history that the model vouches for.
Open == meta = "open" /\ ~excused

\* What is pending is the end of the screen.
PendingInv ==
  /\ Len(pending) <= Len(screen) /\ Piece(pending, screen, Drained)
  /\ overflowed => pending = <<>>

\* The checkpoint is a beginning of the screen, all of it drained.
CkptInv == Open => Piece(ckpt.content, screen, 0) /\ Len(ckpt.content) <= Drained

\* What a pass knows of its take, by its stage.
PassInv ==
  /\ pass.pc \in {"asked", "idle"} => pass.take.seq = 0
  /\ pass.pc = "append" => ~Full /\ pass.take.seq # 0 /\ ~pass.take.overflowed
  /\ pass.pc \in {"tmp", "reset"} => Full /\ pass.take.seq # 0
  /\ pass.pc = "replied" /\ pass.take.seq = 0 => ~live
  /\ pass.take.seq # 0 => pass.take.seq = seq
  /\ pass.pc = "tmp" => pass.gen = LogGeneration + 1
  /\ pass.pc = "reset" => /\ ckpt = [content |-> pass.take.snapshot, gen |-> pass.gen]
                          /\ log.tail # "missing" => log.gen # pass.gen

\* A snapshot in flight is a beginning of the screen that ends where pending output starts, and
\* continues the checkpoint it will replace.
ShotInv ==
  Shot => /\ Piece(pass.take.snapshot, screen, 0)
          /\ Len(pass.take.snapshot) <= Drained /\ PendAt(Len(pass.take.snapshot))
          /\ Open => Piece(ckpt.content, pass.take.snapshot, 0)

\* The records of a tick in flight are a piece of the screen behind the checkpoint.
FlightInv ==
  InFlight => \E j \in 0 .. Len(screen) : TakeAt(j) /\ (Open => Len(ckpt.content) <= j)

-----------------------------------------------------------------------------
(***************************************************************************)
(* The log.                                                                *)
(***************************************************************************)

\* The log with one more batch, cut after n records.
Longer(n, t) ==
  [gen |-> LogGeneration, seqs |-> Append(log.seqs, pass.take.seq),
   records |-> log.records \o SubSeq(pass.take.records, 1, n), tail |-> t]

Garbled == [log EXCEPT !.tail = "garbled"]

\* The parts of the state that are records.
LEMMA Parts ==
  ASSUME ShapeInv
  PROVE  /\ pass.pc \in {"idle", "asked", "replied", "append", "tmp", "reset"}
         /\ pass.kind \in {"tick", "flagged", "escalated", "final"} /\ pass.gen \in Nat
         /\ pass.take.seq \in Nat /\ pass.take.records \in Seq(Token)
         /\ pass.take.overflowed \in BOOLEAN /\ pass.take.snapshot \in Seq(Token)
         /\ ckpt.content \in Seq(Token) /\ ckpt.gen \in Nat
         /\ log.gen \in Nat /\ log.seqs \in Seq(Nat) /\ log.records \in Seq(Token)
         /\ log.tail \in {"missing", "whole", "torn", "garbled"}
         /\ screen \in Seq(Token) /\ pending \in Seq(Token)
         /\ LogGeneration \in Nat
  BY DEF ShapeInv, SessionShape, FileShape, PassShape, Passes, Takes, Logs, Tokens, LogGeneration

\* What an append writes.
LEMMA AppendWrites ==
  ASSUME ShapeInv, NEW n
  PROVE  \/ log.tail \in {"missing", "whole"} /\ Appended(pass.take, n) = Longer(n, "whole")
         \/ log.tail \in {"torn", "garbled"} /\ Appended(pass.take, n) = Garbled
<1>1. log.tail \in {"missing", "whole", "torn", "garbled"}
  BY Parts
<1> QED
  BY <1>1 DEF Appended, Longer, Garbled

\* What a write leaves that does not complete.
LEMMA CutLeaves ==
  ASSUME ShapeInv, NEW l \in CutShort
  PROVE  \/ l = log
         \/ pass.pc = "reset" /\ l = NoLog
         \/ /\ pass.pc = "append" /\ log.tail \in {"missing", "whole"}
            /\ \E n \in 0 .. Len(pass.take.records) : l = Longer(n, "torn")
         \/ pass.pc = "append" /\ log.tail \in {"torn", "garbled"} /\ l = Garbled
<1>1. CASE pass.pc = "append"
  <2>1. CASE l = log
    BY <2>1
  <2>2. CASE l # log
    <3>1. PICK n \in 0 .. Len(pass.take.records) :
            l = [Appended(pass.take, n) EXCEPT !.tail = IF @ = "whole" THEN "torn" ELSE @]
      BY <1>1, <2>2 DEF CutShort
    <3>2. CASE log.tail \in {"missing", "whole"} /\ Appended(pass.take, n) = Longer(n, "whole")
      <4>1. l = [Longer(n, "whole") EXCEPT !.tail = "torn"]
        <5>1. Longer(n, "whole").tail = "whole"
          BY DEF Longer
        <5> QED
          BY <3>1, <3>2, <5>1
      <4>2. l = Longer(n, "torn")
        BY <4>1 DEF Longer
      <4> QED
        BY <1>1, <3>2, <4>2
    <3>3. CASE log.tail \in {"torn", "garbled"} /\ Appended(pass.take, n) = Garbled
      <4>1. l = Garbled
        BY <3>1, <3>3, Parts DEF Garbled, ShapeInv, FileShape, Logs
      <4> QED
        BY <1>1, <3>3, <4>1
    <3> QED
      BY <3>2, <3>3, AppendWrites
  <2> QED
    BY <2>1, <2>2
<1>2. CASE pass.pc = "reset"
  BY <1>2 DEF CutShort
<1>3. CASE pass.pc \notin {"append", "reset"}
  BY <1>3 DEF CutShort
<1> QED
  BY <1>1, <1>2, <1>3

\* The shape of a log with one more batch.
LEMMA LongerIsLog ==
  ASSUME ShapeInv, NEW n \in 0 .. Len(pass.take.records), NEW t \in {"whole", "torn"}
  PROVE  /\ Longer(n, t) \in Logs /\ Longer(n, t).seqs # <<>>
         /\ Len(Longer(n, t).records) = Len(log.records) + n
         /\ Len(Longer(n, t).seqs) = Len(log.seqs) + 1
         /\ n = Len(pass.take.records) =>
              Longer(n, t).records = log.records \o pass.take.records
<1> DEFINE cut == SubSeq(pass.take.records, 1, n)
<1>1. Len(pass.take.records) \in Nat /\ Len(log.records) \in Nat /\ Len(log.seqs) \in Nat
  BY Parts, LenProperties
<1>2. /\ cut \in Seq(Token) /\ Len(cut) = n
      /\ n = Len(pass.take.records) => cut = pass.take.records
  BY Parts, CutSeq
<1>3. /\ log.records \o cut \in Seq(Token)
      /\ Len(log.records \o cut) = Len(log.records) + n
  <2> HIDE DEF cut
  <2> QED
    BY <1>2, Parts, ConcatProperties
<1>4. /\ Append(log.seqs, pass.take.seq) \in Seq(Nat)
      /\ Len(Append(log.seqs, pass.take.seq)) = Len(log.seqs) + 1
      /\ Append(log.seqs, pass.take.seq) # <<>>
  <2>1. ASSUME NEW s \in Seq(Nat), NEW e \in Nat
        PROVE  Append(s, e) \in Seq(Nat) /\ Len(Append(s, e)) = Len(s) + 1 /\ Append(s, e) # <<>>
    <3>1. Len(s) \in Nat /\ Len(Append(s, e)) = Len(s) + 1 /\ Append(s, e) \in Seq(Nat)
      BY LenProperties
    <3>2. Len(<<>>) = 0 /\ Len(Append(s, e)) # 0
      BY <3>1, EmptySeq
    <3>3. Append(s, e) # <<>>
      BY <3>2
    <3> QED
      BY <3>1, <3>3
  <2> QED
    BY <2>1, Parts
<1> HIDE DEF cut
<1>5. Longer(n, t) = [gen |-> LogGeneration, seqs |-> Append(log.seqs, pass.take.seq),
                      records |-> log.records \o cut, tail |-> t]
  BY DEF Longer, cut
<1>6. Longer(n, t) \in Logs
  <2>1. LogGeneration \in Nat /\ log.records \o cut \in Tokens
    BY <1>3, Parts DEF Tokens
  <2> QED
    BY <1>4, <1>5, <2>1 DEF Logs
<1>7. /\ Longer(n, t).seqs = Append(log.seqs, pass.take.seq)
      /\ Longer(n, t).records = log.records \o cut
  BY <1>5
<1> QED
  BY <1>2, <1>3, <1>4, <1>6, <1>7

\* A write that does not complete leaves a log, within its cap.
LEMMA CutIsLog ==
  ASSUME ShapeInv, NEW l \in CutShort
  PROVE  /\ l \in Logs /\ (l.tail = "missing" => l = NoLog) /\ (l.seqs = <<>> => l.records = <<>>)
         /\ Len(l.records) <= LogMax
<1>1. CASE l = log
  BY <1>1 DEF ShapeInv, FileShape
<1>2. CASE l = NoLog
  <2>1. Len(NoLog.records) = 0 /\ NoLog.seqs = <<>> /\ NoLog.records = <<>> /\ NoLog \in Logs
    BY EmptySeq DEF NoLog, Logs, Tokens
  <2> QED
    BY <1>2, <2>1, HistoryAssumption
<1>3. ASSUME pass.pc = "append", NEW n \in 0 .. Len(pass.take.records), l = Longer(n, "torn")
      PROVE  /\ l \in Logs /\ l.tail = "torn" /\ l.seqs # <<>> /\ Len(l.records) <= LogMax
  <2>1. Len(log.records) + Len(pass.take.records) <= LogMax
    BY <1>3 DEF ShapeInv, PassShape
  <2>2. Len(pass.take.records) \in Nat /\ Len(log.records) \in Nat
    BY Parts, LenProperties
  <2>3. /\ Longer(n, "torn") \in Logs /\ Longer(n, "torn").seqs # <<>>
        /\ Len(Longer(n, "torn").records) = Len(log.records) + n
    BY LongerIsLog
  <2>4. Longer(n, "torn").tail = "torn"
    BY DEF Longer
  <2>5. Len(log.records) + n <= LogMax
    <3>1. \A a, b \in Nat : \A c \in 0 .. b : a + b <= LogMax => a + c <= LogMax
      BY HistoryAssumption
    <3> QED
      BY <2>1, <2>2, <3>1
  <2> QED
    BY <1>3, <2>3, <2>4, <2>5
<1>4. CASE l = Garbled
  <2>1. /\ l.tail = "garbled" /\ l.seqs = log.seqs /\ l.records = log.records /\ l.gen = log.gen
        /\ l \in Logs
    BY <1>4 DEF Garbled, ShapeInv, FileShape, Logs
  <2> QED
    BY <2>1 DEF ShapeInv, FileShape
<1> QED
  BY <1>1, <1>2, <1>3, <1>4, CutLeaves

-----------------------------------------------------------------------------
(***************************************************************************)
(* Types and limits.                                                       *)
(***************************************************************************)

\* A restore brings back tokens.
LEMMA RestoredTokens ==
  ASSUME ShapeInv
  PROVE  Restored \in Tokens
<1>1. ckpt.content \o log.records \in Seq(Token)
  BY Parts, ConcatProperties
<1> QED
  BY <1>1, Parts DEF Restored, Tokens

\* The constants of the model have the shapes of what they stand for.
LEMMA EmptyShapes ==
  /\ <<>> \in Tokens /\ Len(<<>>) = 0
  /\ NoTake \in Takes /\ Idle.pc = "idle" /\ NoCkpt \in [content : Tokens, gen : Nat]
  /\ Idle \in Passes
  /\ NoLog \in Logs /\ NoLog.seqs = <<>> /\ NoLog.records = <<>>
<1>1. <<>> \in Tokens /\ Len(<<>>) = 0 /\ <<>> \in Seq(Nat)
  BY EmptySeq DEF Tokens
<1>2. NoTake \in Takes
  BY <1>1 DEF NoTake, Takes
<1> QED
  BY <1>1, <1>2 DEF Idle, Passes, NoCkpt, NoLog, Logs

\* A pass that is asked for has the shape of one.
LEMMA AskedShape ==
  ASSUME NEW kind \in {"tick", "flagged", "escalated", "final"}
  PROVE  /\ Asked(kind) \in Passes
         /\ Asked(kind).pc = "asked" /\ Asked(kind).take = NoTake /\ Asked(kind).kind = kind
  BY EmptyShapes DEF Asked, Idle, Passes

-----------------------------------------------------------------------------
(***************************************************************************)
(* The kinds of steps.                                                     *)
(***************************************************************************)

Spawn == ColdRestore \/ Fresh \/ StaleRestore \/ RacedRestore

Writes == AppendIncrements \/ Rename \/ ResetLog \/ WriteFails \/ QuitEnds \/ AppCrashes

\* The other steps, which change neither the screen nor the disk.
Control ==
  \/ Touched \/ CooldownEnds \/ Ack \/ AppStarts \/ ExitEvent \/ ShellExits
  \/ TimerFires \/ Receive \/ RequestTimesOut
  \/ (\E how \in {"quit", "sleep"} : Leave(how)) \/ SleepEnds
  \/ Attach \/ LinkDrops \/ DaemonDies \/ UNCHANGED historyVars

\* Every step is of one of these kinds.
LEMMA StepKinds ==
  ASSUME [HistoryNext]_historyVars
  PROVE  Output \/ Take \/ Spawn \/ Writes \/ Control
  BY DEF HistoryNext, PassSteps, Spawn, Writes, Control

\* The reply of a take is dropped, or written.
Ends == pass' = Idle /\ needFull' = IF pass.kind \in {"flagged", "final"} THEN FALSE ELSE needFull
Moves(pc) ==
  /\ pass' = [pass EXCEPT !.pc = pc, !.gen = LogGeneration + 1]
  /\ needFull' = needFull /\ writer = "on" /\ pass.take.seq # 0

\* A reply that is dropped had nothing to write, or no writer.
Nothing ==
  /\ pass.take.seq # 0 => (writer # "on" \/ (~Full /\ pass.take.records = <<>>))
  /\ ~Full /\ pass.take.seq # 0 => ~pass.take.overflowed

\* The checkpoint is full now, or later.
Escalates ==
  \/ pass' = Idle /\ needFull' = TRUE
  \/ pass' = Asked("escalated") /\ needFull' = needFull

\* What becomes of a reply.
LEMMA Replies ==
  ASSUME Receive
  PROVE  /\ pass.pc = "replied"
         /\ \/ Full /\ Moves("tmp")
            \/ Nothing /\ Ends
            \/ ~Full /\ pass.take.seq # 0 /\ Escalates
            \/ ~Full /\ ~pass.take.overflowed /\ ~LogIsFull(pass.take) /\ Moves("append")
<1>1. Escalate => Escalates
  BY DEF Escalate, Escalates, Defer
<1>2. Done => Ends
  BY DEF Done, Ends
<1>3. pass.pc = "replied"
  BY DEF Receive
<1>4. CASE pass.take.seq # 0 /\ Full /\ writer = "on"
  BY <1>3, <1>4 DEF Receive, Moves
<1>5. CASE pass.take.seq # 0 /\ Full /\ writer # "on"
  <2>1. Done
    BY <1>5 DEF Receive
  <2> QED
    BY <1>2, <1>3, <1>5, <2>1 DEF Nothing
<1>6. CASE pass.take.seq # 0 /\ ~Full /\ pass.take.overflowed
  <2>1. Escalate
    BY <1>6 DEF Receive
  <2> QED
    BY <1>1, <1>3, <1>6, <2>1
<1>7. CASE pass.take.seq # 0 /\ ~Full /\ ~pass.take.overflowed /\ pass.take.records # <<>> /\ writer = "on"
  <2>1. CASE LogIsFull(pass.take)
    <3>1. Escalate
      BY <1>7, <2>1 DEF Receive
    <3> QED
      BY <1>1, <1>3, <1>7, <3>1
  <2>2. CASE ~LogIsFull(pass.take)
    BY <1>3, <1>7, <2>2 DEF Receive, Moves
  <2> QED
    BY <2>1, <2>2
<1>8. CASE pass.take.seq # 0 /\ ~Full /\ ~pass.take.overflowed /\ pass.take.records # <<>> /\ writer # "on"
  <2>1. Done
    BY <1>8 DEF Receive
  <2> QED
    BY <1>2, <1>3, <1>8, <2>1 DEF Nothing
<1>9. CASE pass.take.seq = 0 \/ (~Full /\ ~pass.take.overflowed /\ pass.take.records = <<>>)
  <2>1. Done
    BY <1>9 DEF Receive
  <2> QED
    BY <1>2, <1>3, <1>9, <2>1 DEF Nothing
<1> QED
  BY <1>4, <1>5, <1>6, <1>7, <1>8, <1>9

\* What control leaves alone.
LEMMA ControlIsCalm ==
  ASSUME Control
  PROVE  /\ UNCHANGED <<screen, pending, overflowed, seq, produced, ckpt, log, past>>
         /\ live' => live
         /\ Open' => Open
<1> USE DEF Open
<1>1. CASE Touched \/ CooldownEnds \/ Ack \/ AppStarts
  BY <1>1 DEF Touched, CooldownEnds, Ack, AppStarts, session, flags, disk, ghosts
<1>2. CASE ExitEvent \/ ShellExits
  BY <1>2 DEF ExitEvent, ShellExits, session, flags, disk, ghosts
<1>3. CASE TimerFires \/ RequestTimesOut \/ \E how \in {"quit", "sleep"} : Leave(how)
  BY <1>3 DEF TimerFires, RequestTimesOut, Leave, session, flags, disk, ghosts
<1>4. CASE Receive
  BY <1>4 DEF Receive, session, disk, ghosts
<1>5. CASE SleepEnds
  BY <1>5 DEF SleepEnds, disk, ghosts
<1>6. CASE Attach
  BY <1>6 DEF Attach, Reopen, Reanchor, session, disk
<1>7. CASE LinkDrops \/ DaemonDies
  BY <1>7 DEF LinkDrops, DaemonDies, Unlink, session, flags, disk, ghosts
<1>8. CASE UNCHANGED historyVars
  BY <1>8 DEF historyVars, session, flags, disk, ghosts
<1> QED
  BY <1>1, <1>2, <1>3, <1>4, <1>5, <1>6, <1>7, <1>8 DEF Control

\* What control does to the pass.
LEMMA ControlOfPass ==
  ASSUME Control
  PROVE  \/ pass' = pass
         \/ pass' = Idle
         \/ \E kind \in {"tick", "flagged", "escalated", "final"} : pass' = Asked(kind)
         \/ pass.pc = "replied" /\ Full /\ Moves("tmp")
         \/ /\ pass.pc = "replied" /\ ~Full /\ ~pass.take.overflowed /\ ~LogIsFull(pass.take)
            /\ Moves("append")
<1>1. CASE Touched \/ CooldownEnds \/ Ack \/ AppStarts \/ ExitEvent \/ ShellExits
  BY <1>1 DEF Touched, CooldownEnds, Ack, AppStarts, ExitEvent, ShellExits
<1>2. CASE TimerFires \/ RequestTimesOut \/ \E how \in {"quit", "sleep"} : Leave(how)
  BY <1>2 DEF TimerFires, RequestTimesOut, Leave
<1>3. CASE Receive
  BY <1>3, Replies DEF Ends, Escalates
<1>4. CASE SleepEnds \/ Attach
  BY <1>4 DEF SleepEnds, Attach
<1>5. CASE LinkDrops \/ DaemonDies
  BY <1>5 DEF LinkDrops, DaemonDies, Unlink
<1>6. CASE UNCHANGED historyVars
  BY <1>6 DEF historyVars
<1> QED
  BY <1>1, <1>2, <1>3, <1>4, <1>5, <1>6 DEF Control

\* What writes leave alone.
LEMMA WritesAreCalm ==
  ASSUME Writes
  PROVE  /\ UNCHANGED <<live, screen, pending, overflowed, seq, produced, past>>
         /\ Open' = Open
         /\ pass' = Idle \/ Rename
<1> USE DEF Open
<1>1. CASE AppendIncrements
  BY <1>1 DEF AppendIncrements, Done, session, ghosts
<1>2. CASE Rename
  BY <1>2 DEF Rename, session, ghosts
<1>3. CASE ResetLog
  BY <1>3 DEF ResetLog, Done, session, ghosts
<1>4. CASE WriteFails
  BY <1>4 DEF WriteFails, Done, session, ghosts
<1>5. CASE QuitEnds \/ AppCrashes
  BY <1>5 DEF QuitEnds, AppCrashes, AppGone, session, ghosts
<1> QED
  BY <1>1, <1>2, <1>3, <1>4, <1>5 DEF Writes

\* A spawn finds no pass, and starts a shell that shows what is restored, or nothing.
LEMMA SpawnStarts ==
  ASSUME Spawn
  PROVE  /\ pass.pc = "idle" /\ pass' = pass /\ live' = TRUE /\ active' = TRUE
         /\ pending' = <<>> /\ overflowed' = FALSE /\ seq' = 0 /\ produced' = produced
         /\ \/ /\ screen' = <<>> /\ ckpt' = NoCkpt /\ log' = NoLog /\ past' = {}
               /\ Fresh
            \/ /\ screen' = <<>> /\ UNCHANGED <<ckpt, log>> /\ past' = past \cup {screen} /\ ~Open'
               /\ StaleRestore
            \/ /\ screen' = Restored /\ UNCHANGED <<ckpt, log>> /\ past' = past \cup {screen}
               /\ ColdRestore \/ RacedRestore
               /\ Open' => Open
<1> USE DEF Open
<1>1. CASE Fresh
  BY <1>1 DEF Fresh, MaySpawn, NewSession, OpenSession
<1>2. CASE StaleRestore
  BY <1>2 DEF StaleRestore, MaySpawn, NewSession, Reopen
<1>3. CASE ColdRestore
  BY <1>3 DEF ColdRestore, MaySpawn, NewSession, Reopen, Reanchor, disk
<1>4. CASE RacedRestore
  BY <1>4 DEF RacedRestore, MaySpawn, NewSession
<1> QED
  BY <1>1, <1>2, <1>3, <1>4 DEF Spawn

-----------------------------------------------------------------------------
(***************************************************************************)
(* Each part of the invariant is kept.                                     *)
(***************************************************************************)

\* The daemon's flags stay flags.
LEMMA DaemonShapeStep ==
  ASSUME DaemonShape, [HistoryNext]_historyVars
  PROVE  DaemonShape'
<1> USE DEF DaemonShape
<1>1. CASE Output
  BY <1>1 DEF Output, Record, flags, disk, ghosts
<1>2. CASE Take
  BY <1>2 DEF Take, session, flags, disk, ghosts
<1>3. CASE Touched \/ CooldownEnds
  BY <1>3 DEF Touched, CooldownEnds, session, flags, disk, ghosts
<1>4. CASE ExitEvent
  BY <1>4 DEF ExitEvent, session, flags, disk, ghosts
<1>5. CASE Receive
  BY <1>5 DEF Receive, session, flags, disk, ghosts
<1>6. CASE AppendIncrements
  BY <1>6 DEF AppendIncrements, Done, session, flags, ghosts
<1>7. CASE WriteFails
  BY <1>7 DEF WriteFails, Done, session, ghosts
<1>8. CASE QuitEnds \/ AppCrashes
  BY <1>8 DEF QuitEnds, AppCrashes, AppGone, session, ghosts
<1>9. CASE RequestTimesOut \/ \E how \in {"quit", "sleep"} : Leave(how)
  BY <1>9 DEF RequestTimesOut, Leave, session, flags, disk, ghosts
<1>10. CASE SleepEnds
  BY <1>10 DEF SleepEnds, session, flags, disk, ghosts
<1>11. CASE Attach
  BY <1>11 DEF Attach, Reopen, Reanchor, session, disk
<1>12. CASE ColdRestore
  BY <1>12 DEF ColdRestore, NewSession, Reopen, Reanchor, disk
<1>13. CASE Fresh
  BY <1>13 DEF Fresh, NewSession, OpenSession
<1>14. CASE StaleRestore
  BY <1>14 DEF StaleRestore, NewSession, Reopen
<1>15. CASE RacedRestore
  BY <1>15 DEF RacedRestore, NewSession
<1>16. CASE LinkDrops \/ DaemonDies
  BY <1>16 DEF LinkDrops, DaemonDies, Unlink, session, flags, disk, ghosts
<1>17. CASE UNCHANGED historyVars
  BY <1>17 DEF historyVars, session, flags, disk, ghosts
<1>18. CASE ShellExits
  BY <1>18 DEF ShellExits, session, flags, disk, ghosts
<1>19. CASE Ack \/ AppStarts \/ TimerFires
  BY <1>19 DEF Ack, AppStarts, TimerFires, session, flags, disk, ghosts
<1>20. CASE Rename
  BY <1>20 DEF Rename, session, flags, ghosts
<1>21. CASE ResetLog
  BY <1>21 DEF ResetLog, Done, session, flags, ghosts
<1> QED
  BY <1>1, <1>2, <1>3, <1>4, <1>5, <1>6, <1>7, <1>8, <1>9, <1>10, <1>11, <1>12, <1>13, <1>14,
     <1>15, <1>16, <1>17, <1>18, <1>19, <1>20, <1>21 DEF HistoryNext, PassSteps

\* The application's flags stay flags.
LEMMA AppShapeStep ==
  ASSUME AppShape, [HistoryNext]_historyVars
  PROVE  AppShape'
<1> USE DEF AppShape
<1>1. CASE Output
  BY <1>1 DEF Output, Record, flags, disk, ghosts
<1>2. CASE Take
  BY <1>2 DEF Take, session, flags, disk, ghosts
<1>3. CASE Touched \/ CooldownEnds
  BY <1>3 DEF Touched, CooldownEnds, session, flags, disk, ghosts
<1>4. CASE ExitEvent
  BY <1>4 DEF ExitEvent, session, flags, disk, ghosts
<1>5. CASE Receive
  <2>1. needFull' \in BOOLEAN /\ dirty' \in BOOLEAN
    BY <1>5 DEF Receive, Done, Escalate, Defer
  <2>2. cooling' \in BOOLEAN
    BY <1>5 DEF Receive
  <2> QED
    BY <1>5, <2>1, <2>2 DEF Receive, session, flags, disk, ghosts
<1>6. CASE AppendIncrements
  BY <1>6 DEF AppendIncrements, Done, session, flags, ghosts
<1>7. CASE WriteFails
  BY <1>7 DEF WriteFails, Done, session, ghosts
<1>8. CASE QuitEnds \/ AppCrashes
  BY <1>8 DEF QuitEnds, AppCrashes, AppGone, session, ghosts
<1>9. CASE RequestTimesOut \/ \E how \in {"quit", "sleep"} : Leave(how)
  BY <1>9 DEF RequestTimesOut, Leave, session, flags, disk, ghosts
<1>10. CASE SleepEnds
  BY <1>10 DEF SleepEnds, session, flags, disk, ghosts
<1>11. CASE Attach
  BY <1>11 DEF Attach, Reopen, Reanchor, session, disk
<1>12. CASE ColdRestore
  BY <1>12 DEF ColdRestore, NewSession, Reopen, Reanchor, disk
<1>13. CASE Fresh
  BY <1>13 DEF Fresh, NewSession, OpenSession
<1>14. CASE StaleRestore
  BY <1>14 DEF StaleRestore, NewSession, Reopen
<1>15. CASE RacedRestore
  BY <1>15 DEF RacedRestore, NewSession
<1>16. CASE LinkDrops \/ DaemonDies
  BY <1>16 DEF LinkDrops, DaemonDies, Unlink, session, flags, disk, ghosts
<1>17. CASE UNCHANGED historyVars
  BY <1>17 DEF historyVars, session, flags, disk, ghosts
<1>18. CASE ShellExits
  BY <1>18 DEF ShellExits, session, flags, disk, ghosts
<1>19. CASE Ack \/ AppStarts \/ TimerFires
  BY <1>19 DEF Ack, AppStarts, TimerFires, session, flags, disk, ghosts
<1>20. CASE Rename
  BY <1>20 DEF Rename, session, flags, ghosts
<1>21. CASE ResetLog
  BY <1>21 DEF ResetLog, Done, session, flags, ghosts
<1> QED
  BY <1>1, <1>2, <1>3, <1>4, <1>5, <1>6, <1>7, <1>8, <1>9, <1>10, <1>11, <1>12, <1>13, <1>14,
     <1>15, <1>16, <1>17, <1>18, <1>19, <1>20, <1>21 DEF HistoryNext, PassSteps

\* The stages stay stages.
LEMMA StageShapeStep ==
  ASSUME StageShape, SessionShape, [HistoryNext]_historyVars
  PROVE  StageShape'
<1> USE DEF StageShape
<1>1. CASE Output
  BY <1>1 DEF Output, Record, flags, disk, ghosts
<1>2. CASE Take
  BY <1>2 DEF Take, session, flags, disk, ghosts
<1>3. CASE Touched \/ CooldownEnds
  BY <1>3 DEF Touched, CooldownEnds, session, flags, disk, ghosts
<1>4. CASE ExitEvent
  BY <1>4 DEF ExitEvent, session, flags, disk, ghosts
<1>5. CASE Receive
  BY <1>5 DEF Receive, session, flags, disk, ghosts
<1>6. CASE AppendIncrements
  BY <1>6 DEF AppendIncrements, Done, session, flags, ghosts
<1>7. CASE WriteFails
  BY <1>7 DEF WriteFails, Done, session, ghosts
<1>8. CASE QuitEnds \/ AppCrashes
  BY <1>8 DEF QuitEnds, AppCrashes, AppGone, session, ghosts
<1>9. CASE RequestTimesOut \/ \E how \in {"quit", "sleep"} : Leave(how)
  BY <1>9 DEF RequestTimesOut, Leave, session, flags, disk, ghosts
<1>10. CASE SleepEnds
  BY <1>10 DEF SleepEnds, session, flags, disk, ghosts
<1>11. CASE Attach
  BY <1>11 DEF Attach, Reopen, Reanchor, session, disk
<1>12. CASE ColdRestore
  BY <1>12 DEF ColdRestore, NewSession, Reopen, Reanchor, disk
<1>13. CASE Fresh
  BY <1>13 DEF Fresh, NewSession, OpenSession
<1>14. CASE StaleRestore
  BY <1>14 DEF StaleRestore, NewSession, Reopen
<1>15. CASE RacedRestore
  BY <1>15 DEF RacedRestore, NewSession
<1>16. CASE LinkDrops \/ DaemonDies
  BY <1>16 DEF LinkDrops, DaemonDies, Unlink, session, flags, disk, ghosts
<1>17. CASE UNCHANGED historyVars
  BY <1>17 DEF historyVars, session, flags, disk, ghosts
<1>18. CASE ShellExits
  BY <1>18 DEF ShellExits, session, flags, disk, ghosts
<1>19. CASE Ack \/ AppStarts \/ TimerFires
  BY <1>19 DEF Ack, AppStarts, TimerFires, session, flags, disk, ghosts
<1>20. CASE Rename
  BY <1>20 DEF Rename, session, flags, ghosts
<1>21. CASE ResetLog
  BY <1>21 DEF ResetLog, Done, session, flags, ghosts
<1> QED
  BY <1>1, <1>2, <1>3, <1>4, <1>5, <1>6, <1>7, <1>8, <1>9, <1>10, <1>11, <1>12, <1>13, <1>14,
     <1>15, <1>16, <1>17, <1>18, <1>19, <1>20, <1>21 DEF HistoryNext, PassSteps

\* A token that comes is one more.
LEMMA OutputShape ==
  ASSUME SessionShape, Output
  PROVE  /\ produced + 1 \in Token /\ produced' = produced + 1 /\ produced' \in 0 .. MaxOutput
         /\ screen' = Append(screen, produced + 1)
         /\ \/ pending' = pending /\ overflowed' = overflowed /\ overflowed
            \/ pending' = <<>> /\ overflowed' = TRUE
            \/ /\ pending' = Append(pending, produced + 1) /\ overflowed' = overflowed
               /\ ~overflowed /\ ~(Len(pending) + 1 > PendingMax)
<1>1. produced \in Nat /\ MaxOutput \in Nat /\ produced < MaxOutput
  BY HistoryAssumption DEF SessionShape, Output
<1>2. produced + 1 \in Token /\ produced + 1 \in 0 .. MaxOutput
  BY <1>1 DEF Token
<1>3. produced' = produced + 1 /\ screen' = Append(screen, produced + 1)
  BY DEF Output
<1>4. CASE overflowed
  BY <1>2, <1>3, <1>4 DEF Output, Record
<1>5. CASE ~overflowed /\ Len(pending) + 1 > PendingMax
  BY <1>2, <1>3, <1>5 DEF Output, Record
<1>6. CASE ~overflowed /\ ~(Len(pending) + 1 > PendingMax)
  BY <1>2, <1>3, <1>6 DEF Output, Record
<1> QED
  BY <1>4, <1>5, <1>6

\* The daemon's emulator and its records keep their types and limits.
LEMMA SessionStep ==
  ASSUME ShapeInv, [HistoryNext]_historyVars
  PROVE  SessionShape'
<1>1. /\ screen \in Tokens /\ pending \in Tokens /\ past \subseteq Tokens
      /\ Len(pending) <= PendingMax
      /\ seq \in Nat /\ produced \in 0 .. MaxOutput
  BY DEF ShapeInv, SessionShape
<1>2. PendingMax \in Nat \ {0}
  BY HistoryAssumption
<1>3. CASE Output
  <2>1. SessionShape
    BY DEF ShapeInv
  <2>2. /\ produced + 1 \in Token /\ produced' \in 0 .. MaxOutput /\ screen' = Append(screen, produced + 1)
        /\ \/ pending' = pending
           \/ pending' = <<>>
           \/ pending' = Append(pending, produced + 1) /\ ~(Len(pending) + 1 > PendingMax)
    BY <1>3, <2>1, OutputShape
  <2>3. ASSUME NEW s \in Tokens, NEW e \in Token
        PROVE  Append(s, e) \in Tokens /\ Len(s) \in Nat /\ Len(Append(s, e)) = Len(s) + 1
    BY OneMore, LenProperties DEF Tokens
  <2>4. screen' \in Tokens
    BY <1>1, <2>2, <2>3
  <2>5. pending' \in Tokens /\ Len(pending') <= PendingMax
    <3>1. CASE pending' = pending
      BY <1>1, <3>1
    <3>2. CASE pending' = <<>>
      BY <1>2, <3>2, EmptyShapes
    <3>3. CASE pending' = Append(pending, produced + 1) /\ ~(Len(pending) + 1 > PendingMax)
      BY <1>1, <1>2, <2>2, <2>3, <3>3
    <3> QED
      BY <2>2, <3>1, <3>2, <3>3
  <2>6. past' = past /\ seq' = seq
    BY <1>3 DEF Output, ghosts
  <2> QED
    BY <1>1, <2>2, <2>4, <2>5, <2>6 DEF SessionShape
<1>4. CASE Take
  <2>1. /\ screen' = screen /\ past' = past /\ produced' = produced
        /\ \/ pending' = pending /\ seq' = seq
           \/ pending' = <<>> /\ seq' = seq + 1
    BY <1>4 DEF Take, session, ghosts
  <2> QED
    BY <1>1, <1>2, <2>1, EmptyShapes DEF SessionShape
<1>5. CASE Spawn
  <2>1. /\ pending' = <<>> /\ seq' = 0 /\ produced' = produced
        /\ screen' = <<>> \/ screen' = Restored
        /\ past' = {} \/ past' = past \cup {screen}
    BY <1>5, SpawnStarts
  <2>2. screen' \in Tokens
    BY <2>1, EmptyShapes, RestoredTokens
  <2> QED
    BY <1>1, <1>2, <2>1, <2>2, EmptyShapes DEF SessionShape
<1>6. CASE Writes
  <2>1. UNCHANGED <<screen, pending, seq, produced, past>>
    BY <1>6, WritesAreCalm
  <2> QED
    BY <1>1, <2>1 DEF SessionShape
<1>7. CASE Control
  <2>1. UNCHANGED <<screen, pending, seq, produced, past>>
    BY <1>7, ControlIsCalm
  <2> QED
    BY <1>1, <2>1 DEF SessionShape
<1> QED
  BY <1>3, <1>4, <1>5, <1>6, <1>7, StepKinds

\* The checkpoint and the log keep their shape, and the log its cap.
LEMMA FileStep ==
  ASSUME ShapeInv, PassInv, [HistoryNext]_historyVars
  PROVE  FileShape'
<1> DEFINE CkptShape(c) == c \in [content : Tokens, gen : Nat]
           LogShape(l) == /\ l \in Logs /\ (l.tail = "missing" => l = NoLog)
                          /\ (l.seqs = <<>> => l.records = <<>>) /\ Len(l.records) <= LogMax
<1>1. CkptShape(ckpt) /\ LogShape(log)
  BY DEF ShapeInv, FileShape
<1>2. LogShape(NoLog) /\ CkptShape(NoCkpt)
  BY EmptyShapes, HistoryAssumption
<1>3. CkptShape(ckpt')
  <2>1. ASSUME pass.gen \in Nat, pass.take.snapshot \in Tokens, Rename
        PROVE  CkptShape(ckpt')
    BY <2>1 DEF Rename
  <2>2. pass.gen \in Nat /\ pass.take.snapshot \in Tokens
    BY Parts DEF Tokens
  <2>3. CASE Output \/ Take
    BY <1>1, <2>3 DEF Output, Take, disk
  <2>4. CASE Spawn
    BY <1>1, <1>2, <2>4, SpawnStarts
  <2>5. CASE Writes
    <3>1. CASE Rename
      BY <2>1, <2>2, <3>1
    <3>2. CASE ~Rename
      <4>1. ckpt' = ckpt
        BY <2>5, <3>2 DEF Writes, AppendIncrements, ResetLog, WriteFails, QuitEnds, AppCrashes
      <4> QED
        BY <1>1, <4>1
    <3> QED
      BY <3>1, <3>2
  <2>6. CASE Control
    BY <1>1, <2>6, ControlIsCalm
  <2> QED
    BY <2>3, <2>4, <2>5, <2>6, StepKinds
<1>4. LogShape(log')
  <2>1. CASE Output \/ Take
    BY <1>1, <2>1 DEF Output, Take, disk
  <2>2. CASE Spawn
    BY <1>1, <1>2, <2>2, SpawnStarts
  <2>3. CASE Control
    BY <1>1, <2>3, ControlIsCalm
  <2>4. CASE Rename
    BY <1>1, <2>4 DEF Rename
  <2>5. CASE ResetLog
    <3>1. log' = [gen |-> pass.gen, seqs |-> <<>>, records |-> <<>>, tail |-> "whole"]
      BY <2>5 DEF ResetLog
    <3>2. pass.gen \in Nat
      BY Parts
    <3>3. <<>> \in Seq(Nat) /\ <<>> \in Tokens /\ Len(<<>>) <= LogMax
      BY EmptySeq, HistoryAssumption DEF Tokens
    <3> QED
      BY <3>1, <3>2, <3>3 DEF Logs
  <2>6. CASE WriteFails \/ QuitEnds \/ AppCrashes
    <3>1. log' \in CutShort
      BY <2>6 DEF WriteFails, QuitEnds, AppCrashes, AppGone
    <3> QED
      BY <3>1, CutIsLog
  <2>7. CASE AppendIncrements
    <3> DEFINE n == Len(pass.take.records)
    <3>1. log' = Appended(pass.take, n) /\ pass.pc = "append"
      BY <2>7 DEF AppendIncrements
    <3>2. n \in Nat
      BY Parts, LenProperties
    <3>3. CASE log' = Longer(n, "whole")
      <4>1. n \in 0 .. Len(pass.take.records)
        BY <3>2
      <4>2. /\ log' \in Logs /\ log'.seqs # <<>> /\ Len(log'.records) = Len(log.records) + n
        BY <3>3, <4>1, LongerIsLog
      <4>3. log'.tail = "whole"
        BY <3>3 DEF Longer
      <4>4. Len(log.records) + n <= LogMax
        BY <3>1 DEF ShapeInv, PassShape
      <4> QED
        BY <4>2, <4>3, <4>4
    <3>4. CASE log' = Garbled
      <4>1. /\ log'.tail = "garbled" /\ log'.seqs = log.seqs /\ log'.records = log.records
            /\ log' \in Logs
        BY <3>4 DEF Garbled, ShapeInv, FileShape, Logs
      <4> QED
        BY <1>1, <4>1
    <3> QED
      BY <3>1, <3>3, <3>4, AppendWrites
  <2> QED
    BY <2>1, <2>2, <2>3, <2>4, <2>5, <2>6, <2>7, StepKinds DEF Writes
<1> QED
  BY <1>3, <1>4 DEF FileShape

\* The reply of a take: what was pending, or the screen.
Reply ==
  [seq |-> seq + 1, records |-> IF Full THEN <<>> ELSE pending, overflowed |-> overflowed,
   snapshot |-> IF Full THEN screen ELSE <<>>]

\* A take drains what is pending, unless the shell is gone.
LEMMA TakeReplies ==
  ASSUME Take
  PROVE  /\ pass.pc = "asked"
         /\ UNCHANGED <<live, screen, ckpt, log, past, meta, excused>>
         /\ \/ /\ ~live /\ pass' = [pass EXCEPT !.pc = "replied"]
               /\ UNCHANGED <<pending, overflowed, seq>>
            \/ /\ live /\ pass' = [pass EXCEPT !.pc = "replied", !.take = Reply]
               /\ pending' = <<>> /\ overflowed' = FALSE /\ seq' = seq + 1
<1>1. CASE live
  BY <1>1 DEF Take, Reply, session, disk, ghosts
<1>2. CASE ~live
  BY <1>2 DEF Take, session, disk, ghosts
<1> QED
  BY <1>1, <1>2

\* A reply is a take.
LEMMA ReplyShape ==
  ASSUME ShapeInv, overflowed \in BOOLEAN
  PROVE  Reply \in Takes
<1>1. seq + 1 \in Nat /\ pending \in Tokens /\ screen \in Tokens /\ <<>> \in Tokens
  BY EmptyShapes DEF ShapeInv, SessionShape
<1> DEFINE r == IF Full THEN <<>> ELSE pending
           s == IF Full THEN screen ELSE <<>>
<1>2. r \in Tokens /\ s \in Tokens
  BY <1>1
<1>3. Reply = [seq |-> seq + 1, records |-> r, overflowed |-> overflowed, snapshot |-> s]
  BY DEF Reply
<1> HIDE DEF r, s
<1> QED
  BY <1>1, <1>2, <1>3 DEF Takes

\* The pass keeps its shape, and what it appends has its place in the log.
LEMMA PassShapeStep ==
  ASSUME ShapeInv, DaemonShape, [HistoryNext]_historyVars
  PROVE  PassShape'
<1>1. /\ pass \in Passes /\ (pass.pc = "append" => Len(log.records) + Len(pass.take.records) <= LogMax)
  BY DEF ShapeInv, PassShape
<1>2. CASE Output
  BY <1>1, <1>2 DEF Output, disk, PassShape
<1>3. CASE Take
  <2>1. Reply \in Takes
    BY ReplyShape DEF DaemonShape
  <2>2. \/ pass' = [pass EXCEPT !.pc = "replied"]
        \/ pass' = [pass EXCEPT !.pc = "replied", !.take = Reply]
    BY <1>3, TakeReplies
  <2>3. pass' \in Passes /\ pass'.pc = "replied"
    BY <1>1, <2>1, <2>2 DEF Passes
  <2> QED
    BY <2>3 DEF PassShape
<1>4. CASE Spawn
  BY <1>1, <1>4, SpawnStarts DEF PassShape
<1>5. CASE Writes
  <2>1. pass' = Idle \/ Rename
    BY <1>5, WritesAreCalm
  <2>2. CASE pass' = Idle
    BY <2>2, EmptyShapes DEF PassShape
  <2>3. CASE Rename
    <3>1. pass' = [pass EXCEPT !.pc = "reset"]
      BY <2>3 DEF Rename
    <3>2. pass' \in Passes /\ pass'.pc = "reset"
      BY <1>1, <3>1 DEF Passes
    <3> QED
      BY <3>2 DEF PassShape
  <2> QED
    BY <2>1, <2>2, <2>3
<1>6. CASE Control
  <2>1. log' = log
    BY <1>6, ControlIsCalm
  <2>2. ASSUME NEW pc \in {"tmp", "append"}, Moves(pc)
        PROVE  pass' \in Passes /\ pass'.pc = pc /\ pass'.take = pass.take
    <3>1. LogGeneration + 1 \in Nat
      BY Parts
    <3> QED
      BY <1>1, <2>2, <3>1 DEF Moves, Passes
  <2>3. CASE pass' = pass
    BY <1>1, <2>1, <2>3 DEF PassShape
  <2>4. CASE pass' = Idle
    BY <2>4, EmptyShapes DEF PassShape
  <2>5. CASE \E kind \in {"tick", "flagged", "escalated", "final"} : pass' = Asked(kind)
    BY <2>5, AskedShape DEF PassShape
  <2>6. CASE Moves("tmp")
    <3>1. pass' \in Passes /\ pass'.pc = "tmp"
      BY <2>2, <2>6
    <3> QED
      BY <3>1 DEF PassShape
  <2>7. CASE ~LogIsFull(pass.take) /\ Moves("append")
    <3>1. pass' \in Passes /\ pass'.pc = "append" /\ pass'.take = pass.take
      BY <2>2, <2>7
    <3>2. Len(log.records) \in Nat /\ Len(pass.take.records) \in Nat
      BY Parts, LenProperties
    <3>3. Len(log.records) + Len(pass.take.records) <= LogMax
      <4>1. \A a, b \in Nat : ~(a + b > LogMax) => a + b <= LogMax
        BY HistoryAssumption
      <4> QED
        BY <2>7, <3>2, <4>1 DEF LogIsFull
    <3> QED
      BY <2>1, <3>1, <3>3 DEF PassShape
  <2> QED
    BY <1>6, <2>3, <2>4, <2>5, <2>6, <2>7, ControlOfPass
<1> QED
  BY <1>2, <1>3, <1>4, <1>5, <1>6, StepKinds

\* Lengths are numbers.
LEMMA Lengths ==
  ASSUME ShapeInv
  PROVE  /\ Len(screen) \in Nat /\ Len(pending) \in Nat /\ Len(ckpt.content) \in Nat
         /\ Len(pass.take.records) \in Nat /\ Len(pass.take.snapshot) \in Nat
         /\ Len(log.records) \in Nat /\ Len(log.seqs) \in Nat
  BY Parts, LenProperties

\* Where pending output starts moves forward, unless it is a shell's first.
LEMMA DrainedGrows ==
  ASSUME ShapeInv, PendingInv, Output \/ Take
  PROVE  /\ Len(screen) <= Len(screen') /\ Len(screen') \in Nat /\ Len(pending') \in Nat
         /\ Drained \in Nat /\ Drained <= Len(screen)
         /\ Drained' \in Nat /\ Drained <= Drained' /\ Drained' <= Len(screen')
<1>1. Len(screen) \in Nat /\ Len(pending) \in Nat /\ Len(pending) <= Len(screen)
  BY Lengths DEF PendingInv
<1>2. CASE Output
  <2>1. /\ screen' = Append(screen, produced + 1) /\ produced + 1 \in Token
        /\ \/ pending' = pending
           \/ pending' = <<>>
           \/ pending' = Append(pending, produced + 1)
    BY <1>2, OutputShape DEF ShapeInv
  <2>2. /\ Len(screen') = Len(screen) + 1
        /\ Len(pending') \in {Len(pending), 0, Len(pending) + 1}
    BY <2>1, Parts, OneMore, EmptyShapes
  <2> QED
    BY <1>1, <2>2 DEF Drained
<1>3. CASE Take
  <2>1. screen' = screen /\ (pending' = pending \/ pending' = <<>>)
    BY <1>3, TakeReplies
  <2>2. Len(screen') = Len(screen) /\ Len(pending') \in {Len(pending), 0}
    BY <2>1, EmptyShapes
  <2> QED
    BY <1>1, <2>2 DEF Drained
<1> QED
  BY <1>2, <1>3

\* What is pending stays the end of the screen.
LEMMA PendingStep ==
  ASSUME ShapeInv, PendingInv, [HistoryNext]_historyVars
  PROVE  PendingInv'
<1>1. /\ Len(screen) \in Nat /\ Len(pending) \in Nat /\ Len(pending) <= Len(screen)
      /\ Piece(pending, screen, Drained) /\ (overflowed => pending = <<>>)
      /\ screen \in Seq(Token) /\ pending \in Seq(Token) /\ <<>> \in Seq(Token)
  BY Lengths, Parts, EmptyShapes DEF PendingInv, Tokens
<1>2. ASSUME NEW s \in Seq(Token)
      PROVE  /\ Len(<<>>) = 0 /\ Len(s) \in Nat /\ 0 <= Len(s) /\ Len(s) - 0 = Len(s)
             /\ Piece(<<>>, s, Len(s))
  <2>1. Len(s) \in Nat /\ \A j \in 0 .. Len(s) : Piece(<<>>, s, j)
    BY LenProperties, PieceOfItself
  <2> QED
    BY <2>1, EmptyShapes
<1>3. ASSUME pending' = <<>>, screen' \in Seq(Token)
      PROVE  PendingInv'
  BY <1>2, <1>3 DEF PendingInv, Drained
<1>4. ASSUME UNCHANGED <<pending, screen, overflowed>>
      PROVE  PendingInv'
  BY <1>4 DEF PendingInv, Drained
<1>5. CASE Output
  <2> DEFINE e == produced + 1
  <2>1. /\ e \in Token /\ screen' = Append(screen, e)
        /\ \/ pending' = pending /\ overflowed
           \/ pending' = <<>>
           \/ pending' = Append(pending, e) /\ overflowed' = overflowed /\ ~overflowed
    BY <1>5, OutputShape DEF ShapeInv
  <2> HIDE DEF e
  <2>2. screen' \in Seq(Token) /\ Len(screen') = Len(screen) + 1
    BY <1>1, <2>1, OneMore
  <2>3. CASE pending' = <<>> \/ (pending' = pending /\ overflowed)
    BY <1>1, <1>3, <2>2, <2>3
  <2>4. CASE pending' = Append(pending, e) /\ overflowed' = overflowed /\ ~overflowed
    <3>1. Len(pending') = Len(pending) + 1
      BY <1>1, <2>1, <2>4, OneMore
    <3>2. Drained' = Drained /\ Drained + Len(pending) = Len(screen) /\ Len(pending') <= Len(screen')
      BY <1>1, <2>2, <3>1 DEF Drained
    <3>3. Piece(Append(pending, e), Append(screen, e), Drained)
      BY <1>1, <2>1, <3>2, EndFollows
    <3> QED
      BY <2>1, <2>4, <3>2, <3>3 DEF PendingInv
  <2> QED
    BY <2>1, <2>3, <2>4
<1>6. CASE Take
  BY <1>1, <1>3, <1>4, <1>6, TakeReplies
<1>7. CASE Spawn
  <2>1. pending' = <<>> /\ (screen' = <<>> \/ screen' = Restored)
    BY <1>7, SpawnStarts
  <2>2. screen' \in Seq(Token)
    BY <1>1, <2>1, RestoredTokens DEF Tokens
  <2> QED
    BY <1>3, <2>1, <2>2
<1>8. CASE Writes
  BY <1>4, <1>8, WritesAreCalm
<1>9. CASE Control
  BY <1>4, <1>9, ControlIsCalm
<1> QED
  BY <1>5, <1>6, <1>7, <1>8, <1>9, StepKinds

\* Output does not move what starts where pending output did.
LEMMA PendAtStays ==
  ASSUME ShapeInv, PendingInv, Output, NEW e \in Nat, PendAt(e)
  PROVE  PendAt(e)'
<1>1. Len(screen) \in Nat /\ Len(pending) \in Nat
  BY Lengths
<1>2. /\ screen' = Append(screen, produced + 1) /\ produced + 1 \in Token
      /\ \/ overflowed' = overflowed /\ overflowed
         \/ overflowed' = TRUE
         \/ pending' = Append(pending, produced + 1) /\ ~overflowed
  BY OutputShape DEF ShapeInv
<1>3. CASE overflowed'
  BY <1>3 DEF PendAt
<1>4. CASE pending' = Append(pending, produced + 1) /\ ~overflowed
  <2>1. Len(pending') = Len(pending) + 1 /\ Len(screen') = Len(screen) + 1
    BY <1>2, <1>4, Parts, OneMore
  <2>2. Drained' = Drained
    BY <1>1, <2>1 DEF Drained
  <2> QED
    BY <1>4, <2>2 DEF PendAt
<1> QED
  BY <1>2, <1>3, <1>4

\* A pass knows what it took.
LEMMA PassStep ==
  ASSUME ShapeInv, PassInv, [HistoryNext]_historyVars
  PROVE  PassInv'
<1>1. CASE pass' = Idle
  <2>1. pass'.pc = "idle" /\ pass'.take.seq = 0
    BY <1>1 DEF Idle, NoTake
  <2> QED
    BY <2>1 DEF PassInv
<1>2. CASE \E kind \in {"tick", "flagged", "escalated", "final"} : pass' = Asked(kind)
  <2>1. pass'.pc = "asked" /\ pass'.take.seq = 0
    BY <1>2, AskedShape DEF NoTake
  <2> QED
    BY <2>1 DEF PassInv
<1>3. ASSUME pass' = pass, live' => live, UNCHANGED <<seq, ckpt, log>>
      PROVE  PassInv'
  <2>1. LogGeneration' = LogGeneration /\ Full' = Full
    BY <1>3 DEF LogGeneration, Full
  <2> QED
    BY <1>3, <2>1 DEF PassInv
<1>4. CASE Output
  BY <1>3, <1>4 DEF Output, disk
<1>5. CASE Take
  <2>1. /\ pass.pc = "asked" /\ live' = live
        /\ \/ ~live /\ pass' = [pass EXCEPT !.pc = "replied"] /\ seq' = seq
           \/ live /\ pass' = [pass EXCEPT !.pc = "replied", !.take = Reply] /\ seq' = seq + 1
    BY <1>5, TakeReplies
  <2>2. pass \in Passes /\ seq \in Nat
    BY DEF ShapeInv, SessionShape, PassShape
  <2>3. CASE ~live /\ pass' = [pass EXCEPT !.pc = "replied"] /\ seq' = seq
    <3>1. pass'.pc = "replied" /\ pass'.take.seq = 0
      BY <2>1, <2>2, <2>3 DEF Passes, PassInv
    <3> QED
      BY <2>1, <2>3, <3>1 DEF PassInv
  <2>4. CASE live /\ pass' = [pass EXCEPT !.pc = "replied", !.take = Reply] /\ seq' = seq + 1
    <3>1. pass'.pc = "replied" /\ pass'.take.seq = seq + 1
      BY <2>1, <2>2, <2>4 DEF Passes, Reply
    <3> QED
      BY <2>2, <2>4, <3>1 DEF PassInv
  <2> QED
    BY <2>1, <2>3, <2>4
<1>6. CASE Spawn
  <2>1. pass' = pass /\ pass.pc = "idle"
    BY <1>6, SpawnStarts
  <2>2. pass'.pc = "idle" /\ pass'.take.seq = 0
    BY <2>1 DEF PassInv
  <2> QED
    BY <2>2 DEF PassInv
<1>7. CASE Writes
  <2>1. CASE Rename
    <3>1. /\ pass.pc = "tmp" /\ pass' = [pass EXCEPT !.pc = "reset"] /\ seq' = seq
          /\ ckpt' = [content |-> pass.take.snapshot, gen |-> pass.gen] /\ log' = log
      BY <2>1 DEF Rename, session
    <3>2. /\ Full /\ pass.take.seq # 0 /\ pass.take.seq = seq /\ pass.gen = LogGeneration + 1
      BY <3>1 DEF PassInv
    <3>3. pass'.pc = "reset" /\ pass'.take = pass.take /\ pass'.gen = pass.gen /\ pass'.kind = pass.kind
      BY <3>1 DEF ShapeInv, PassShape, Passes
    <3>4. Full'
      BY <3>2, <3>3 DEF Full
    <3>5. log.tail # "missing" => log.gen # pass.gen
      <4>1. log.gen \in Nat
        BY Parts
      <4> QED
        BY <3>2, <4>1 DEF LogGeneration
    <3> QED
      BY <3>1, <3>2, <3>3, <3>4, <3>5 DEF PassInv
  <2> QED
    BY <1>1, <1>7, <2>1, WritesAreCalm
<1>8. CASE Control
  <2>1. UNCHANGED <<seq, ckpt, log>> /\ (live' => live)
    BY <1>8, ControlIsCalm
  <2>2. LogGeneration' = LogGeneration
    BY <2>1 DEF LogGeneration
  <2>3. ASSUME NEW pc \in {"tmp", "append"}, Moves(pc)
        PROVE  /\ pass'.pc = pc /\ pass'.take = pass.take /\ pass'.kind = pass.kind
               /\ pass'.gen = LogGeneration + 1 /\ pass.take.seq # 0
    BY <2>3 DEF Moves, ShapeInv, PassShape, Passes
  <2>4. CASE pass.pc = "replied" /\ Full /\ Moves("tmp")
    <3>1. /\ pass'.pc = "tmp" /\ pass'.take = pass.take /\ pass'.kind = pass.kind
          /\ pass'.gen = LogGeneration + 1 /\ pass.take.seq # 0
      BY <2>3, <2>4
    <3>2. Full'
      BY <2>4, <3>1 DEF Full
    <3> QED
      BY <2>1, <2>2, <3>1, <3>2 DEF PassInv
  <2>5. CASE pass.pc = "replied" /\ ~Full /\ ~pass.take.overflowed /\ Moves("append")
    <3>1. /\ pass'.pc = "append" /\ pass'.take = pass.take /\ pass'.kind = pass.kind
          /\ pass.take.seq # 0
      BY <2>3, <2>5
    <3>2. ~Full'
      BY <2>5, <3>1 DEF Full
    <3> QED
      BY <2>1, <2>5, <3>1, <3>2 DEF PassInv
  <2> QED
    BY <1>1, <1>2, <1>3, <1>8, <2>1, <2>4, <2>5, ControlOfPass
<1> QED
  BY <1>4, <1>5, <1>6, <1>7, <1>8, StepKinds

\* Output keeps the beginnings of the screen, and the ends of what is drained.
LEMMA BeginningStays ==
  ASSUME ShapeInv, PendingInv, Output, NEW r \in Seq(Token), Piece(r, screen, 0), Len(r) <= Drained
  PROVE  Piece(r, screen', 0) /\ Len(r) <= Drained'
<1>1. /\ screen' = Append(screen, produced + 1) /\ produced + 1 \in Token
  BY OutputShape DEF ShapeInv
<1>2. Len(r) \in Nat /\ screen \in Seq(Token)
  BY LenProperties, Parts
<1>3. Piece(r, screen', 0)
  BY <1>1, <1>2, PieceStays
<1>4. Drained \in Nat /\ Drained' \in Nat /\ Drained <= Drained'
  BY DrainedGrows
<1> QED
  BY <1>2, <1>3, <1>4

\* A restore begins with the checkpoint.
LEMMA RestoreBegins ==
  ASSUME ShapeInv
  PROVE  Piece(ckpt.content, Restored, 0)
<1>1. ckpt.content \in Seq(Token) /\ log.records \in Seq(Token)
  BY Parts
<1>2. Piece(ckpt.content, ckpt.content \o log.records, 0) /\ Piece(ckpt.content, ckpt.content, 0)
  BY <1>1, PieceOfSeed, PieceOfItself
<1> QED
  BY <1>2 DEF Restored

\* The checkpoint stays a drained beginning of the screen.
LEMMA CkptStep ==
  ASSUME ShapeInv, PendingInv, CkptInv, PassInv, ShotInv, [HistoryNext]_historyVars
  PROVE  CkptInv'
<1>1. ASSUME Open
      PROVE  /\ ckpt.content \in Seq(Token) /\ Len(ckpt.content) \in Nat
             /\ Piece(ckpt.content, screen, 0) /\ Len(ckpt.content) <= Drained
  BY <1>1, Parts, LenProperties DEF CkptInv
<1>2. CASE Output
  <2>1. ckpt' = ckpt /\ Open' = Open
    BY <1>2 DEF Output, disk, ghosts, Open
  <2> SUFFICES ASSUME Open PROVE Piece(ckpt.content, screen', 0) /\ Len(ckpt.content) <= Drained'
    BY <2>1 DEF CkptInv
  <2> QED
    BY <1>1, <1>2, BeginningStays
<1>3. CASE Take
  <2>1. ckpt' = ckpt /\ Open' = Open /\ screen' = screen
    BY <1>3, TakeReplies DEF Open
  <2>2. Drained \in Nat /\ Drained' \in Nat /\ Drained <= Drained'
    BY <1>3, DrainedGrows
  <2> QED
    BY <1>1, <2>1, <2>2 DEF CkptInv
<1>4. CASE Spawn
  <2>1. /\ pending' = <<>>
        /\ \/ screen' = <<>> /\ ckpt' = NoCkpt
           \/ ~Open'
           \/ screen' = Restored /\ ckpt' = ckpt
    BY <1>4, SpawnStarts
  <2>2. ASSUME NEW r \in Seq(Token), NEW s \in Seq(Token), Piece(r, s, 0), screen' = s, pending' = <<>>
        PROVE  Piece(r, screen', 0) /\ Len(r) <= Drained'
    <3>1. Len(<<>>) = 0 /\ Len(s) \in Nat /\ Len(r) \in Nat /\ Len(r) <= Len(s)
      BY <2>2, EmptyShapes, LenProperties DEF Piece
    <3> QED
      BY <2>2, <3>1 DEF Drained
  <2>3. CASE screen' = <<>> /\ ckpt' = NoCkpt
    <3>1. <<>> \in Seq(Token) /\ Piece(<<>>, <<>>, 0)
      BY EmptyShapes, PieceOfItself DEF Tokens
    <3>2. ckpt'.content = <<>>
      BY <2>3 DEF NoCkpt
    <3> QED
      BY <2>1, <2>2, <2>3, <3>1, <3>2 DEF CkptInv
  <2>4. CASE screen' = Restored /\ ckpt' = ckpt
    <3>1. ckpt.content \in Seq(Token) /\ Restored \in Seq(Token) /\ Piece(ckpt.content, Restored, 0)
      BY Parts, RestoredTokens, RestoreBegins DEF Tokens
    <3> QED
      BY <2>1, <2>2, <2>4, <3>1 DEF CkptInv
  <2> QED
    BY <2>1, <2>3, <2>4 DEF CkptInv
<1>5. CASE Writes
  <2>1. UNCHANGED <<screen, pending>> /\ Open' = Open
    BY <1>5, WritesAreCalm
  <2>2. Drained' = Drained
    BY <2>1 DEF Drained
  <2>3. CASE Rename
    <3>1. pass.pc = "tmp" /\ ckpt' = [content |-> pass.take.snapshot, gen |-> pass.gen]
      BY <2>3 DEF Rename
    <3>2. Shot
      BY <3>1 DEF PassInv, Shot
    <3> QED
      BY <2>1, <2>2, <3>1, <3>2 DEF CkptInv, ShotInv
  <2>4. CASE ~Rename
    <3>1. ckpt' = ckpt
      BY <1>5, <2>4 DEF Writes, AppendIncrements, ResetLog, WriteFails, QuitEnds, AppCrashes
    <3> QED
      BY <2>1, <2>2, <3>1 DEF CkptInv
  <2> QED
    BY <2>3, <2>4
<1>6. CASE Control
  <2>1. UNCHANGED <<screen, pending, ckpt>> /\ (Open' => Open)
    BY <1>6, ControlIsCalm
  <2>2. Drained' = Drained
    BY <2>1 DEF Drained
  <2> QED
    BY <2>1, <2>2 DEF CkptInv
<1> QED
  BY <1>2, <1>3, <1>4, <1>5, <1>6, StepKinds

\* A pass that ended, or was asked for, has taken nothing.
LEMMA NothingTaken ==
  /\ Idle.pc = "idle" /\ Idle.take.seq = 0
  /\ \A kind \in {"tick", "flagged", "escalated", "final"} :
       Asked(kind).pc = "asked" /\ Asked(kind).take.seq = 0
BY AskedShape DEF Idle, NoTake

\* What a pass carries after a step of control, it carried before.
LEMMA ControlCarries ==
  ASSUME ShapeInv, Control
  PROVE  /\ Shot' => Shot /\ pass'.take = pass.take
         /\ InFlight' => InFlight /\ pass'.take = pass.take
<1>1. ASSUME NEW pc \in {"tmp", "append"}, Moves(pc)
      PROVE  pass'.pc = pc /\ pass'.take = pass.take /\ pass'.kind = pass.kind
  BY <1>1 DEF Moves, ShapeInv, PassShape, Passes
<1>2. CASE pass' = pass
  BY <1>2 DEF Shot, InFlight, Full
<1>3. CASE pass' = Idle
  BY <1>3, NothingTaken DEF Shot, InFlight
<1>4. ASSUME NEW kind \in {"tick", "flagged", "escalated", "final"}, pass' = Asked(kind)
      PROVE  ~Shot' /\ ~InFlight'
  <2>1. pass'.pc = "asked"
    BY <1>4, NothingTaken
  <2> QED
    BY <2>1 DEF Shot, InFlight
<1>5. CASE pass.pc = "replied" /\ Full /\ Moves("tmp")
  <2>1. pass'.pc = "tmp" /\ pass'.take = pass.take /\ pass'.kind = pass.kind
    BY <1>1, <1>5
  <2> QED
    BY <1>5, <2>1 DEF Shot, InFlight, Full
<1>6. CASE pass.pc = "replied" /\ ~Full /\ Moves("append")
  <2>1. pass'.pc = "append" /\ pass'.take = pass.take /\ pass'.kind = pass.kind
    BY <1>1, <1>6
  <2> QED
    BY <1>6, <2>1 DEF Shot, InFlight, Full
<1> QED
  BY <1>2, <1>3, <1>4, <1>5, <1>6, ControlOfPass

\* A snapshot in flight stays the beginning that a full checkpoint may have.
LEMMA ShotStep ==
  ASSUME ShapeInv, PendingInv, CkptInv, PassInv, ShotInv, [HistoryNext]_historyVars
  PROVE  ShotInv'
<1> DEFINE snap == pass.take.snapshot
<1>1. snap \in Seq(Token) /\ Len(snap) \in Nat
  BY Parts, LenProperties
<1>2. CASE Output
  <2>1. pass' = pass /\ ckpt' = ckpt /\ Open' = Open
    BY <1>2 DEF Output, disk, ghosts, Open
  <2>2. Shot' = Shot
    BY <2>1 DEF Shot, Full
  <2>3. ASSUME Shot
        PROVE  /\ Piece(snap, screen', 0) /\ Len(snap) <= Drained' /\ PendAt(Len(snap))'
               /\ Open' => Piece(ckpt.content, snap, 0)
    <3>1. /\ Piece(snap, screen, 0) /\ Len(snap) <= Drained /\ PendAt(Len(snap))
          /\ Open => Piece(ckpt.content, snap, 0)
      BY <2>3 DEF ShotInv
    <3>2. Piece(snap, screen', 0) /\ Len(snap) <= Drained'
      BY <1>1, <1>2, <3>1, BeginningStays
    <3>3. ASSUME NEW e \in Nat, PendAt(e) PROVE PendAt(e)'
      BY <1>2, <3>3, PendAtStays
    <3>4. \A e \in Nat : PendAt(e) => (overflowed' \/ e = Drained')
      BY <3>3 DEF PendAt
    <3>5. PendAt(Len(snap))'
      BY <1>1, <2>1, <3>1, <3>4 DEF PendAt
    <3> QED
      BY <2>1, <3>1, <3>2, <3>5
  <2> QED
    BY <2>1, <2>2, <2>3 DEF ShotInv
<1>3. CASE Take
  <2>1. UNCHANGED <<screen, ckpt>> /\ Open' = Open
    BY <1>3, TakeReplies DEF Open
  <2>2. CASE live
    <3>1. pass' = [pass EXCEPT !.pc = "replied", !.take = Reply] /\ pending' = <<>>
      BY <1>3, <2>2, TakeReplies
    <3>2. pass'.kind = pass.kind /\ pass'.take = Reply
      BY <3>1 DEF ShapeInv, PassShape, Passes
    <3>3. Shot' => Full
      BY <3>2 DEF Shot, Full
    <3>4. ASSUME Full
          PROVE  pass'.take.snapshot = screen
      BY <3>2, <3>4 DEF Reply
    <3>5. Drained' = Len(screen) /\ Len(screen) \in Nat
      BY <2>1, <3>1, EmptyShapes, Lengths DEF Drained
    <3>6. Piece(screen, screen, 0)
      BY Parts, PieceOfItself
    <3> SUFFICES ASSUME Shot'
                 PROVE  /\ Piece(screen, screen, 0) /\ Len(screen) <= Drained'
                        /\ Len(screen) = Drained' /\ (Open => Piece(ckpt.content, screen, 0))
      BY <2>1, <3>3, <3>4 DEF ShotInv, PendAt
    <3> QED
      BY <3>5, <3>6 DEF CkptInv
  <2>3. CASE ~live
    <3>1. pass.pc = "asked" /\ pass' = [pass EXCEPT !.pc = "replied"]
      BY <1>3, <2>3, TakeReplies
    <3>2. pass'.take.seq = 0
      BY <3>1 DEF PassInv, ShapeInv, PassShape, Passes
    <3> QED
      BY <3>2 DEF ShotInv, Shot
  <2> QED
    BY <2>2, <2>3
<1>4. CASE Spawn
  <2>1. pass'.pc = "idle"
    BY <1>4, SpawnStarts
  <2> QED
    BY <2>1 DEF ShotInv, Shot
<1>5. CASE Writes
  <2>1. CASE Rename
    <3>1. /\ pass.pc = "tmp" /\ pass' = [pass EXCEPT !.pc = "reset"]
          /\ ckpt' = [content |-> snap, gen |-> pass.gen]
          /\ UNCHANGED <<screen, pending, overflowed>>
      BY <2>1 DEF Rename, session
    <3>2. pass'.take = pass.take
      BY <3>1 DEF ShapeInv, PassShape, Passes
    <3>3. Shot
      BY <3>1 DEF PassInv, Shot
    <3>4. Drained' = Drained
      BY <3>1 DEF Drained
    <3>5. Piece(snap, snap, 0)
      BY <1>1, PieceOfItself
    <3>6. /\ Piece(snap, screen, 0) /\ Len(snap) <= Drained /\ (overflowed \/ Len(snap) = Drained)
      BY <3>3 DEF ShotInv, PendAt
    <3>7. ckpt'.content = snap /\ pass'.take.snapshot = snap
      BY <3>1, <3>2
    <3> HIDE DEF snap
    <3> QED
      BY <3>1, <3>4, <3>5, <3>6, <3>7 DEF ShotInv, PendAt
  <2>2. CASE pass' = Idle
    BY <2>2, NothingTaken DEF ShotInv, Shot
  <2> QED
    BY <1>5, <2>1, <2>2, WritesAreCalm
<1>6. CASE Control
  <2>1. UNCHANGED <<screen, pending, overflowed, ckpt>> /\ (Open' => Open)
    BY <1>6, ControlIsCalm
  <2>2. Drained' = Drained
    BY <2>1 DEF Drained
  <2>3. Shot' => Shot /\ pass'.take = pass.take
    BY <1>6, ControlCarries
  <2> QED
    BY <2>1, <2>2, <2>3 DEF ShotInv, PendAt
<1> QED
  BY <1>2, <1>3, <1>4, <1>5, <1>6, StepKinds

\* Output does not move the records of a take.
LEMMA TakeAtStays ==
  ASSUME ShapeInv, PendingInv, Output, NEW j, TakeAt(j)
  PROVE  TakeAt(j)' /\ j \in 0 .. Len(screen)
<1> DEFINE r == pass.take.records
<1>1. r \in Seq(Token) /\ Len(r) \in Nat /\ screen \in Seq(Token) /\ Len(screen) \in Nat
  BY Parts, Lengths
<1>2. Piece(r, screen, j) /\ PendAt(j + Len(r)) /\ pass' = pass
  BY DEF TakeAt, Output
<1>3. screen' = Append(screen, produced + 1) /\ produced + 1 \in Token
  BY OutputShape DEF ShapeInv
<1> HIDE DEF r
<1>4. Piece(r, screen', j)
  BY <1>1, <1>2, <1>3, PieceStays
<1>5. j \in Nat /\ j + Len(r) <= Len(screen)
  BY <1>2 DEF Piece
<1>6. ASSUME NEW e \in Nat, PendAt(e) PROVE overflowed' \/ e = Drained'
  <2>1. PendAt(e)'
    BY <1>6, PendAtStays
  <2> QED
    BY <2>1 DEF PendAt
<1>7. j + Len(r) \in Nat
  BY <1>1, <1>5
<1>8. overflowed' \/ j + Len(r) = Drained'
  BY <1>2, <1>6, <1>7
<1>9. j \in 0 .. Len(screen)
  BY <1>1, <1>5
<1> QED
  BY <1>2, <1>4, <1>8, <1>9 DEF TakeAt, PendAt, r

\* A tick takes what is pending from where it starts.
LEMMA ReplyAt ==
  ASSUME ShapeInv, PendingInv, Take, live, ~Full, NEW e, e = Drained
  PROVE  TakeAt(e)'
<1>1. pass' = [pass EXCEPT !.pc = "replied", !.take = Reply] /\ pending' = <<>> /\ screen' = screen
  BY TakeReplies
<1>2. pass'.take.records = pending
  BY <1>1 DEF Reply, ShapeInv, PassShape, Passes
<1>3. Piece(pending, screen, e)
  BY DEF PendingInv
<1>4. Len(screen) \in Nat /\ Len(pending) \in Nat /\ e + Len(pending) = Len(screen)
  BY Lengths DEF Drained
<1>5. Drained' = Len(screen)
  BY <1>1, <1>4, EmptyShapes DEF Drained
<1> QED
  BY <1>1, <1>2, <1>3, <1>4, <1>5 DEF TakeAt, PendAt

\* A take in flight without records of its own is one of a full pass, or overflowed.
LEMMA ReplyFlies ==
  ASSUME ShapeInv, PassInv, Take
  PROVE  /\ InFlight' => live /\ ~Full /\ ~overflowed
         /\ live /\ ~Full /\ ~overflowed => InFlight'
<1>1. pass.pc = "asked" /\ seq \in Nat
  BY TakeReplies DEF ShapeInv, SessionShape
<1>2. CASE live
  <2>1. pass' = [pass EXCEPT !.pc = "replied", !.take = Reply]
    BY <1>2, TakeReplies
  <2>2. /\ pass'.pc = "replied" /\ pass'.kind = pass.kind /\ pass'.take.seq = seq + 1
        /\ pass'.take.overflowed = overflowed
    BY <2>1 DEF Reply, ShapeInv, PassShape, Passes
  <2> QED
    BY <1>1, <1>2, <2>2 DEF InFlight, Full
<1>3. CASE ~live
  <2>1. pass' = [pass EXCEPT !.pc = "replied"]
    BY <1>3, TakeReplies
  <2>2. pass'.take.seq = 0
    BY <1>1, <2>1 DEF PassInv, ShapeInv, PassShape, Passes
  <2> QED
    BY <1>3, <2>2 DEF InFlight
<1> QED
  BY <1>2, <1>3

\* The records in flight stay behind the checkpoint.
LEMMA FlightStep ==
  ASSUME ShapeInv, PendingInv, CkptInv, PassInv, FlightInv, [HistoryNext]_historyVars
  PROVE  FlightInv'
<1>1. Len(screen) \in Nat /\ Len(ckpt.content) \in Nat
  BY Lengths
<1>2. CASE Output
  <2>1. pass' = pass /\ ckpt' = ckpt /\ Open' = Open
    BY <1>2 DEF Output, disk, ghosts, Open
  <2> SUFFICES ASSUME InFlight'
               PROVE  \E j \in 0 .. Len(screen') : TakeAt(j)' /\ (Open' => Len(ckpt'.content) <= j)
    BY DEF FlightInv
  <2>2. InFlight
    BY <2>1 DEF InFlight, Full
  <2>3. PICK j \in 0 .. Len(screen) : TakeAt(j) /\ (Open => Len(ckpt.content) <= j)
    BY <2>2 DEF FlightInv
  <2>4. TakeAt(j)'
    BY <1>2, <2>3, TakeAtStays
  <2>5. Len(screen) <= Len(screen') /\ Len(screen') \in Nat
    BY <1>2, DrainedGrows
  <2> QED
    BY <1>1, <2>1, <2>3, <2>4, <2>5
<1>3. CASE Take
  <2> SUFFICES ASSUME InFlight'
               PROVE  \E j \in 0 .. Len(screen') : TakeAt(j)' /\ (Open' => Len(ckpt'.content) <= j)
    BY DEF FlightInv
  <2>1. live /\ ~Full /\ ~overflowed
    BY <1>3, ReplyFlies
  <2>2. PICK e : e = Drained
    OBVIOUS
  <2>3. TakeAt(e)'
    BY <1>3, <2>1, <2>2, ReplyAt
  <2>4. UNCHANGED <<screen, ckpt>> /\ Open' = Open
    BY <1>3, TakeReplies DEF Open
  <2>5. e \in 0 .. Len(screen)
    BY <1>1, <1>3, <2>2, DrainedGrows
  <2> QED
    BY <2>2, <2>3, <2>4, <2>5 DEF CkptInv
<1>4. CASE Spawn
  <2>1. pass'.pc = "idle"
    BY <1>4, SpawnStarts
  <2> QED
    BY <2>1 DEF FlightInv, InFlight
<1>5. CASE Writes
  <2>1. CASE Rename
    <3>1. pass'.pc = "reset"
      BY <2>1 DEF Rename, ShapeInv, PassShape, Passes
    <3> QED
      BY <3>1 DEF FlightInv, InFlight
  <2>2. CASE pass' = Idle
    BY <2>2, NothingTaken DEF FlightInv, InFlight
  <2> QED
    BY <1>5, <2>1, <2>2, WritesAreCalm
<1>6. CASE Control
  <2>1. UNCHANGED <<screen, pending, overflowed, ckpt>> /\ (Open' => Open)
    BY <1>6, ControlIsCalm
  <2>2. Drained' = Drained
    BY <2>1 DEF Drained
  <2>3. InFlight' => InFlight /\ pass'.take = pass.take
    BY <1>6, ControlCarries
  <2> QED
    BY <2>1, <2>2, <2>3 DEF FlightInv, TakeAt, PendAt
<1> QED
  BY <1>2, <1>3, <1>4, <1>5, <1>6, StepKinds

-----------------------------------------------------------------------------
(***************************************************************************)
(* Types, and what a new checkpoint has.                                   *)
(***************************************************************************)

\* The inductive invariant of the checkpoint.
BaseInv ==
  /\ DaemonShape /\ AppShape /\ StageShape /\ ShapeInv
  /\ PendingInv /\ CkptInv /\ PassInv /\ ShotInv /\ FlightInv

\* It holds at the start.
LEMMA BaseStart == HistoryInit => BaseInv
<1> SUFFICES ASSUME HistoryInit PROVE BaseInv
  OBVIOUS
<1>1. DaemonShape /\ AppShape /\ StageShape
  BY DEF HistoryInit, DaemonShape, AppShape, StageShape
<1>2. SessionShape
  BY EmptyShapes, HistoryAssumption DEF HistoryInit, SessionShape
<1>3. FileShape
  BY EmptyShapes, HistoryAssumption DEF HistoryInit, FileShape
<1>4. PassShape
  BY EmptyShapes DEF HistoryInit, PassShape
<1>6. PendingInv
  <2>1. <<>> \in Seq(Token) /\ Len(<<>>) = 0 /\ Drained = 0
    BY EmptyShapes DEF HistoryInit, Drained, Tokens
  <2>2. Piece(<<>>, <<>>, 0)
    BY <2>1, PieceOfItself
  <2> QED
    BY <2>1, <2>2 DEF HistoryInit, PendingInv
<1>7. CkptInv
  BY DEF HistoryInit, CkptInv, Open
<1>8. PassInv /\ ShotInv /\ FlightInv
  <2>1. pass.pc = "idle" /\ pass.take.seq = 0
    BY NothingTaken DEF HistoryInit
  <2> QED
    BY <2>1 DEF PassInv, ShotInv, FlightInv, Shot, InFlight
<1> QED
  BY <1>1, <1>2, <1>3, <1>4, <1>6, <1>7, <1>8 DEF BaseInv, ShapeInv

\* Every step keeps it.
LEMMA BaseStep ==
  ASSUME BaseInv, [HistoryNext]_historyVars
  PROVE  BaseInv'
<1>1. /\ DaemonShape /\ AppShape /\ StageShape /\ ShapeInv /\ SessionShape
      /\ PendingInv /\ CkptInv /\ PassInv /\ ShotInv /\ FlightInv
  BY DEF BaseInv, ShapeInv
<1>2. DaemonShape' /\ AppShape' /\ StageShape'
  BY <1>1, DaemonShapeStep, AppShapeStep, StageShapeStep
<1>3. ShapeInv'
  <2>1. SessionShape' /\ FileShape' /\ PassShape'
    BY <1>1, SessionStep, FileStep, PassShapeStep
  <2> QED
    BY <2>1 DEF ShapeInv
<1>4. PendingInv' /\ CkptInv'
  BY <1>1, PendingStep, CkptStep
<1>5. PassInv' /\ ShotInv' /\ FlightInv'
  BY <1>1, PassStep, ShotStep, FlightStep
<1> QED
  BY <1>2, <1>3, <1>4, <1>5 DEF BaseInv

\* It is an invariant.
THEOREM CheckpointInvariant == HistorySpec => []BaseInv
<1>1. BaseInv /\ [HistoryNext]_historyVars => BaseInv'
  BY BaseStep
<1> QED
  BY <1>1, BaseStart, PTL DEF HistorySpec

\* The state has the shape the code gives it; the undrained records of the daemon and the log on
\* disk keep their limits (PENDING_OUTPUT_MAX_BYTES, LOG_MAX_BYTES).
THEOREM HistoryTypeCorrect == HistorySpec => []HistoryTypeOK
<1>1. BaseInv => HistoryTypeOK
  <2> SUFFICES ASSUME BaseInv PROVE HistoryTypeOK
    OBVIOUS
  <2>1. {live, overflowed, exiting, up, linked, active, dirty, needFull, cooling, excused}
          \subseteq BOOLEAN
    BY DEF BaseInv, DaemonShape, AppShape
  <2>2. /\ writer \in {"none", "on", "disabled"} /\ cached \in {"no", "restore", "sleep"}
        /\ leaving \in {"no", "quit", "sleep"} /\ meta \in {"none", "open", "ended"}
    BY DEF BaseInv, StageShape
  <2>3. screen \in Tokens /\ pending \in Tokens /\ past \subseteq Tokens /\ Len(pending) <= PendingMax
    BY DEF BaseInv, ShapeInv, SessionShape
  <2>4. ShapeInv
    BY DEF BaseInv
  <2>5. Len(log.records) <= LogMax
    BY <2>4 DEF ShapeInv, FileShape
  <2> QED
    BY <2>1, <2>2, <2>3, <2>4, <2>5, Parts DEF HistoryTypeOK
<1> QED
  BY <1>1, CheckpointInvariant, PTL

\* A full checkpoint that takes its name (checkpoint) begins with the one it replaces, whatever
\* was lost or cut short before it.
THEOREM CheckpointsOnlyGrow == HistorySpec => CheckpointsGrow
<1> DEFINE A == ~excused /\ meta = "open" /\ meta' = "open" /\ ckpt # ckpt' /\ ckpt' # NoCkpt
                  => IsPrefix(ckpt.content, ckpt'.content)
<1>1. BaseInv /\ [HistoryNext]_historyVars => A
  <2> SUFFICES ASSUME BaseInv, [HistoryNext]_historyVars, Open, ckpt # ckpt', ckpt' # NoCkpt
               PROVE  IsPrefix(ckpt.content, ckpt'.content)
    BY DEF Open
  <2>1. ShapeInv /\ PassInv /\ ShotInv
    BY DEF BaseInv
  <2>2. Rename
    <3>1. CASE Output \/ Take
      BY <3>1 DEF Output, Take, disk
    <3>2. CASE Spawn
      BY <3>2, SpawnStarts
    <3>3. CASE Writes
      BY <3>3 DEF Writes, AppendIncrements, ResetLog, WriteFails, QuitEnds, AppCrashes
    <3>4. CASE Control
      BY <3>4, ControlIsCalm
    <3> QED
      BY <3>1, <3>2, <3>3, <3>4, StepKinds
  <2>3. pass.pc = "tmp" /\ ckpt'.content = pass.take.snapshot
    BY <2>2 DEF Rename
  <2>4. Shot
    BY <2>1, <2>3 DEF PassInv, Shot
  <2>5. Piece(ckpt.content, pass.take.snapshot, 0)
    BY <2>1, <2>4 DEF ShotInv
  <2> QED
    BY <2>1, <2>3, <2>5, Parts, PieceIsPrefix
<1>2. BaseInv /\ [HistoryNext]_historyVars => [A]_historyVars
  BY <1>1
<1> QED
  BY <1>2, CheckpointInvariant, PTL DEF HistorySpec, CheckpointsGrow

-----------------------------------------------------------------------------
(***************************************************************************)
(* The log continues the checkpoint.                                       *)
(***************************************************************************)

\* The sequence of the last batch.
LastSeq == log.seqs[Len(log.seqs)]

\* What the log has is what s shows behind the checkpoint: next to it, if nothing failed.
Behind(s, j) ==
  /\ Len(ckpt.content) <= j /\ (faults = 0 => j = Len(ckpt.content))
  /\ Piece(log.records, s, j)

Shows(s) == Piece(ckpt.content, s, 0) /\ \E j \in 0 .. Len(s) : Behind(s, j)

\* The next batch, if the sequence goes on, will be what the screen shows behind the log.
Next(j) ==
  log.tail = "whole" =>
    IF InFlight THEN LastSeq = seq - 1 => TakeAt(j + Len(log.records))
                ELSE LastSeq = seq => PendAt(j + Len(log.records))

\* The log is that of the running shell.
Ours ==
  /\ LastSeq <= seq /\ (pass.take.seq # 0 /\ pass.pc # "reset" => LastSeq < seq)
  /\ \E j \in 0 .. Len(screen) : Behind(screen, j) /\ Next(j)

\* Before something is appended a full checkpoint is written.
Barred ==
  /\ pass.pc # "append"
  /\ pass.pc # "idle" => \/ Full \/ writer # "on"
                         \/ pass.pc = "asked" /\ ~live
                         \/ pass.pc = "replied" /\ pass.take.seq = 0
  /\ needFull \/ ~active \/ writer # "on" \/ ~live

\* The log is that of an earlier shell.
Theirs == (\E s \in past \cup {screen} : Shows(s)) /\ Barred

LogInv == Open /\ LogApplies => Ours \/ Theirs

\* Without a fault the log, read or not, has no hole, and pending output follows it unless a full
\* checkpoint comes first.
End == Len(ckpt.content) + Len(log.records)
Aligned == IF InFlight THEN TakeAt(End) ELSE PendAt(End)
Whole == \E s \in past \cup {screen} :
           Piece(ckpt.content, s, 0) /\ Piece(log.records, s, Len(ckpt.content))

Follows == Aligned /\ Piece(log.records, screen, Len(ckpt.content))

FullFirst ==
  \/ Full /\ pass.pc # "idle"
  \/ pass.pc = "replied" /\ (pass.take.overflowed \/ pass.take.seq = 0)
  \/ pass.pc = "idle" /\ (needFull \/ ~active \/ ~live)
  \/ pass.pc = "asked" /\ ~live

HoleInv ==
  faults = 0 /\ Open /\ LogGeneration = ckpt.gen => Whole /\ (Follows \/ FullFirst)

\* Without a fault a managed session is connected and written.
NoFaultInv ==
  faults = 0 =>
    /\ writer # "disabled"
    /\ active => linked /\ writer = "on"
    /\ leaving = "sleep" => linked
    /\ live /\ ~active /\ Open => cached = "no"
    /\ log.tail \in {"missing", "whole"}

\* The last sequence is a number.
LEMMA LastIsNat ==
  ASSUME ShapeInv, log.seqs # <<>>
  PROVE  LastSeq \in Nat
<1>1. log.seqs \in Seq(Nat) /\ Len(log.seqs) \in Nat
  BY Parts, Lengths
<1>2. Len(log.seqs) # 0
  BY <1>1, EmptySeq
<1>3. Len(log.seqs) \in 1 .. Len(log.seqs)
  BY <1>1, <1>2
<1>4. ASSUME NEW s \in Seq(Nat), NEW i \in 1 .. Len(s) PROVE s[i] \in Nat
  OBVIOUS
<1> QED
  BY <1>1, <1>3, <1>4 DEF LastSeq

\* Faults are counted.
LEMMA FaultsGrow ==
  ASSUME StageShape, [HistoryNext]_historyVars
  PROVE  faults' \in Nat /\ (faults' = 0 => faults = 0)
<1>1. faults \in Nat
  BY DEF StageShape
<1>2. faults' = faults \/ faults' = faults + 1
  BY DEF HistoryNext, PassSteps, historyVars, Output, Touched, ShellExits, ExitEvent, Ack, TimerFires,
     CooldownEnds, Take, Receive, AppendIncrements, Rename, ResetLog, WriteFails, RequestTimesOut,
     Leave, QuitEnds, SleepEnds, Attach, ColdRestore, Fresh, StaleRestore, RacedRestore, LinkDrops,
     DaemonDies, AppCrashes, AppStarts
<1> QED
  BY <1>1, <1>2

\* If no more was drained than the log has, pending output follows it.
LEMMA OursSettles ==
  ASSUME ShapeInv, log.seqs # <<>>, Ours
  PROVE  /\ LastSeq <= seq
         /\ \E j \in 0 .. Len(screen) :
              /\ Behind(screen, j)
              /\ log.tail = "whole" /\ LastSeq = seq => PendAt(j + Len(log.records))
<1>1. LastSeq \in Nat /\ seq \in Nat
  BY LastIsNat DEF ShapeInv, SessionShape
<1>2. LastSeq <= seq /\ (pass.take.seq # 0 /\ pass.pc # "reset" => LastSeq < seq)
  BY DEF Ours
<1>3. PICK j \in 0 .. Len(screen) : Behind(screen, j) /\ Next(j)
  BY DEF Ours
<1>4. ASSUME log.tail = "whole", LastSeq = seq
      PROVE  PendAt(j + Len(log.records))
  <2>1. ~InFlight
    BY <1>1, <1>2, <1>4 DEF InFlight
  <2> QED
    BY <1>3, <1>4, <2>1 DEF Next
<1> QED
  BY <1>2, <1>3, <1>4

\* What is in flight is not yet in the log.
LEMMA OursInFlight ==
  ASSUME ShapeInv, log.seqs # <<>>, Ours, InFlight
  PROVE  /\ LastSeq < seq
         /\ \E j \in 0 .. Len(screen) :
              /\ Behind(screen, j)
              /\ log.tail = "whole" /\ LastSeq = seq - 1 => TakeAt(j + Len(log.records))
  BY DEF Ours, Next, InFlight

\* The log stays readable, or not, with its checkpoint.
LEMMA ReadableStays ==
  ASSUME UNCHANGED <<ckpt, log>>
  PROVE  /\ LogApplies' = LogApplies /\ LastSeq' = LastSeq /\ LogGeneration' = LogGeneration
         /\ Contiguous' = Contiguous
  BY DEF LogApplies, Contiguous, LastSeq, LogGeneration

\* A log is behind a screen that shows more.
LEMMA BehindStays ==
  ASSUME ShapeInv, faults' = 0 => faults = 0, UNCHANGED <<ckpt, log>>,
         NEW s \in Tokens, NEW e \in Token, NEW j, Behind(s, j)
  PROVE  Behind(s, j)' /\ Behind(Append(s, e), j)'
<1>1. Piece(log.records, s, j) /\ Piece(log.records, Append(s, e), j)
  BY Parts, PieceStays DEF Behind, Tokens
<1> QED
  BY <1>1 DEF Behind

\* Output keeps the log's place.
LEMMA LogOutput ==
  ASSUME ShapeInv, PendingInv, LogInv, Output
  PROVE  LogInv'
<1>1. /\ UNCHANGED <<ckpt, log, pass, past, seq, live, writer, needFull, active, faults>>
      /\ Open' = Open
  BY DEF Output, disk, flags, ghosts, Open
<1>2. LogApplies' = LogApplies /\ LastSeq' = LastSeq
  BY <1>1, ReadableStays
<1>3. InFlight' = InFlight /\ Full' = Full
  BY <1>1 DEF InFlight, Full
<1>4. PICK e \in Token : screen' = Append(screen, e)
  BY OutputShape DEF ShapeInv
<1>0. screen \in Tokens /\ past \subseteq Tokens
  BY DEF ShapeInv, SessionShape
<1>5. Len(screen) <= Len(screen') /\ Len(screen') \in Nat /\ Len(screen) \in Nat /\ Len(log.records) \in Nat
  BY DrainedGrows, Lengths
<1>6. CASE Open /\ LogApplies /\ Ours
  <2>1. PICK j \in 0 .. Len(screen) : Behind(screen, j) /\ Next(j)
    BY <1>6 DEF Ours
  <2>2. Behind(screen, j)'
    <3>1. PICK s \in Tokens : s = screen
      BY <1>0
    <3>2. Behind(Append(s, e), j)'
      BY <1>1, <2>1, <3>1, BehindStays
    <3> QED
      BY <1>4, <3>1, <3>2 DEF Behind
  <2>3. j \in Nat /\ j + Len(log.records) \in Nat /\ j \in 0 .. Len(screen')
    BY <1>5, <2>1
  <2>4. ASSUME NEW i \in Nat
        PROVE  /\ TakeAt(i) => TakeAt(i)'
               /\ PendAt(i) => PendAt(i)'
    BY TakeAtStays, PendAtStays
  <2>5. Next(j)'
    <3>1. PICK i : i = j + Len(log.records)
      OBVIOUS
    <3>2. /\ TakeAt(i) => TakeAt(i)'
          /\ PendAt(i) => PendAt(i)'
      BY <2>3, <2>4, <3>1
    <3> QED
      BY <1>1, <1>2, <1>3, <2>1, <3>1, <3>2 DEF Next
  <2> QED
    BY <1>1, <1>2, <1>6, <2>2, <2>3, <2>5 DEF LogInv, Ours
<1>7. CASE Open /\ LogApplies /\ Theirs
  <2>1. PICK s \in past \cup {screen} : Shows(s)
    BY <1>7 DEF Theirs
  <2>2. PICK j \in 0 .. Len(s) : Behind(s, j)
    BY <2>1 DEF Shows
  <2>3. s \in Tokens /\ s \in Seq(Token) /\ Len(s) \in Nat
    BY <1>0, <2>1, LenProperties DEF Tokens
  <2>4. Behind(s, j)' /\ Behind(Append(s, e), j)'
    BY <1>1, <1>4, <2>2, <2>3, BehindStays
  <2>5. Piece(ckpt.content, s, 0) /\ Piece(ckpt.content, Append(s, e), 0)
    BY <1>4, <2>1, <2>3, Parts, PieceStays DEF Shows
  <2>6. Len(Append(s, e)) = Len(s) + 1
    BY <2>3, OneMore
  <2>7. \E t \in past' \cup {screen'} : Shows(t)'
    <3>1. CASE s \in past
      BY <1>1, <2>2, <2>4, <2>5, <3>1 DEF Shows
    <3>2. CASE s = screen
      <4>1. PICK t : t = screen'
        OBVIOUS
      <4>2. t = Append(s, e) /\ j \in 0 .. Len(t)
        BY <1>4, <2>2, <2>3, <2>6, <3>2, <4>1
      <4>3. Piece(ckpt.content, t, 0) /\ Behind(t, j)'
        BY <2>4, <2>5, <4>2
      <4>4. Shows(t)'
        BY <1>1, <4>2, <4>3 DEF Shows
      <4> QED
        BY <4>1, <4>4
    <3> QED
      BY <2>1, <3>1, <3>2
  <2>8. Barred'
    BY <1>1, <1>3, <1>7 DEF Theirs, Barred
  <2> QED
    BY <2>7, <2>8 DEF LogInv, Theirs
<1> QED
  BY <1>1, <1>2, <1>6, <1>7 DEF LogInv

\* A take drains up to the end of the screen.
LEMMA LogTake ==
  ASSUME ShapeInv, PendingInv, PassInv, LogInv, Take
  PROVE  LogInv'
<1>1. /\ UNCHANGED <<ckpt, log, past, screen, live, writer, needFull, active, faults>>
      /\ Open' = Open
      /\ pass.pc = "asked" /\ pass.take.seq = 0
  <2>1. UNCHANGED <<writer, needFull, active, faults>>
    BY DEF Take, flags
  <2>2. UNCHANGED <<ckpt, log, past, screen, live, meta, excused>> /\ pass.pc = "asked"
    BY TakeReplies
  <2>3. Open' = Open
    BY <2>2 DEF Open
  <2>4. pass.take.seq = 0
    BY <2>2 DEF PassInv
  <2> QED
    BY <2>1, <2>2, <2>3, <2>4
<1>2. LogApplies' = LogApplies /\ LastSeq' = LastSeq
  BY <1>1, ReadableStays
<1>3. /\ pass'.pc = "replied" /\ pass'.kind = pass.kind
      /\ ~live => UNCHANGED <<seq, pending, overflowed>> /\ pass'.take.seq = 0
      /\ live => seq' = seq + 1
  BY <1>1, TakeReplies DEF ShapeInv, PassShape, Passes
<1>4. CASE Open /\ LogApplies /\ Ours
  <2>1. LastSeq \in Nat /\ seq \in Nat /\ Len(log.records) \in Nat
    BY <1>4, LastIsNat, Lengths DEF LogApplies, ShapeInv, SessionShape
  <2>2. PICK j \in 0 .. Len(screen) :
          /\ Behind(screen, j)
          /\ log.tail = "whole" /\ LastSeq = seq => PendAt(j + Len(log.records))
    BY <1>4, OursSettles DEF LogApplies
  <2>3. LastSeq <= seq
    BY <1>4 DEF Ours
  <2>4. Behind(screen, j)'
    BY <1>1, <2>2 DEF Behind
  <2>5. CASE live
    <3>1. LastSeq' < seq' /\ LastSeq' # seq'
      BY <1>2, <1>3, <2>1, <2>3, <2>5
    <3>2. ASSUME log'.tail = "whole", InFlight', LastSeq' = seq' - 1
          PROVE  TakeAt(j + Len(log.records))'
      <4>1. ~Full /\ ~overflowed
        BY <3>2, ReplyFlies
      <4>2. LastSeq = seq
        BY <1>2, <1>3, <2>1, <2>5, <3>2
      <4>3. PICK e : e = j + Len(log.records)
        OBVIOUS
      <4>4. e = Drained
        BY <1>1, <2>2, <3>2, <4>1, <4>2, <4>3 DEF PendAt
      <4>5. TakeAt(e)'
        BY <2>5, <4>1, <4>4, ReplyAt
      <4> QED
        BY <1>1, <4>3, <4>5
    <3>3. Next(j)'
      BY <3>1, <3>2 DEF Next
    <3>4. LastSeq' <= seq'
      BY <1>2, <1>3, <2>1, <2>3, <2>5
    <3> QED
      BY <1>1, <2>4, <3>1, <3>3, <3>4 DEF LogInv, Ours
  <2>6. CASE ~live
    <3>1. UNCHANGED <<seq, pending, overflowed>> /\ pass'.take.seq = 0
      BY <1>3, <2>6
    <3>2. ~InFlight'
      BY <3>1 DEF InFlight
    <3>3. Next(j)'
      BY <1>1, <1>2, <2>2, <3>1, <3>2 DEF Next, PendAt, Drained
    <3> QED
      BY <1>1, <1>2, <2>3, <2>4, <3>1, <3>3 DEF LogInv, Ours
  <2> QED
    BY <2>5, <2>6
<1>5. CASE Open /\ LogApplies /\ Theirs
  <2>1. \E s \in past' \cup {screen'} : Shows(s)'
    BY <1>1, <1>5 DEF Theirs, Shows, Behind
  <2>2. Barred
    BY <1>5 DEF Theirs
  <2>3. Full' = Full
    BY <1>3 DEF Full
  <2>4. Barred'
    BY <1>1, <1>3, <2>2, <2>3 DEF Barred
  <2> QED
    BY <2>1, <2>4 DEF LogInv, Theirs
<1> QED
  BY <1>1, <1>2, <1>4, <1>5 DEF LogInv

\* A shell that is restored does not go on with the log it was restored from.
LEMMA LogSpawn ==
  ASSUME ShapeInv, Spawn
  PROVE  LogInv'
<1>1. CASE Fresh
  <2>1. log'.tail = "missing"
    BY <1>1 DEF Fresh, OpenSession, NoLog
  <2> QED
    BY <2>1 DEF LogInv, LogApplies
<1>2. CASE StaleRestore
  BY <1>2 DEF StaleRestore, Reopen, Open, LogInv
<1>3. CASE ColdRestore \/ RacedRestore
  <2> SUFFICES ASSUME Open', LogApplies' PROVE Theirs'
    BY DEF LogInv
  <2>1. screen' = Restored /\ UNCHANGED <<ckpt, log>> /\ pass'.pc = "idle"
    BY <1>3, SpawnStarts DEF Fresh, StaleRestore, ColdRestore, RacedRestore, NewSession, Open, Reopen,
       OpenSession, Reanchor, disk, HasSaved
  <2>2. LogApplies /\ log.seqs # <<>>
    BY <2>1, ReadableStays DEF LogApplies
  <2>3. needFull'
    <3>1. CASE RacedRestore
      BY <3>1 DEF RacedRestore
    <3>2. CASE ColdRestore
      <4>1. ~excused'
        BY DEF Open
      <4> QED
        BY <2>2, <3>2, <4>1 DEF ColdRestore, Reopen, Reanchor
    <3> QED
      BY <1>3, <3>1, <3>2
  <2>4. Barred'
    BY <2>1, <2>3 DEF Barred
  <2>5. PICK s : s = Restored
    OBVIOUS
  <2>6. s = ckpt.content \o log.records /\ ckpt.content \in Seq(Token) /\ log.records \in Seq(Token)
    BY <2>2, <2>5, Parts DEF Restored
  <2>8. Piece(ckpt.content, s, 0)
    BY <2>5, RestoreBegins
  <2>9. Piece(log.records, s, Len(ckpt.content)) /\ Len(ckpt.content) \in 0 .. Len(s)
    BY <2>6, RestOfSeed
  <2>10. Len(ckpt.content) \in Nat
    BY Lengths
  <2>11. Shows(s)'
    <3>1. Behind(s, Len(ckpt.content))'
      BY <2>1, <2>9, <2>10 DEF Behind
    <3> QED
      BY <2>1, <2>8, <2>9, <3>1 DEF Shows
  <2> QED
    BY <2>1, <2>4, <2>5, <2>11 DEF Theirs
<1> QED
  BY <1>1, <1>2, <1>3 DEF Spawn

\* What a gap is for a log with one more batch.
LEMMA LongerRuns ==
  ASSUME NEW s \in Seq(Nat), NEW e \in Nat
  PROVE  /\ Len(s) \in Nat /\ Len(Append(s, e)) = Len(s) + 1 /\ Append(s, e)[Len(Append(s, e))] = e
         /\ (\A i \in 1 .. Len(Append(s, e)) - 1 : Append(s, e)[i + 1] = Append(s, e)[i] + 1) =>
               /\ \A i \in 1 .. Len(s) - 1 : s[i + 1] = s[i] + 1
               /\ s # <<>> => s[Len(s)] = e - 1
<1>1. Len(s) \in Nat /\ Len(Append(s, e)) = Len(s) + 1
  BY LenProperties
<1>2. Append(s, e)[Len(s) + 1] = e /\ \A i \in 1 .. Len(s) : Append(s, e)[i] = s[i] /\ s[i] \in Nat
  OBVIOUS
<1>3. ASSUME \A i \in 1 .. Len(Append(s, e)) - 1 : Append(s, e)[i + 1] = Append(s, e)[i] + 1
      PROVE  /\ \A i \in 1 .. Len(s) - 1 : s[i + 1] = s[i] + 1
             /\ s # <<>> => s[Len(s)] = e - 1
  <2>1. \A i \in 1 .. Len(s) : Append(s, e)[i + 1] = Append(s, e)[i] + 1
    BY <1>1, <1>3
  <2>2. ASSUME NEW i \in 1 .. Len(s) - 1 PROVE s[i + 1] = s[i] + 1
    <3>1. i \in 1 .. Len(s) /\ i + 1 \in 1 .. Len(s)
      BY <1>1
    <3> QED
      BY <1>2, <2>1, <3>1
  <2>3. ASSUME s # <<>> PROVE s[Len(s)] = e - 1
    <3>1. Len(s) # 0
      BY <2>3, EmptySeq
    <3>2. Len(s) \in 1 .. Len(s)
      BY <1>1, <3>1
    <3> QED
      BY <1>1, <1>2, <2>1, <3>2
  <2> QED
    BY <2>2, <2>3
<1> QED
  BY <1>1, <1>2, <1>3

\* A batch that is written, or the part of it that is, goes on where the log ends.
LEMMA LogLonger ==
  ASSUME ShapeInv, CkptInv, PassInv, FlightInv, LogInv, HoleInv, StageShape,
         pass.pc = "append", log.tail \in {"missing", "whole"}, pass' = Idle,
         NEW n \in 0 .. Len(pass.take.records), NEW t \in {"whole", "torn"},
         t = "whole" => n = Len(pass.take.records), faults' = 0 => faults = 0,
         log' = Longer(n, t), UNCHANGED <<screen, pending, overflowed, seq, ckpt>>, Open' = Open
  PROVE  LogInv'
<1> SUFFICES ASSUME Open, LogApplies' PROVE Ours'
  BY DEF LogInv
<1> DEFINE recs == pass.take.records
           cut == SubSeq(recs, 1, n)
<1>1. /\ InFlight /\ pass.take.seq = seq /\ ~Full /\ seq \in Nat /\ pass.pc # "idle" /\ pass.take.seq # 0
      /\ ~pass.take.overflowed
  BY DEF PassInv, InFlight, ShapeInv, SessionShape
<1>2. /\ recs \in Seq(Token) /\ log.records \in Seq(Token) /\ screen \in Seq(Token)
      /\ Len(recs) \in Nat /\ Len(log.records) \in Nat /\ Len(ckpt.content) \in Nat /\ Len(screen) \in Nat
  BY Parts, Lengths
<1>3. cut \in Seq(Token) /\ Len(cut) = n
  BY <1>2, CutSeq
<1>4. /\ log'.seqs = Append(log.seqs, seq) /\ log'.records = log.records \o cut /\ log'.tail = t
      /\ log'.gen = LogGeneration /\ Len(log'.records) = Len(log.records) + n
      /\ t = "whole" => log'.records = log.records \o recs
  BY <1>1, LongerIsLog DEF Longer
<1>5. LogGeneration = ckpt.gen
  BY <1>4 DEF LogApplies
<1>6. /\ LastSeq' = seq
      /\ log.seqs # <<>> => Contiguous /\ LastSeq = seq - 1
  <2>1. log.seqs \in Seq(Nat)
    BY Parts
  <2>2. Contiguous'
    BY DEF LogApplies
  <2>3. PICK s : s = log.seqs
    OBVIOUS
  <2>4. s \in Seq(Nat) /\ log'.seqs = Append(s, seq)
    BY <1>4, <2>1, <2>3
  <2>5. \A i \in 1 .. Len(Append(s, seq)) - 1 : Append(s, seq)[i + 1] = Append(s, seq)[i] + 1
    BY <2>2, <2>4 DEF Contiguous
  <2>6. /\ Append(s, seq)[Len(Append(s, seq))] = seq
        /\ \A i \in 1 .. Len(s) - 1 : s[i + 1] = s[i] + 1
        /\ s # <<>> => s[Len(s)] = seq - 1
    BY <1>1, <2>4, <2>5, LongerRuns
  <2> QED
    BY <2>3, <2>4, <2>6 DEF Contiguous, LastSeq
<1>7. ASSUME NEW j \in Nat, Len(ckpt.content) <= j, (faults = 0 => j = Len(ckpt.content)),
             Piece(log.records, screen, j), TakeAt(j + Len(log.records))
      PROVE  Ours'
  <2>1. Piece(recs, screen, j + Len(log.records)) /\ PendAt(j + Len(log.records) + Len(recs))
    BY <1>7 DEF TakeAt
  <2>2. Piece(cut, screen, j + Len(log.records))
    <3>1. PICK k : k = j + Len(log.records)
      OBVIOUS
    <3>2. Piece(cut, screen, k)
      BY <1>2, <2>1, <3>1, PieceIsCut
    <3> QED
      BY <3>1, <3>2
  <2> HIDE DEF cut
  <2>3. Piece(log.records \o cut, screen, j)
    BY <1>2, <1>3, <1>7, <2>2, PiecesJoin
  <2>4. Behind(screen, j)'
    BY <1>4, <1>7, <2>3 DEF Behind
  <2>5. j \in 0 .. Len(screen)
    BY <1>2, <1>7, <2>3 DEF Piece
  <2>6. pass'.take.seq = 0 /\ ~InFlight'
    BY NothingTaken DEF InFlight
  <2>7. ASSUME t = "whole" PROVE PendAt(j + Len(log.records))'
    <3>1. j + Len(log.records) + Len(recs) = j + (Len(log.records) + n)
      <4>1. n = Len(recs)
        BY <2>7
      <4>2. \A a, b, c \in Nat : a + b + c = a + (b + c)
        OBVIOUS
      <4> QED
        BY <1>2, <1>7, <4>1, <4>2
    <3> QED
      BY <1>4, <2>1, <3>1 DEF PendAt, Drained
  <2>8. Next(j)'
    BY <1>4, <2>6, <2>7 DEF Next
  <2> QED
    BY <1>1, <1>6, <2>4, <2>5, <2>6, <2>8 DEF Ours
<1>8. CASE log.seqs = <<>>
  <2>1. log.records = <<>> /\ Len(log.records) = 0
    BY <1>8, EmptyShapes DEF ShapeInv, FileShape
  <2>2. PICK j \in 0 .. Len(screen) :
          /\ TakeAt(j) /\ Len(ckpt.content) <= j
          /\ faults = 0 => j = Len(ckpt.content)
    <3>1. CASE faults = 0
      <4>1. Aligned
        BY <1>1, <1>5, <3>1 DEF HoleInv, Follows, FullFirst
      <4>2. PICK e : e = End
        OBVIOUS
      <4>3. e = Len(ckpt.content) /\ TakeAt(e)
        BY <1>1, <1>2, <2>1, <4>1, <4>2 DEF Aligned, End
      <4>4. Len(ckpt.content) <= Len(screen)
        BY <1>2 DEF CkptInv, Piece
      <4> QED
        BY <1>2, <4>3, <4>4
    <3>2. CASE faults # 0
      BY <1>1, <3>2 DEF FlightInv
    <3> QED
      BY <3>1, <3>2
  <2>3. Piece(log.records, screen, j)
    BY <1>2, <2>1, PieceOfItself
  <2>4. TakeAt(j + Len(log.records)) /\ j \in Nat
    BY <1>2, <2>1, <2>2
  <2> QED
    BY <1>7, <2>2, <2>3, <2>4
<1>9. CASE log.seqs # <<>>
  <2>1. log.tail = "whole"
    BY <1>9 DEF ShapeInv, FileShape, NoLog
  <2>2. LogApplies
    BY <1>5, <1>6, <1>9, <2>1 DEF LogApplies, LogGeneration
  <2>3. Ours
    BY <2>2 DEF LogInv, Theirs, Barred
  <2>4. PICK j \in 0 .. Len(screen) : Behind(screen, j) /\ TakeAt(j + Len(log.records))
    BY <1>1, <1>6, <1>9, <2>1, <2>3, OursInFlight
  <2>5. j \in Nat
    BY <1>2
  <2> QED
    BY <1>7, <2>4, <2>5 DEF Behind
<1> QED
  BY <1>8, <1>9

\* A pass that ends without a write leaves the log where it is.
LEMMA LogLeft ==
  ASSUME ShapeInv, PassInv, LogInv, faults' = 0 => faults = 0, pass' = Idle,
         UNCHANGED <<ckpt, log, screen, pending, overflowed, seq, past>>, Open' => Open,
         Theirs => Barred'
  PROVE  LogInv'
<1>1. LogApplies' = LogApplies /\ LastSeq' = LastSeq
  BY ReadableStays
<1>2. pass'.take.seq = 0 /\ ~InFlight'
  BY NothingTaken DEF InFlight
<1>3. CASE LogApplies /\ Ours
  <2>1. PICK j \in 0 .. Len(screen) :
          /\ Behind(screen, j)
          /\ log.tail = "whole" /\ LastSeq = seq => PendAt(j + Len(log.records))
    BY <1>3, OursSettles DEF LogApplies
  <2>2. Behind(screen, j)' /\ Next(j)'
    BY <1>1, <1>2, <2>1 DEF Behind, Next, PendAt, Drained
  <2>3. LastSeq <= seq
    BY <1>3 DEF Ours
  <2> QED
    BY <1>1, <1>2, <2>2, <2>3 DEF LogInv, Ours
<1>4. CASE Theirs
  <2>1. \E s \in past' \cup {screen'} : Shows(s)'
    BY <1>4 DEF Theirs, Shows, Behind
  <2> QED
    BY <1>4, <2>1 DEF LogInv, Theirs
<1> QED
  BY <1>1, <1>3, <1>4 DEF LogInv

\* A write goes on with the log of the running shell, or leaves what is not read.
LEMMA LogWrites ==
  ASSUME ShapeInv, StageShape, CkptInv, PassInv, FlightInv, LogInv, HoleInv, Writes
  PROVE  LogInv'
<1>1. UNCHANGED <<live, screen, pending, overflowed, seq, past>> /\ Open' = Open
  BY WritesAreCalm
<1>2. faults' = 0 => faults = 0
  <2>1. faults \in Nat /\ (faults' = faults \/ faults' = faults + 1)
    BY DEF StageShape, Writes, AppendIncrements, Rename, ResetLog, WriteFails, QuitEnds, AppCrashes
  <2> QED
    BY <2>1
<1>3. ASSUME log'.tail \in {"missing", "garbled"} \/ log'.seqs = <<>>
      PROVE  LogInv'
  BY <1>3 DEF LogInv, LogApplies
<1>4. CASE Rename
  <2>1. pass.pc = "tmp" /\ ckpt'.gen = pass.gen /\ log' = log
    BY <1>4 DEF Rename
  <2>2. ckpt'.gen = LogGeneration + 1
    BY <2>1 DEF PassInv
  <2>3. CASE log.tail = "missing"
    BY <1>3, <2>1, <2>3
  <2>4. CASE log.tail # "missing"
    <3>1. log'.gen # ckpt'.gen
      BY <2>1, <2>2, <2>4, Parts DEF LogGeneration
    <3> QED
      BY <3>1 DEF LogInv, LogApplies
  <2> QED
    BY <2>3, <2>4
<1>5. CASE ResetLog
  BY <1>3, <1>5 DEF ResetLog
<1>6. CASE AppendIncrements
  <2>1. /\ pass.pc = "append" /\ pass' = Idle /\ ckpt' = ckpt
        /\ log' = Appended(pass.take, Len(pass.take.records))
    BY <1>6 DEF AppendIncrements, Done
  <2>2. Len(pass.take.records) \in 0 .. Len(pass.take.records)
    <3>1. \A k \in Nat : k \in 0 .. k
      OBVIOUS
    <3> QED
      BY <3>1, Lengths
  <2>3. CASE log.tail \in {"missing", "whole"} /\ log' = Longer(Len(pass.take.records), "whole")
    BY <1>1, <1>2, <2>1, <2>2, <2>3, LogLonger
  <2>4. CASE log' = Garbled
    <3>1. log'.tail = "garbled"
      BY <2>4 DEF Garbled, ShapeInv, FileShape, Logs
    <3> QED
      BY <1>3, <3>1
  <2> QED
    BY <2>1, <2>3, <2>4, AppendWrites
<1>7. CASE WriteFails \/ QuitEnds \/ AppCrashes
  <2>1. pass' = Idle /\ ckpt' = ckpt /\ log' \in CutShort /\ (writer' # "on" \/ ~active')
    BY <1>7 DEF WriteFails, Done, QuitEnds, AppCrashes, AppGone
  <2>2. CASE log' = log
    <3>1. Barred'
      BY <2>1, NothingTaken DEF Barred
    <3> QED
      BY <1>1, <1>2, <2>1, <2>2, <3>1, LogLeft
  <2>3. CASE log' = NoLog
    BY <1>3, <2>3 DEF NoLog
  <2>4. CASE log' = Garbled
    <3>1. log'.tail = "garbled"
      BY <2>4 DEF Garbled, ShapeInv, FileShape, Logs
    <3> QED
      BY <1>3, <3>1
  <2>5. ASSUME pass.pc = "append", log.tail \in {"missing", "whole"},
               NEW n \in 0 .. Len(pass.take.records), log' = Longer(n, "torn")
        PROVE  LogInv'
    BY <1>1, <1>2, <2>1, <2>5, LogLonger
  <2>6. PICK l : l = log'
    OBVIOUS
  <2> QED
    BY <2>1, <2>2, <2>3, <2>4, <2>5, <2>6, CutLeaves
<1> QED
  BY <1>4, <1>5, <1>6, <1>7 DEF Writes

\* Control keeps a log that awaits a full checkpoint from being gone on with.
LEMMA BarredStays ==
  ASSUME PassInv, Control, Open', log.seqs # <<>>, Barred
  PROVE  Barred'
<1>1. ASSUME UNCHANGED <<pass, needFull, active, writer>>, live' => live
      PROVE  Barred'
  BY <1>1 DEF Barred, Full
<1>2. CASE Touched \/ CooldownEnds \/ Ack \/ AppStarts
  BY <1>1, <1>2 DEF Touched, CooldownEnds, Ack, AppStarts, session, flags
<1>3. CASE ShellExits
  BY <1>1, <1>3 DEF ShellExits, flags
<1>4. CASE ExitEvent
  <2>1. pass' = pass /\ ~active' /\ writer' = "none"
    BY <1>4 DEF ExitEvent
  <2> QED
    BY <2>1 DEF Barred
<1>5. CASE TimerFires
  <2>1. /\ pass.pc = "idle" /\ active /\ UNCHANGED <<needFull, active, writer, live>>
        /\ pass' = Asked(IF needFull THEN "flagged" ELSE "tick")
    BY <1>5 DEF TimerFires, session
  <2>2. needFull \/ writer # "on" \/ ~live
    BY <2>1 DEF Barred
  <2>3. /\ Asked("flagged").kind = "flagged" /\ Asked("flagged").pc = "asked"
        /\ Asked("tick").pc = "asked"
    BY AskedShape
  <2> QED
    BY <2>1, <2>2, <2>3 DEF Barred, Full
<1>6. CASE Receive
  <2>1. pass.pc = "replied" /\ UNCHANGED <<live, active, writer>>
    BY <1>6 DEF Receive, session
  <2>2. CASE Full /\ Moves("tmp")
    <3>1. pass' = [pass EXCEPT !.pc = "tmp", !.gen = LogGeneration + 1] /\ needFull' = needFull /\ Full
      BY <2>2 DEF Moves
    <3>2. writer = "on" /\ (needFull \/ ~active \/ ~live)
      BY <2>2 DEF Moves, Barred
    <3> QED
      BY <2>1, <2>2, <3>1, <3>2 DEF Barred, Full
  <2>3. CASE Nothing /\ Ends
    <3>1. pass'.pc = "idle" /\ (needFull' = needFull \/ Full)
      BY <2>3, NothingTaken DEF Ends, Full
    <3>2. pass.take.seq = 0 => ~live
      BY <2>1 DEF PassInv
    <3>3. Full /\ pass.take.seq # 0 => writer # "on"
      BY <2>3 DEF Nothing
    <3> QED
      BY <2>1, <3>1, <3>2, <3>3 DEF Barred
  <2>4. CASE Escalates
    <3>1. CASE pass' = Idle /\ needFull'
      BY <3>1, NothingTaken DEF Barred
    <3>2. CASE pass' = Asked("escalated") /\ needFull' = needFull
      <4>1. Asked("escalated").kind = "escalated" /\ Asked("escalated").pc = "asked"
        BY AskedShape
      <4> QED
        BY <2>1, <3>2, <4>1 DEF Barred, Full
    <3> QED
      BY <2>4, <3>1, <3>2 DEF Escalates
  <2>5. CASE ~Full /\ Moves("append")
    BY <2>1, <2>5 DEF Barred, Moves
  <2> QED
    BY <1>6, <2>2, <2>3, <2>4, <2>5, Replies
<1>7. CASE RequestTimesOut
  <2>1. pass' = Idle /\ UNCHANGED <<live, active, writer, needFull>>
    BY <1>7 DEF RequestTimesOut, session, flags
  <2> QED
    BY <2>1, NothingTaken DEF Barred
<1>8. ASSUME NEW how \in {"quit", "sleep"}, Leave(how)
      PROVE  Barred'
  <2>1. UNCHANGED <<live, active, writer, needFull>> /\ (pass' = Asked("final") \/ pass' = Idle)
    BY <1>8 DEF Leave, session, flags
  <2>2. Asked("final").kind = "final" /\ Asked("final").pc = "asked"
    BY AskedShape
  <2> QED
    BY <2>1, <2>2, NothingTaken DEF Barred, Full
<1>9. CASE SleepEnds
  <2>1. pass.pc = "idle" /\ pass' = pass /\ (writer' = writer \/ writer' = "none")
    BY <1>9 DEF SleepEnds
  <2>2. ~active' \/ (UNCHANGED <<live, active, needFull>>)
    BY <1>9 DEF SleepEnds
  <2> QED
    BY <2>1, <2>2 DEF Barred
<1>10. CASE Attach
  <2>1. pass.pc = "idle" /\ pass' = pass /\ live' = live /\ active'
    BY <1>10 DEF Attach, MaySpawn, session
  <2>2. needFull' \/ (active /\ writer' = writer)
    <3>1. ~excused'
      BY DEF Open
    <3>2. CASE cached # "no"
      BY <1>10, <3>1, <3>2 DEF Attach, Reopen
    <3>3. CASE cached = "no" /\ active
      <4>1. /\ writer' = IF writer = "none" THEN "on" ELSE writer
            /\ excused' = (excused \/ (writer = "none" /\ ~needFull /\ log.seqs # <<>>))
            /\ needFull' = needFull
        BY <1>10, <3>3 DEF Attach
      <4>2. writer # "none" \/ needFull
        BY <3>1, <4>1
      <4> QED
        BY <3>3, <4>1, <4>2
    <3>4. CASE cached = "no" /\ ~active
      BY <1>10, <3>4 DEF Attach, Reanchor
    <3> QED
      BY <3>2, <3>3, <3>4
  <2>3. needFull => needFull'
    BY <1>10 DEF Attach, Reopen, Reanchor
  <2> QED
    BY <2>1, <2>2, <2>3 DEF Barred
<1>11. CASE LinkDrops \/ DaemonDies
  <2>1. /\ UNCHANGED <<active, writer, needFull>> /\ (pass' = Idle \/ pass' = pass)
        /\ live' => live
    BY <1>11 DEF LinkDrops, DaemonDies, Unlink, flags, session
  <2> QED
    BY <2>1, NothingTaken DEF Barred, Full
<1>12. CASE UNCHANGED historyVars
  BY <1>1, <1>12 DEF historyVars, session, flags
<1> QED
  BY <1>2, <1>3, <1>4, <1>5, <1>6, <1>7, <1>8, <1>9, <1>10, <1>11, <1>12 DEF Control

\* Control keeps the log's place.
LEMMA LogControl ==
  ASSUME ShapeInv, StageShape, PassInv, LogInv, [HistoryNext]_historyVars, Control
  PROVE  LogInv'
<1>1. UNCHANGED <<screen, pending, overflowed, seq, ckpt, log, past>> /\ (Open' => Open)
  BY ControlIsCalm
<1>2. LogApplies' = LogApplies /\ LastSeq' = LastSeq
  BY <1>1, ReadableStays
<1>3. faults' = 0 => faults = 0
  BY FaultsGrow
<1> SUFFICES ASSUME Open', Open, LogApplies, log.seqs # <<>>
             PROVE  LogInv'
  BY <1>1, <1>2 DEF LogInv, LogApplies
<1>4. CASE Ours
  <2>1. CASE pass' = Idle \/ \E kind \in {"tick", "flagged", "escalated", "final"} : pass' = Asked(kind)
    <3>1. pass'.take.seq = 0 /\ (pass'.pc = "idle" \/ pass'.pc = "asked")
      BY <2>1, NothingTaken
    <3>2. ~InFlight'
      BY <3>1 DEF InFlight
    <3>3. PICK j \in 0 .. Len(screen) :
            /\ Behind(screen, j)
            /\ log.tail = "whole" /\ LastSeq = seq => PendAt(j + Len(log.records))
      BY <1>4, OursSettles
    <3>4. Behind(screen, j)' /\ Next(j)'
      BY <1>1, <1>2, <1>3, <3>2, <3>3 DEF Behind, Next, PendAt, Drained
    <3>5. LastSeq <= seq
      BY <1>4 DEF Ours
    <3> QED
      BY <1>1, <1>2, <3>1, <3>4, <3>5 DEF LogInv, Ours
  <2>2. ASSUME pass'.take = pass.take, InFlight' = InFlight, pass.pc # "reset" \/ pass'.pc = "reset"
        PROVE  LogInv'
    <3>1. PICK j \in 0 .. Len(screen) : Behind(screen, j) /\ Next(j)
      BY <1>4 DEF Ours
    <3>2. Behind(screen, j)' /\ Next(j)'
      BY <1>1, <1>2, <1>3, <2>2, <3>1 DEF Behind, Next, TakeAt, PendAt, Drained
    <3>3. LastSeq <= seq /\ (pass.take.seq # 0 /\ pass.pc # "reset" => LastSeq < seq)
      BY <1>4 DEF Ours
    <3> QED
      <4>1. pass'.take.seq # 0 /\ pass'.pc # "reset" => LastSeq' < seq'
        BY <1>1, <1>2, <2>2, <3>3
      <4> QED
        BY <1>1, <1>2, <3>2, <3>3, <4>1 DEF LogInv, Ours
  <2>3. CASE pass' = pass
    BY <2>2, <2>3 DEF InFlight, Full
  <2>4. ASSUME NEW pc \in {"tmp", "append"}, Moves(pc)
        PROVE  pass'.pc = pc /\ pass'.take = pass.take /\ pass'.kind = pass.kind
    BY <2>4 DEF Moves, ShapeInv, PassShape, Passes
  <2>5. CASE pass.pc = "replied" /\ Full /\ Moves("tmp")
    <3>1. pass'.pc = "tmp" /\ pass'.take = pass.take /\ pass'.kind = pass.kind
      BY <2>4, <2>5
    <3>2. InFlight' = InFlight
      BY <2>5, <3>1 DEF InFlight, Full
    <3> QED
      BY <2>2, <2>5, <3>1, <3>2
  <2>6. CASE pass.pc = "replied" /\ ~Full /\ Moves("append")
    <3>1. pass'.pc = "append" /\ pass'.take = pass.take /\ pass'.kind = pass.kind
      BY <2>4, <2>6
    <3>2. InFlight' = InFlight
      BY <2>6, <3>1 DEF InFlight, Full
    <3> QED
      BY <2>2, <2>6, <3>1, <3>2
  <2> QED
    BY <2>1, <2>3, <2>5, <2>6, ControlOfPass
<1>5. CASE Theirs
  <2>1. \E s \in past' \cup {screen'} : Shows(s)'
    BY <1>1, <1>3, <1>5 DEF Theirs, Shows, Behind
  <2>2. Barred'
    BY <1>5, BarredStays DEF Theirs
  <2> QED
    BY <2>1, <2>2 DEF LogInv, Theirs
<1> QED
  BY <1>4, <1>5 DEF LogInv

\* The log stays one that continues the checkpoint.
LEMMA LogStep ==
  ASSUME BaseInv, LogInv, HoleInv, [HistoryNext]_historyVars
  PROVE  LogInv'
<1>1. ShapeInv /\ StageShape /\ PendingInv /\ CkptInv /\ PassInv /\ FlightInv
  BY DEF BaseInv
<1> QED
  BY <1>1, StepKinds, LogOutput, LogTake, LogSpawn, LogWrites, LogControl

-----------------------------------------------------------------------------
(***************************************************************************)
(* Without a fault.                                                        *)
(***************************************************************************)

\* The steps that are faults.
Faults == WriteFails \/ RequestTimesOut \/ LinkDrops \/ DaemonDies \/ AppCrashes

\* They are counted.
LEMMA FaultsCount ==
  ASSUME StageShape, Faults
  PROVE  faults' # 0
BY DEF StageShape, Faults, WriteFails, RequestTimesOut, LinkDrops, DaemonDies, AppCrashes

\* What a pass that is not under way leaves cut short.
LEMMA NothingCut == pass.pc = "idle" => CutShort = {log}
BY DEF CutShort

\* Without a fault a managed session stays connected and written.
LEMMA NoFaultStep ==
  ASSUME ShapeInv, StageShape, NoFaultInv, [HistoryNext]_historyVars
  PROVE  NoFaultInv'
<1> SUFFICES ASSUME faults' = 0
             PROVE  /\ writer' # "disabled"
                    /\ active' => linked' /\ writer' = "on"
                    /\ leaving' = "sleep" => linked'
                    /\ live' /\ ~active' /\ Open' => cached' = "no"
                    /\ log'.tail \in {"missing", "whole"}
  BY DEF NoFaultInv
<1>1. /\ writer # "disabled"
      /\ active => linked /\ writer = "on"
      /\ leaving = "sleep" => linked
      /\ live /\ ~active /\ Open => cached = "no"
      /\ log.tail \in {"missing", "whole"}
  BY FaultsGrow DEF NoFaultInv
<1>2. writer \in {"none", "on", "disabled"} /\ cached \in {"no", "restore", "sleep"}
  BY DEF StageShape
<1>3. ~Faults
  BY FaultsCount
<1> USE DEF Open
<1>4. CASE Output \/ Take
  BY <1>1, <1>4 DEF Output, Take, session, flags, disk, ghosts
<1>5. CASE Touched \/ CooldownEnds \/ TimerFires
  BY <1>1, <1>5 DEF Touched, CooldownEnds, TimerFires, session, disk, ghosts
<1>6. CASE Ack \/ AppStarts \/ ShellExits
  BY <1>1, <1>6 DEF Ack, AppStarts, ShellExits, session, flags, disk, ghosts
<1>7. CASE ExitEvent
  <2>1. /\ ~active' /\ writer' = "none" /\ UNCHANGED <<live, linked, leaving, log, excused>>
        /\ cached' = IF cached = "sleep" THEN "sleep" ELSE "no"
        /\ meta' = IF writer = "none" THEN meta ELSE "ended"
    BY <1>7 DEF ExitEvent, session
  <2>2. live' /\ Open' => cached' = "no"
    BY <1>1, <2>1
  <2> QED
    BY <1>1, <2>1, <2>2
<1>8. CASE Receive
  BY <1>1, <1>8 DEF Receive, session, disk, ghosts
<1>9. CASE AppendIncrements
  <2>1. log' = Appended(pass.take, Len(pass.take.records))
    BY <1>9 DEF AppendIncrements
  <2>2. log'.tail = "whole"
    BY <1>1, <2>1 DEF Appended
  <2> QED
    BY <1>1, <1>9, <2>2 DEF AppendIncrements, session, ghosts
<1>10. CASE Rename \/ ResetLog
  <2>1. log' = log \/ log'.tail = "whole"
    BY <1>10 DEF Rename, ResetLog
  <2>2. UNCHANGED <<live, active, linked, writer, cached, leaving, meta, excused>>
    BY <1>10 DEF Rename, ResetLog, session, flags, ghosts
  <2> QED
    BY <1>1, <2>1, <2>2
<1>11. CASE QuitEnds
  BY <1>1, <1>11, NothingCut DEF QuitEnds, AppGone
<1>12. ASSUME NEW how \in {"quit", "sleep"}, Leave(how)
       PROVE  /\ writer' # "disabled"
              /\ active' => linked' /\ writer' = "on"
              /\ leaving' = "sleep" => linked'
              /\ live' /\ ~active' /\ Open' => cached' = "no"
              /\ log'.tail \in {"missing", "whole"}
  BY <1>1, <1>12 DEF Leave, session, flags, disk
<1>13. CASE SleepEnds
  <2>1. linked /\ linked' = linked
    BY <1>1, <1>13 DEF SleepEnds
  <2>2. ~live' /\ ~active'
    BY <1>13, <2>1 DEF SleepEnds
  <2>3. log' = log /\ leaving' = "no" /\ (writer' = "none" \/ writer' = writer)
    BY <1>13 DEF SleepEnds, disk
  <2> QED
    BY <1>1, <2>1, <2>2, <2>3
<1>14. CASE Attach
  <2>1. linked' /\ active' /\ log' = log
    BY <1>14 DEF Attach, Reopen, disk
  <2>2. writer' = "on"
    BY <1>1, <1>2, <1>14 DEF Attach, Reopen, Reanchor
  <2> QED
    BY <1>1, <2>1, <2>2
<1>15. CASE ColdRestore
  <2>1. linked' /\ active' /\ log' = log
    BY <1>15 DEF ColdRestore, Reopen, disk
  <2>2. writer' = "on"
    BY <1>1, <1>2, <1>15 DEF ColdRestore, Reopen, Reanchor
  <2> QED
    BY <1>1, <2>1, <2>2
<1>16. CASE Fresh \/ StaleRestore
  BY <1>1, <1>16 DEF Fresh, StaleRestore, OpenSession, Reopen, NoLog
<1>17. CASE RacedRestore
  <2>1. linked' /\ active' /\ log' = log
    BY <1>17 DEF RacedRestore
  <2>2. writer' = "on"
    BY <1>1, <1>2, <1>17 DEF RacedRestore
  <2> QED
    BY <1>1, <2>1, <2>2
<1>18. CASE UNCHANGED historyVars
  BY <1>1, <1>18 DEF historyVars, session, flags, disk, ghosts
<1> QED
  BY <1>3, <1>4, <1>5, <1>6, <1>7, <1>8, <1>9, <1>10, <1>11, <1>12, <1>13, <1>14, <1>15, <1>16,
     <1>17, <1>18 DEF HistoryNext, PassSteps, Faults

\* An empty log is a piece of any screen that begins with the checkpoint, at its end.
LEMMA EmptyLogIsWhole ==
  ASSUME ShapeInv, NEW c \in Seq(Token), Piece(c, screen, 0)
  PROVE  Piece(<<>>, screen, Len(c))
<1>1. Len(screen) \in Nat /\ Len(c) \in Nat /\ Len(c) <= Len(screen) /\ screen \in Seq(Token)
  BY Lengths, LenProperties, Parts DEF Piece
<1>2. Len(c) \in 0 .. Len(screen)
  BY <1>1
<1> QED
  BY <1>1, <1>2, PieceOfItself

\* Output keeps the log whole.
LEMMA HoleOutput ==
  ASSUME ShapeInv, PendingInv, HoleInv, Output
  PROVE  HoleInv'
<1>1. UNCHANGED <<ckpt, log, pass, past, live, needFull, active, faults>> /\ Open' = Open
  BY DEF Output, disk, flags, ghosts, Open
<1>2. LogGeneration' = LogGeneration
  BY <1>1, ReadableStays
<1> SUFFICES ASSUME faults = 0, Open, LogGeneration = ckpt.gen
             PROVE  Whole' /\ (Follows' \/ FullFirst')
  BY <1>1, <1>2 DEF HoleInv
<1>3. PICK e \in Token : screen' = Append(screen, e)
  BY OutputShape DEF ShapeInv
<1>4. /\ past \subseteq Seq(Token) /\ screen \in Seq(Token)
      /\ ckpt.content \in Seq(Token) /\ log.records \in Seq(Token)
      /\ Len(ckpt.content) \in Nat /\ Len(log.records) \in Nat
  BY Parts, Lengths DEF ShapeInv, SessionShape, Tokens
<1>5. ASSUME NEW r \in Seq(Token), NEW j, Piece(r, screen, j)
      PROVE  Piece(r, screen', j)
  BY <1>3, <1>4, <1>5, PieceStays
<1>6. Whole'
  <2>1. PICK s \in past \cup {screen} :
          Piece(ckpt.content, s, 0) /\ Piece(log.records, s, Len(ckpt.content))
    BY DEF HoleInv, Whole
  <2>2. CASE s \in past
    BY <1>1, <2>1, <2>2 DEF Whole
  <2>3. CASE s = screen
    <3>1. Piece(ckpt.content, screen', 0) /\ Piece(log.records, screen', Len(ckpt.content))
      BY <1>4, <1>5, <2>1, <2>3
    <3> QED
      BY <1>1, <3>1 DEF Whole
  <2> QED
    BY <2>1, <2>2, <2>3
<1>7. CASE Follows
  <2>1. PICK i : i = End
    OBVIOUS
  <2>2. i \in Nat
    <3>1. \A m, n \in Nat : m + n \in Nat
      OBVIOUS
    <3>2. i = Len(ckpt.content) + Len(log.records)
      BY <2>1 DEF End
    <3> QED
      BY <1>4, <3>1, <3>2
  <2>3. /\ TakeAt(i) => TakeAt(i)'
        /\ PendAt(i) => PendAt(i)'
    BY <2>2, TakeAtStays, PendAtStays
  <2>4. InFlight' = InFlight /\ End' = i
    BY <1>1, <2>1 DEF InFlight, Full, End
  <2>5. Aligned'
    BY <1>7, <2>1, <2>3, <2>4 DEF Follows, Aligned
  <2>6. Piece(log.records, screen', Len(ckpt.content))
    BY <1>4, <1>5, <1>7 DEF Follows
  <2> QED
    BY <1>1, <1>6, <2>5, <2>6 DEF Follows
<1>8. CASE FullFirst
  BY <1>1, <1>6, <1>8 DEF FullFirst, Full
<1> QED
  BY <1>7, <1>8 DEF HoleInv

\* A take drains what follows the log.
LEMMA HoleTake ==
  ASSUME ShapeInv, PendingInv, PassInv, HoleInv, Take
  PROVE  HoleInv'
<1>1. /\ UNCHANGED <<screen, ckpt, log, past, live, meta, excused>> /\ pass.pc = "asked"
      /\ ~live => UNCHANGED <<pending, overflowed>>
  BY TakeReplies
<1>2. faults' = faults /\ Open' = Open
  BY <1>1 DEF Take, Open
<1>3. LogGeneration' = LogGeneration
  BY <1>1, ReadableStays
<1> SUFFICES ASSUME faults = 0, Open, LogGeneration = ckpt.gen
             PROVE  Whole' /\ (Follows' \/ FullFirst')
  BY <1>1, <1>2, <1>3 DEF HoleInv
<1>4. Whole' /\ (Follows \/ FullFirst)
  BY <1>1 DEF HoleInv, Whole
<1>5. /\ pass'.pc = "replied" /\ pass'.kind = pass.kind
      /\ ~live => pass'.take.seq = 0
      /\ live => pass'.take = Reply
  BY <1>1, TakeReplies DEF PassInv, ShapeInv, PassShape, Passes
<1>6. CASE ~live \/ Full \/ overflowed
  <2>1. FullFirst'
    BY <1>5, <1>6 DEF FullFirst, Full, Reply
  <2> QED
    BY <1>4, <2>1
<1>7. CASE live /\ ~Full /\ ~overflowed
  <2>1. Follows /\ ~InFlight
    BY <1>1, <1>4, <1>7 DEF FullFirst, InFlight
  <2>2. PICK i : i = End
    OBVIOUS
  <2>3. i = Drained
    BY <1>7, <2>1, <2>2 DEF Follows, Aligned, PendAt
  <2>4. TakeAt(i)'
    BY <1>7, <2>3, ReplyAt
  <2>5. End' = i /\ InFlight'
    BY <1>1, <1>7, <2>2, ReplyFlies DEF End
  <2>6. Follows'
    BY <1>1, <2>1, <2>4, <2>5 DEF Follows, Aligned
  <2> QED
    BY <1>4, <2>6
<1> QED
  BY <1>6, <1>7

\* A shell starts with a log that is whole.
LEMMA HoleSpawn ==
  ASSUME ShapeInv, StageShape, HoleInv, [HistoryNext]_historyVars, Spawn
  PROVE  HoleInv'
<1> SUFFICES ASSUME faults' = 0, Open', LogGeneration' = ckpt'.gen
             PROVE  Whole' /\ (Follows' \/ FullFirst')
  BY DEF HoleInv
<1>1. faults = 0 /\ pass'.pc = "idle" /\ pending' = <<>>
  BY FaultsGrow, SpawnStarts
<1>2. ~InFlight'
  BY <1>1 DEF InFlight
<1>3. ASSUME NEW c \in Seq(Token), screen' = c, ckpt'.content = c, log'.records = <<>>
      PROVE  Whole' /\ Follows'
  <2>1. Len(c) \in Nat /\ Len(<<>>) = 0 /\ Piece(c, c, 0) /\ Piece(<<>>, c, Len(c))
    <3>1. Len(c) \in Nat /\ Len(<<>>) = 0 /\ Piece(c, c, 0) /\ \A j \in 0 .. Len(c) : Piece(<<>>, c, j)
      BY LenProperties, PieceOfItself, EmptyShapes
    <3>2. Len(c) \in 0 .. Len(c)
      BY <3>1
    <3> QED
      BY <3>1, <3>2
  <2>2. End' = Drained'
    BY <1>1, <1>3, <2>1 DEF End, Drained
  <2>3. Whole'
    BY <1>3, <2>1 DEF Whole
  <2> QED
    BY <1>2, <1>3, <2>1, <2>2, <2>3 DEF Follows, Aligned, PendAt
<1>4. CASE Fresh
  <2>1. screen' = <<>> /\ ckpt' = NoCkpt /\ log' = NoLog
    BY <1>4 DEF Fresh, NewSession, OpenSession
  <2>2. <<>> \in Seq(Token) /\ ckpt'.content = <<>> /\ log'.records = <<>>
    BY <2>1, EmptyShapes DEF NoCkpt, NoLog, Tokens
  <2> QED
    BY <1>3, <2>1, <2>2
<1>5. CASE StaleRestore
  BY <1>5 DEF StaleRestore, Reopen, Open
<1>6. CASE ColdRestore \/ RacedRestore
  <2>1. /\ screen' = Restored /\ UNCHANGED <<ckpt, log>> /\ past' = past \cup {screen} /\ Open
    <3>1. CASE ColdRestore
      <4>1. /\ screen' = Restored /\ past' = past \cup {screen} /\ UNCHANGED <<ckpt, log>>
            /\ meta = "open"
        BY <3>1 DEF ColdRestore, NewSession, Reopen, Reanchor, disk
      <4>2. ~excused
        BY <3>1 DEF ColdRestore, Reopen, Open
      <4> QED
        BY <4>1, <4>2 DEF Open
    <3>2. CASE RacedRestore
      BY <3>2 DEF RacedRestore, NewSession, Open
    <3> QED
      BY <1>6, <3>1, <3>2
  <2>2. LogGeneration' = LogGeneration
    BY <2>1, ReadableStays
  <2>3. Whole'
    BY <1>1, <2>1, <2>2 DEF HoleInv, Whole
  <2>4. CASE needFull'
    BY <1>1, <2>3, <2>4 DEF FullFirst
  <2>5. CASE ~needFull'
    <3>1. log.seqs = <<>>
      <4>1. ~excused'
        BY DEF Open
      <4> QED
        BY <1>6, <2>5, <4>1 DEF ColdRestore, RacedRestore, Reopen, Reanchor
    <3>2. log.records = <<>> /\ Restored = ckpt.content
      BY <3>1 DEF ShapeInv, FileShape, Restored, LogApplies
    <3> QED
      BY <1>3, <2>1, <3>2, Parts
  <2> QED
    BY <2>4, <2>5
<1> QED
  BY <1>4, <1>5, <1>6 DEF Spawn

\* A write keeps the log whole.
LEMMA HoleWrites ==
  ASSUME BaseInv, NoFaultInv, HoleInv, [HistoryNext]_historyVars, Writes
  PROVE  HoleInv'
<1> SUFFICES ASSUME faults' = 0, Open', LogGeneration' = ckpt'.gen
             PROVE  Whole' /\ (Follows' \/ FullFirst')
  BY DEF HoleInv
<1>1. /\ ShapeInv /\ PassInv /\ CkptInv /\ ShotInv /\ StageShape
  BY DEF BaseInv
<1>2. /\ faults = 0 /\ Open /\ UNCHANGED <<live, screen, pending, overflowed, seq, past>> /\ ~Faults
  BY <1>1, FaultsGrow, FaultsCount, WritesAreCalm
<1>3. /\ ckpt.content \in Seq(Token) /\ log.records \in Seq(Token) /\ screen \in Seq(Token)
      /\ pass.take.records \in Seq(Token) /\ pass.take.snapshot \in Seq(Token)
      /\ Len(ckpt.content) \in Nat /\ Len(log.records) \in Nat /\ Len(pass.take.records) \in Nat
      /\ Len(pass.take.snapshot) \in Nat
  BY <1>1, Parts, Lengths
<1>4. Drained' = Drained /\ \A e \in Nat : PendAt(e) => (overflowed' \/ e = Drained')
  BY <1>2 DEF Drained, PendAt
<1>5. ASSUME Shot, ckpt'.content = pass.take.snapshot, log'.records = <<>>
      PROVE  /\ Whole' /\ Piece(log'.records, screen', Len(ckpt'.content))
             /\ PendAt(End)'
  <2>1. Piece(pass.take.snapshot, screen, 0) /\ PendAt(Len(pass.take.snapshot))
    BY <1>1, <1>5 DEF ShotInv
  <2>2. Piece(<<>>, screen, Len(pass.take.snapshot))
    BY <1>1, <1>3, <2>1, EmptyLogIsWhole
  <2>3. End' = Len(pass.take.snapshot)
    BY <1>3, <1>5, EmptyShapes DEF End
  <2>4. Whole'
    BY <1>2, <1>5, <2>1, <2>2 DEF Whole
  <2>5. PendAt(End)'
    BY <1>3, <1>4, <2>1, <2>3 DEF PendAt
  <2> QED
    BY <1>2, <1>5, <2>2, <2>4, <2>5
<1>6. CASE AppendIncrements
  <2>1. /\ pass.pc = "append" /\ pass' = Idle /\ ckpt' = ckpt
        /\ log' = Appended(pass.take, Len(pass.take.records))
    BY <1>6 DEF AppendIncrements, Done
  <2>2. log.tail \in {"missing", "whole"}
    BY <1>2 DEF NoFaultInv
  <2>3. log' = Longer(Len(pass.take.records), "whole")
    BY <1>1, <2>1, <2>2, AppendWrites
  <2>4. /\ log'.records = log.records \o pass.take.records /\ log'.gen = LogGeneration
        /\ log'.tail = "whole"
    <3>1. Len(pass.take.records) \in 0 .. Len(pass.take.records)
      <4>1. \A k \in Nat : k \in 0 .. k
        OBVIOUS
      <4> QED
        BY <1>3, <4>1
    <3> QED
      BY <1>1, <2>3, <3>1, LongerIsLog DEF Longer
  <2>5. LogGeneration = ckpt.gen
    BY <2>1, <2>4 DEF LogGeneration
  <2>6. InFlight /\ ~Full /\ ~pass.take.overflowed
    BY <1>1, <2>1 DEF PassInv, InFlight
  <2>7. Follows
    BY <1>2, <2>1, <2>5, <2>6 DEF HoleInv, FullFirst
  <2>8. TakeAt(End) /\ Piece(log.records, screen, Len(ckpt.content))
    BY <2>6, <2>7 DEF Follows, Aligned
  <2>9. /\ Piece(pass.take.records, screen, Len(ckpt.content) + Len(log.records))
        /\ PendAt(Len(ckpt.content) + Len(log.records) + Len(pass.take.records))
    BY <2>8 DEF TakeAt, End
  <2>10. Piece(log'.records, screen', Len(ckpt.content))
    BY <1>2, <1>3, <2>4, <2>8, <2>9, PiecesJoin
  <2>11. Len(log'.records) = Len(log.records) + Len(pass.take.records)
    BY <1>3, <2>4, ConcatProperties
  <2>12. End' = Len(ckpt.content) + Len(log.records) + Len(pass.take.records)
    <3>1. \A a, b, c \in Nat : a + b + c = a + (b + c)
      OBVIOUS
    <3>2. End' = Len(ckpt.content) + (Len(log.records) + Len(pass.take.records))
      BY <2>1, <2>11 DEF End
    <3> QED
      BY <1>3, <3>1, <3>2
  <2>13. PendAt(End)'
    BY <1>2, <1>4, <2>9, <2>12 DEF PendAt
  <2>14. ~InFlight'
    BY <2>1, NothingTaken DEF InFlight
  <2>15. Piece(ckpt.content, screen, 0)
    BY <1>1, <1>2 DEF CkptInv
  <2>16. Whole'
    BY <1>2, <2>1, <2>10, <2>15 DEF Whole
  <2> QED
    BY <2>1, <2>10, <2>13, <2>14, <2>16 DEF Follows, Aligned
<1>7. CASE Rename
  <2>1. /\ pass.pc = "tmp" /\ ckpt' = [content |-> pass.take.snapshot, gen |-> pass.gen] /\ log' = log
        /\ pass' = [pass EXCEPT !.pc = "reset"]
    BY <1>7 DEF Rename
  <2>2. Shot /\ Full /\ pass.gen = LogGeneration + 1
    BY <1>1, <2>1 DEF PassInv, Shot
  <2>3. log.tail = "missing"
    <3>1. ASSUME log.tail # "missing" PROVE FALSE
      <4>1. log.gen = pass.gen /\ pass.gen = log.gen + 1 /\ log.gen \in Nat
        BY <1>1, <2>1, <2>2, <3>1, Parts DEF LogGeneration
      <4> QED
        BY <4>1
    <3> QED
      BY <3>1
  <2>4. log'.records = <<>> /\ ckpt'.content = pass.take.snapshot
    BY <1>1, <2>1, <2>3 DEF ShapeInv, FileShape, NoLog
  <2>5. pass'.pc = "reset" /\ pass'.kind = pass.kind
    BY <1>1, <2>1 DEF ShapeInv, PassShape, Passes
  <2>6. FullFirst'
    BY <2>2, <2>5 DEF FullFirst, Full
  <2> QED
    BY <1>5, <2>2, <2>4, <2>6
<1>8. CASE ResetLog
  <2>1. pass.pc = "reset" /\ log'.records = <<>> /\ ckpt' = ckpt /\ pass' = Idle
    BY <1>8 DEF ResetLog, Done
  <2>2. Shot /\ ckpt'.content = pass.take.snapshot
    BY <1>1, <2>1 DEF PassInv, Shot
  <2>3. ~InFlight'
    BY <2>1, NothingTaken DEF InFlight
  <2>4. Whole' /\ Piece(log'.records, screen', Len(ckpt'.content)) /\ PendAt(End)'
    BY <1>5, <2>1, <2>2
  <2> QED
    BY <2>3, <2>4 DEF Follows, Aligned
<1>9. CASE QuitEnds
  <2>1. log' = log /\ ckpt' = ckpt /\ pass' = Idle /\ ~active'
    BY <1>9, NothingCut DEF QuitEnds, AppGone
  <2>2. LogGeneration' = LogGeneration
    BY <2>1, ReadableStays
  <2>3. Whole'
    BY <1>2, <2>1, <2>2 DEF HoleInv, Whole
  <2>4. FullFirst'
    BY <2>1, NothingTaken DEF FullFirst
  <2> QED
    BY <2>3, <2>4
<1> QED
  BY <1>2, <1>6, <1>7, <1>8, <1>9 DEF Writes, Faults

\* What follows the log does while neither moves.
LEMMA FollowsStays ==
  ASSUME UNCHANGED <<screen, pending, overflowed, ckpt, log>>, InFlight' = InFlight,
         InFlight => pass'.take = pass.take, Follows
  PROVE  Follows'
<1>1. Drained' = Drained /\ End' = End
  BY DEF Drained, End
<1>2. Aligned'
  <2>1. CASE InFlight
    BY <1>1, <2>1 DEF Follows, Aligned, TakeAt, PendAt
  <2>2. CASE ~InFlight
    BY <1>1, <2>2 DEF Follows, Aligned, PendAt
  <2> QED
    BY <2>1, <2>2
<1> QED
  BY <1>2 DEF Follows

\* Control keeps the log whole: what is not written is dropped for a full checkpoint.
LEMMA HoleControl ==
  ASSUME BaseInv, NoFaultInv, HoleInv, [HistoryNext]_historyVars, Control
  PROVE  HoleInv'
<1>1. ShapeInv /\ StageShape /\ PassInv
  BY DEF BaseInv
<1>2. UNCHANGED <<screen, pending, overflowed, ckpt, log, past>> /\ (Open' => Open)
  BY ControlIsCalm
<1>3. LogGeneration' = LogGeneration /\ Drained' = Drained /\ End' = End
  BY <1>2, ReadableStays DEF Drained, End
<1> SUFFICES ASSUME faults' = 0, faults = 0, Open, Open', LogGeneration = ckpt.gen, ~Faults
             PROVE  Follows' \/ FullFirst'
  <2>1. Whole' = Whole
    BY <1>2 DEF Whole
  <2> QED
    BY <1>1, <1>2, <1>3, <2>1, FaultsGrow, FaultsCount DEF HoleInv
<1>4. Follows \/ FullFirst
  BY DEF HoleInv
<1>5. /\ active => linked /\ writer = "on"
      /\ live /\ ~active => cached = "no"
  BY DEF NoFaultInv
<1>6. ASSUME pass' = pass, needFull => needFull', active' => active, live' => live
      PROVE  Follows' \/ FullFirst'
  <2>1. CASE Follows
    <3>1. InFlight' = InFlight
      BY <1>6 DEF InFlight, Full
    <3> QED
      BY <1>2, <1>6, <2>1, <3>1, FollowsStays
  <2>2. CASE FullFirst
    BY <1>6, <2>2 DEF FullFirst, Full
  <2> QED
    BY <1>4, <2>1, <2>2
<1>7. ASSUME pass.pc = "idle", pass'.pc = "asked", Follows
      PROVE  Follows'
  <2>1. InFlight' = InFlight
    BY <1>7 DEF InFlight
  <2> QED
    BY <1>2, <1>7, <2>1, FollowsStays DEF InFlight
<1>8. CASE Touched \/ CooldownEnds \/ Ack \/ AppStarts
  BY <1>6, <1>8 DEF Touched, CooldownEnds, Ack, AppStarts, session, flags
<1>9. CASE ShellExits
  BY <1>6, <1>9 DEF ShellExits, flags
<1>10. CASE ExitEvent
  <2>1. pass' = pass /\ ~active' /\ live' = live
    BY <1>10 DEF ExitEvent, session
  <2>2. CASE Follows
    <3>1. InFlight' = InFlight
      BY <2>1 DEF InFlight, Full
    <3> QED
      BY <1>2, <2>1, <2>2, <3>1, FollowsStays
  <2>3. CASE FullFirst
    BY <2>1, <2>3 DEF FullFirst, Full
  <2> QED
    BY <1>4, <2>2, <2>3
<1>11. CASE TimerFires
  <2>1. /\ pass.pc = "idle" /\ active /\ UNCHANGED <<needFull, active, live>>
        /\ pass' = Asked(IF needFull THEN "flagged" ELSE "tick")
    BY <1>11 DEF TimerFires, session
  <2>2. /\ Asked("flagged").kind = "flagged" /\ Asked("flagged").pc = "asked"
        /\ Asked("tick").pc = "asked"
    BY AskedShape
  <2>3. CASE Follows
    <3>1. pass'.pc = "asked"
      BY <2>1, <2>2
    <3> QED
      BY <1>7, <2>1, <2>3, <3>1
  <2>4. CASE FullFirst
    <3>1. needFull \/ ~live
      BY <2>1, <2>4 DEF FullFirst
    <3> QED
      BY <2>1, <2>2, <3>1 DEF FullFirst, Full
  <2> QED
    BY <1>4, <2>3, <2>4
<1>12. CASE Receive
  <2>1. pass.pc = "replied" /\ UNCHANGED <<live, active, writer>>
    BY <1>12 DEF Receive, session
  <2>2. CASE Full /\ Moves("tmp")
    <3>1. pass'.pc = "tmp" /\ pass'.kind = pass.kind
      BY <1>1, <2>2 DEF Moves, ShapeInv, PassShape, Passes
    <3> QED
      BY <2>2, <3>1 DEF FullFirst, Full
  <2>3. CASE Nothing /\ Ends
    <3>1. pass'.pc = "idle" /\ ~InFlight'
      BY <2>3, NothingTaken DEF Ends, InFlight
    <3>2. pass.take.seq = 0 => ~live
      BY <1>1, <2>1 DEF PassInv
    <3>3. CASE ~live \/ ~active
      BY <2>1, <3>1, <3>3 DEF FullFirst
    <3>4. CASE live /\ active
      <4>1. pass.take.seq # 0 /\ writer = "on"
        BY <1>5, <3>2, <3>4
      <4>2. ~Full /\ pass.take.records = <<>> /\ ~pass.take.overflowed
        BY <2>3, <4>1 DEF Nothing
      <4>3. InFlight /\ Follows
        BY <1>4, <2>1, <4>1, <4>2 DEF InFlight, FullFirst
      <4>4. PendAt(End + Len(<<>>)) /\ Piece(log.records, screen, Len(ckpt.content))
        BY <4>2, <4>3 DEF Follows, Aligned, TakeAt
      <4>5. End + Len(<<>>) = End
        BY <1>1, Lengths, EmptyShapes DEF End
      <4>6. Aligned'
        BY <1>2, <1>3, <3>1, <4>4, <4>5 DEF Aligned, PendAt
      <4> QED
        BY <1>2, <4>4, <4>6 DEF Follows
    <3> QED
      BY <3>3, <3>4
  <2>4. CASE Escalates
    <3>1. CASE pass' = Idle /\ needFull'
      BY <3>1, NothingTaken DEF FullFirst
    <3>2. CASE pass' = Asked("escalated")
      <4>1. Asked("escalated").kind = "escalated" /\ Asked("escalated").pc = "asked"
        BY AskedShape
      <4> QED
        BY <3>2, <4>1 DEF FullFirst, Full
    <3> QED
      BY <2>4, <3>1, <3>2 DEF Escalates
  <2>5. CASE ~Full /\ ~pass.take.overflowed /\ Moves("append")
    <3>1. pass'.pc = "append" /\ pass'.kind = pass.kind /\ pass'.take = pass.take /\ pass.take.seq # 0
      BY <1>1, <2>5 DEF Moves, ShapeInv, PassShape, Passes
    <3>2. InFlight' = InFlight
      BY <2>1, <2>5, <3>1 DEF InFlight, Full
    <3>3. Follows
      BY <1>4, <2>1, <2>5, <3>1 DEF FullFirst
    <3> QED
      BY <1>2, <3>1, <3>2, <3>3, FollowsStays
  <2> QED
    BY <1>12, <2>2, <2>3, <2>4, <2>5, Replies
<1>13. ASSUME NEW how \in {"quit", "sleep"}, Leave(how)
       PROVE  Follows' \/ FullFirst'
  <2>1. /\ pass.pc = "idle" /\ active /\ UNCHANGED <<live, active, needFull>>
        /\ pass' = (IF linked THEN Asked("final") ELSE Idle)
    BY <1>13 DEF Leave, session, flags
  <2>2. pass' = Asked("final")
    BY <1>5, <2>1
  <2>3. Asked("final").kind = "final" /\ Asked("final").pc = "asked"
    BY AskedShape
  <2> QED
    BY <2>2, <2>3 DEF FullFirst, Full
<1>14. CASE SleepEnds
  <2>1. pass.pc = "idle" /\ pass' = pass
    BY <1>14 DEF SleepEnds
  <2>2. ~active' \/ UNCHANGED <<live, active, needFull>>
    BY <1>14 DEF SleepEnds
  <2>3. CASE ~active'
    BY <2>1, <2>3 DEF FullFirst
  <2>4. CASE UNCHANGED <<live, active, needFull>>
    BY <1>6, <2>1, <2>4
  <2> QED
    BY <2>2, <2>3, <2>4
<1>15. CASE Attach
  <2>1. pass.pc = "idle" /\ pass' = pass /\ live' = live /\ live
    BY <1>15 DEF Attach, MaySpawn, session
  <2>2. needFull => needFull'
    BY <1>15 DEF Attach, Reopen, Reanchor
  <2>3. CASE active
    BY <1>6, <2>1, <2>2, <2>3
  <2>4. CASE ~active
    <3>1. needFull'
      BY <1>5, <1>15, <2>1, <2>4 DEF Attach, Reanchor
    <3> QED
      BY <2>1, <3>1 DEF FullFirst
  <2> QED
    BY <2>3, <2>4
<1>16. CASE UNCHANGED historyVars
  BY <1>6, <1>16 DEF historyVars, session, flags
<1> QED
  BY <1>8, <1>9, <1>10, <1>11, <1>12, <1>13, <1>14, <1>15, <1>16 DEF Control, Faults

\* The log stays whole.
LEMMA HoleStep ==
  ASSUME BaseInv, NoFaultInv, HoleInv, [HistoryNext]_historyVars
  PROVE  HoleInv'
<1>1. ShapeInv /\ StageShape /\ PendingInv /\ PassInv
  BY DEF BaseInv
<1> QED
  BY <1>1, StepKinds, HoleOutput, HoleTake, HoleSpawn, HoleWrites, HoleControl

-----------------------------------------------------------------------------
(***************************************************************************)
(* A terminal that is put to sleep.                                        *)
(***************************************************************************)

\* The checkpoint has what the user saw.
Saved == ckpt.gen # 0 /\ asked <= Len(ckpt.content)

\* The final pass saves it before the kill.
GoingToSleep ==
  /\ live /\ active /\ asked <= Len(screen)
  /\ pass.pc \in {"idle", "reset"} => Saved
  /\ pass.pc # "idle" => pass.kind = "final"
  /\ pass.pc \in {"replied", "tmp"} => pass.take.seq # 0 /\ asked <= Len(pass.take.snapshot)

\* What follows does not lose it, while the restore is kept.
Asleep ==
  /\ meta = "open" /\ Saved
  /\ live => asked <= Len(screen)
  /\ ~live => writer = "none"
  /\ Shot => asked <= Len(pass.take.snapshot)

SleepInv ==
  faults = 0 =>
    /\ active /\ cached = "sleep" => meta = "open"
    /\ leaving = "sleep" /\ asked # 0 => GoingToSleep
    /\ leaving = "no" /\ cached = "sleep" /\ asked # 0 => Asleep

\* A saved checkpoint is one.
LEMMA SavedIsSaved == Saved => HasSaved
BY DEF Saved, HasSaved, NoCkpt

\* A terminal that goes to sleep is saved.
LEMMA GoingStep ==
  ASSUME BaseInv, NoFaultInv, SleepInv, [HistoryNext]_historyVars,
         faults' = 0, leaving' = "sleep", asked' # 0
  PROVE  GoingToSleep'
<1>1. ShapeInv /\ StageShape /\ PendingInv /\ PassInv
  BY DEF BaseInv
<1>2. faults = 0 /\ ~Faults
  BY <1>1, FaultsGrow, FaultsCount
<1>3. leaving = "sleep" /\ asked # 0 => GoingToSleep
  BY <1>2 DEF SleepInv
<1>4. active => linked /\ writer = "on"
  BY <1>2 DEF NoFaultInv
<1>5. asked \in Nat /\ Len(screen) \in Nat
  BY <1>1, Lengths DEF StageShape
<1>6. ASSUME UNCHANGED <<leaving, asked, live, screen, active, pass, ckpt>>
      PROVE  GoingToSleep'
  BY <1>3, <1>6 DEF GoingToSleep, Saved
<1>7. CASE Output
  <2>1. UNCHANGED <<leaving, asked, live, active, pass, ckpt>>
    BY <1>7 DEF Output, flags, disk, ghosts
  <2>2. Len(screen) <= Len(screen') /\ Len(screen') \in Nat
    BY <1>1, <1>7, DrainedGrows
  <2>3. GoingToSleep
    BY <1>3, <2>1
  <2>4. asked' <= Len(screen')
    BY <1>5, <2>1, <2>2, <2>3 DEF GoingToSleep
  <2> QED
    BY <2>1, <2>3, <2>4 DEF GoingToSleep, Saved
<1>8. CASE Take
  <2>1. UNCHANGED <<leaving, asked, live, active, screen, ckpt>> /\ pass.pc = "asked"
    BY <1>8, TakeReplies DEF Take, flags, ghosts
  <2>2. GoingToSleep
    BY <1>3, <2>1
  <2>3. live /\ pass.kind = "final" /\ asked <= Len(screen)
    BY <2>1, <2>2 DEF GoingToSleep
  <2>4. pass' = [pass EXCEPT !.pc = "replied", !.take = Reply]
    BY <1>8, <2>3, TakeReplies
  <2>5. /\ pass'.pc = "replied" /\ pass'.kind = "final" /\ pass'.take.seq = seq + 1
        /\ pass'.take.snapshot = screen
    BY <1>1, <2>3, <2>4 DEF Reply, Full, ShapeInv, PassShape, Passes
  <2>6. seq + 1 # 0
    BY <1>1 DEF ShapeInv, SessionShape
  <2> QED
    BY <2>1, <2>2, <2>3, <2>5, <2>6 DEF GoingToSleep
<1>9. CASE Touched \/ CooldownEnds \/ Ack \/ AppStarts
  BY <1>6, <1>9 DEF Touched, CooldownEnds, Ack, AppStarts, session, flags, disk, ghosts
<1>10. CASE ShellExits
  BY <1>10 DEF ShellExits
<1>11. CASE ExitEvent
  <2>1. asked' = (IF live THEN 0 ELSE asked) /\ leaving' = leaving
    BY <1>11 DEF ExitEvent
  <2> QED
    BY <1>3, <2>1 DEF GoingToSleep
<1>12. CASE TimerFires \/ QuitEnds \/ SleepEnds \/ Attach \/ Spawn
  BY <1>12 DEF TimerFires, QuitEnds, AppGone, SleepEnds, Attach, Spawn, ColdRestore, Fresh, StaleRestore,
     RacedRestore, MaySpawn
<1>13. CASE Receive
  <2>1. UNCHANGED <<leaving, asked, live, active, screen, ckpt>> /\ pass.pc = "replied"
    BY <1>13 DEF Receive, session, disk, ghosts
  <2>2. GoingToSleep
    BY <1>3, <2>1
  <2>3. Full /\ pass.take.seq # 0 /\ writer = "on" /\ pass.kind = "final"
    BY <1>4, <2>1, <2>2 DEF GoingToSleep, Full
  <2>4. Moves("tmp")
    BY <1>13, <2>3, Replies DEF Nothing
  <2>5. pass'.pc = "tmp" /\ pass'.kind = pass.kind /\ pass'.take = pass.take
    BY <1>1, <2>4 DEF Moves, ShapeInv, PassShape, Passes
  <2> QED
    BY <2>1, <2>2, <2>3, <2>5 DEF GoingToSleep
<1>14. CASE AppendIncrements
  <2>1. pass.pc = "append" /\ UNCHANGED <<leaving, asked>>
    BY <1>14 DEF AppendIncrements, ghosts
  <2> QED
    BY <1>1, <1>3, <2>1 DEF GoingToSleep, PassInv, Full
<1>15. CASE Rename
  <2>1. /\ UNCHANGED <<leaving, asked, live, active, screen>> /\ pass.pc = "tmp"
        /\ pass' = [pass EXCEPT !.pc = "reset"]
        /\ ckpt' = [content |-> pass.take.snapshot, gen |-> pass.gen]
    BY <1>15 DEF Rename, session, flags, ghosts
  <2>2. GoingToSleep
    BY <1>3, <2>1
  <2>3. asked <= Len(pass.take.snapshot) /\ pass.kind = "final"
    BY <2>1, <2>2 DEF GoingToSleep
  <2>4. pass.gen # 0
    <3>1. pass.gen = LogGeneration + 1 /\ LogGeneration \in Nat
      BY <1>1, <2>1, Parts DEF PassInv
    <3> QED
      BY <3>1
  <2>5. pass'.pc = "reset" /\ pass'.kind = pass.kind
    BY <1>1, <2>1 DEF ShapeInv, PassShape, Passes
  <2>6. Saved'
    BY <2>1, <2>3, <2>4 DEF Saved
  <2> QED
    BY <2>1, <2>2, <2>3, <2>5, <2>6 DEF GoingToSleep
<1>16. CASE ResetLog
  <2>1. UNCHANGED <<leaving, asked, live, active, screen, ckpt>> /\ pass.pc = "reset" /\ pass' = Idle
    BY <1>16 DEF ResetLog, Done, session, ghosts
  <2>2. GoingToSleep
    BY <1>3, <2>1
  <2>3. Saved' /\ pass'.pc = "idle"
    BY <2>1, <2>2, NothingTaken DEF GoingToSleep, Saved
  <2> QED
    BY <2>1, <2>2, <2>3 DEF GoingToSleep
<1>17. ASSUME NEW how \in {"quit", "sleep"}, Leave(how)
       PROVE  GoingToSleep'
  <2>1. /\ leaving' = how /\ active /\ UNCHANGED <<active, live, screen>>
        /\ pass' = (IF linked THEN Asked("final") ELSE Idle)
        /\ asked' = IF how = "sleep" /\ live THEN Len(screen) ELSE 0
    BY <1>17 DEF Leave, session, flags
  <2>2. pass' = Asked("final") /\ asked' = Len(screen) /\ live
    BY <1>4, <2>1
  <2>3. Asked("final").pc = "asked" /\ Asked("final").kind = "final"
    BY AskedShape
  <2>4. asked' <= Len(screen')
    BY <1>5, <2>1, <2>2
  <2> QED
    BY <2>1, <2>2, <2>3, <2>4 DEF GoingToSleep
<1>18. CASE UNCHANGED historyVars
  BY <1>6, <1>18 DEF historyVars, session, flags, disk, ghosts
<1> QED
  BY <1>2, <1>7, <1>8, <1>9, <1>10, <1>11, <1>12, <1>13, <1>14, <1>15, <1>16, <1>17, <1>18
     DEF HistoryNext, PassSteps, Spawn, Faults

\* A terminal that sleeps stays saved.
LEMMA AsleepStep ==
  ASSUME BaseInv, NoFaultInv, SleepInv, [HistoryNext]_historyVars,
         faults' = 0, leaving' = "no", cached' = "sleep", asked' # 0
  PROVE  Asleep'
<1>1. ShapeInv /\ StageShape /\ PendingInv /\ PassInv
  BY DEF BaseInv
<1>2. faults = 0 /\ ~Faults
  BY <1>1, FaultsGrow, FaultsCount
<1>3. /\ active /\ cached = "sleep" => meta = "open"
      /\ leaving = "sleep" /\ asked # 0 => GoingToSleep
      /\ leaving = "no" /\ cached = "sleep" /\ asked # 0 => Asleep
  BY <1>2 DEF SleepInv
<1>4. asked \in Nat /\ Len(screen) \in Nat /\ Len(ckpt.content) \in Nat
  BY <1>1, Lengths DEF StageShape
<1>5. ASSUME UNCHANGED <<leaving, cached, asked, live, screen, ckpt, meta, writer>>,
             Shot' => Shot /\ pass'.take = pass.take
      PROVE  Asleep'
  BY <1>3, <1>5 DEF Asleep, Saved
<1>6. CASE Output
  <2>1. UNCHANGED <<leaving, cached, asked, live, pass, ckpt, meta, writer>>
    BY <1>6 DEF Output, flags, disk, ghosts
  <2>2. Len(screen) <= Len(screen') /\ Len(screen') \in Nat
    BY <1>1, <1>6, DrainedGrows
  <2>3. Asleep /\ Shot' = Shot
    BY <1>3, <2>1 DEF Shot, Full
  <2>4. live => asked' <= Len(screen')
    BY <1>4, <2>1, <2>2, <2>3 DEF Asleep
  <2> QED
    BY <2>1, <2>3, <2>4 DEF Asleep, Saved
<1>7. CASE Take
  <2>1. UNCHANGED <<leaving, cached, asked, live, screen, ckpt, meta, writer>> /\ pass.pc = "asked"
    BY <1>7, TakeReplies DEF Take, flags, disk, ghosts
  <2>2. Asleep
    BY <1>3, <2>1
  <2>3. ASSUME Shot'
        PROVE  asked <= Len(pass'.take.snapshot)
    <3>1. CASE live
      <4>1. pass' = [pass EXCEPT !.pc = "replied", !.take = Reply]
        BY <1>7, <3>1, TakeReplies
      <4>2. pass'.kind = pass.kind /\ pass'.take = Reply
        BY <1>1, <4>1 DEF ShapeInv, PassShape, Passes
      <4>3. pass'.take.snapshot = screen
        BY <2>3, <4>2 DEF Reply, Shot, Full
      <4> QED
        BY <2>2, <3>1, <4>3 DEF Asleep
    <3>2. CASE ~live
      <4>1. pass' = [pass EXCEPT !.pc = "replied"]
        BY <1>7, <3>2, TakeReplies
      <4>2. pass'.take.seq = 0
        BY <1>1, <2>1, <4>1 DEF PassInv, ShapeInv, PassShape, Passes
      <4> QED
        BY <2>3, <4>2 DEF Shot
    <3> QED
      BY <3>1, <3>2
  <2> QED
    BY <2>1, <2>2, <2>3 DEF Asleep, Saved
<1>8. CASE Touched \/ CooldownEnds \/ AppStarts
  <2>1. UNCHANGED <<leaving, cached, asked, live, screen, ckpt, meta, writer, pass>>
    BY <1>8 DEF Touched, CooldownEnds, AppStarts, session, flags, disk, ghosts
  <2> QED
    BY <1>5, <2>1 DEF Shot, Full
<1>9. CASE Ack \/ ShellExits \/ QuitEnds \/ RacedRestore
  BY <1>9 DEF Ack, ShellExits, QuitEnds, AppGone, RacedRestore
<1>10. CASE ExitEvent
  <2>1. /\ cached = "sleep" /\ asked' = (IF live THEN 0 ELSE asked)
        /\ UNCHANGED <<leaving, live, screen, ckpt, pass>> /\ writer' = "none"
        /\ meta' = IF writer = "none" THEN meta ELSE "ended"
    BY <1>10 DEF ExitEvent, session
  <2>2. ~live /\ asked' = asked /\ Asleep
    BY <1>3, <2>1
  <2>3. meta' = meta
    BY <2>1, <2>2 DEF Asleep
  <2> QED
    BY <2>1, <2>2, <2>3 DEF Asleep, Saved, Shot, Full
<1>11. CASE TimerFires \/ Receive
  <2>1. UNCHANGED <<leaving, cached, asked, live, screen, ckpt, meta, writer>>
    BY <1>11 DEF TimerFires, Receive, session, flags, disk, ghosts
  <2>2. Shot' => Shot /\ pass'.take = pass.take
    BY <1>1, <1>11, ControlCarries DEF Control
  <2> QED
    BY <1>5, <2>1, <2>2
<1>12. CASE AppendIncrements \/ ResetLog
  <2>1. UNCHANGED <<leaving, cached, asked, live, screen, ckpt, meta, writer>> /\ pass' = Idle
    BY <1>12 DEF AppendIncrements, ResetLog, Done, session, ghosts
  <2>2. ~Shot'
    BY <2>1, NothingTaken DEF Shot
  <2> QED
    BY <1>5, <2>1, <2>2
<1>13. CASE Rename
  <2>1. /\ UNCHANGED <<leaving, cached, asked, live, screen, meta, writer>> /\ pass.pc = "tmp"
        /\ pass' = [pass EXCEPT !.pc = "reset"]
        /\ ckpt' = [content |-> pass.take.snapshot, gen |-> pass.gen]
    BY <1>13 DEF Rename, session, flags, ghosts
  <2>2. Asleep /\ Shot
    BY <1>1, <1>3, <2>1 DEF PassInv, Shot
  <2>3. asked <= Len(pass.take.snapshot)
    BY <2>2 DEF Asleep
  <2>4. pass.gen # 0
    <3>1. pass.gen = LogGeneration + 1 /\ LogGeneration \in Nat
      BY <1>1, <2>1, Parts DEF PassInv
    <3> QED
      BY <3>1
  <2>5. pass'.take = pass.take
    BY <1>1, <2>1 DEF ShapeInv, PassShape, Passes
  <2>6. Saved'
    BY <2>1, <2>3, <2>4 DEF Saved
  <2> QED
    BY <2>1, <2>2, <2>3, <2>5, <2>6 DEF Asleep
<1>14. ASSUME NEW how \in {"quit", "sleep"}, Leave(how)
       PROVE  Asleep'
  BY <1>14 DEF Leave
<1>15. CASE SleepEnds
  <2>1. /\ leaving = "sleep" /\ pass.pc = "idle" /\ UNCHANGED <<pass, asked, ckpt, meta, log>>
        /\ cached' = IF meta = "open" /\ HasSaved THEN "sleep" ELSE cached
        /\ writer' = IF meta = "open" /\ HasSaved THEN "none" ELSE writer
        /\ linked => ~live'
    BY <1>15 DEF SleepEnds, disk, ghosts
  <2>2. GoingToSleep
    BY <1>3, <2>1
  <2>3. active /\ Saved /\ HasSaved
    BY <2>1, <2>2, SavedIsSaved DEF GoingToSleep
  <2>4. ~live'
    BY <1>2, <2>1, <2>3 DEF NoFaultInv
  <2>5. meta = "open"
    BY <1>3, <2>1, <2>3
  <2>6. writer' = "none"
    BY <2>1, <2>3, <2>5
  <2> QED
    BY <2>1, <2>3, <2>4, <2>5, <2>6 DEF Asleep, Saved, Shot
<1>16. CASE Attach
  <2>1. /\ cached = "sleep" /\ leaving = "no" /\ asked' = asked /\ meta' = "open" /\ live
        /\ UNCHANGED <<live, screen, ckpt, pass>>
    BY <1>16 DEF Attach, MaySpawn, Reopen, session
  <2>2. Asleep
    BY <1>3, <2>1
  <2> QED
    BY <2>1, <2>2 DEF Asleep, Saved, Shot, Full
<1>17. CASE ColdRestore
  <2>1. /\ cached = "sleep" /\ leaving = "no" /\ asked' = asked /\ meta' = "open" /\ live' = TRUE
        /\ UNCHANGED <<ckpt, pass>> /\ screen' = Restored /\ pass.pc = "idle"
    BY <1>17 DEF ColdRestore, MaySpawn, NewSession, Reopen
  <2>2. Asleep
    BY <1>3, <2>1
  <2>3. Len(ckpt.content) <= Len(Restored) /\ Len(Restored) \in Nat
    <3>1. Piece(ckpt.content, Restored, 0)
      BY <1>1, RestoreBegins
    <3> QED
      BY <1>1, <1>4, <3>1, RestoredTokens, LenProperties DEF Piece, Tokens
  <2>4. asked' <= Len(screen')
    BY <1>4, <2>1, <2>2, <2>3 DEF Asleep, Saved
  <2> QED
    BY <2>1, <2>2, <2>4 DEF Asleep, Saved, Shot
<1>18. CASE Fresh
  BY <1>18 DEF Fresh
<1>19. CASE StaleRestore
  <2>1. cached = "sleep" /\ leaving = "no" /\ asked' = asked /\ ~(meta = "open" /\ HasSaved)
    BY <1>19 DEF StaleRestore, MaySpawn, Reopen
  <2> QED
    BY <1>3, <2>1, SavedIsSaved DEF Asleep
<1>20. CASE UNCHANGED historyVars
  BY <1>5, <1>20 DEF historyVars, session, flags, disk, ghosts, Shot, Full
<1> QED
  BY <1>2, <1>6, <1>7, <1>8, <1>9, <1>10, <1>11, <1>12, <1>13, <1>14, <1>15, <1>16, <1>17, <1>18,
     <1>19, <1>20 DEF HistoryNext, PassSteps, Faults

\* A managed session whose restore is kept has an open history.
LEMMA SleeperIsOpen ==
  ASSUME NoFaultInv, SleepInv, faults = 0, ~Faults, [HistoryNext]_historyVars,
         active', cached' = "sleep"
  PROVE  meta' = "open"
<1>1. /\ active /\ cached = "sleep" => meta = "open"
      /\ active => linked
  BY DEF SleepInv, NoFaultInv
<1>2. CASE Output \/ Take
  BY <1>1, <1>2 DEF Output, Take, flags, disk
<1>3. CASE Touched \/ CooldownEnds \/ Ack \/ AppStarts
  BY <1>1, <1>3 DEF Touched, CooldownEnds, Ack, AppStarts, flags, disk
<1>4. CASE ExitEvent \/ ShellExits
  BY <1>1, <1>4 DEF ExitEvent, ShellExits, flags, disk
<1>5. CASE TimerFires \/ Receive
  BY <1>1, <1>5 DEF TimerFires, Receive, disk
<1>6. CASE AppendIncrements \/ Rename \/ ResetLog
  BY <1>1, <1>6 DEF AppendIncrements, Rename, ResetLog, flags
<1>7. ASSUME NEW how \in {"quit", "sleep"}, Leave(how)
      PROVE  meta' = "open"
  BY <1>1, <1>7 DEF Leave, flags, disk
<1>8. CASE QuitEnds
  BY <1>8 DEF QuitEnds, AppGone
<1>9. CASE SleepEnds
  <2>1. CASE linked
    BY <1>9, <2>1 DEF SleepEnds
  <2>2. CASE ~linked
    BY <1>1, <1>9, <2>2 DEF SleepEnds
  <2> QED
    BY <2>1, <2>2
<1>10. CASE Attach
  BY <1>10 DEF Attach, Reopen
<1>11. CASE ColdRestore
  BY <1>11 DEF ColdRestore, Reopen
<1>12. CASE Fresh \/ StaleRestore \/ RacedRestore
  BY <1>12 DEF Fresh, StaleRestore, RacedRestore, OpenSession, Reopen
<1>13. CASE UNCHANGED historyVars
  BY <1>1, <1>13 DEF historyVars, flags, disk
<1> QED
  BY <1>2, <1>3, <1>4, <1>5, <1>6, <1>7, <1>8, <1>9, <1>10, <1>11, <1>12, <1>13
     DEF HistoryNext, PassSteps, Faults

\* What was asleep stays kept.
LEMMA SleepStep ==
  ASSUME BaseInv, NoFaultInv, SleepInv, [HistoryNext]_historyVars
  PROVE  SleepInv'
<1>1. StageShape
  BY DEF BaseInv
<1> SUFFICES ASSUME faults' = 0, faults = 0, ~Faults
             PROVE  /\ active' /\ cached' = "sleep" => meta' = "open"
                    /\ leaving' = "sleep" /\ asked' # 0 => GoingToSleep'
                    /\ leaving' = "no" /\ cached' = "sleep" /\ asked' # 0 => Asleep'
  BY <1>1, FaultsGrow, FaultsCount DEF SleepInv
<1> QED
  BY SleeperIsOpen, GoingStep, AsleepStep

-----------------------------------------------------------------------------
(***************************************************************************)
(* What a restore brings back.                                             *)
(***************************************************************************)

\* The inductive invariant of the saved history.
HistoryInv == BaseInv /\ LogInv /\ HoleInv /\ NoFaultInv /\ SleepInv

\* It holds at the start.
LEMMA HistoryStart == HistoryInit => HistoryInv
<1> SUFFICES ASSUME HistoryInit PROVE HistoryInv
  OBVIOUS
<1>1. LogInv /\ HoleInv
  BY DEF HistoryInit, LogInv, HoleInv, Open
<1>2. NoFaultInv
  BY DEF HistoryInit, NoFaultInv, NoLog
<1>3. SleepInv
  BY DEF HistoryInit, SleepInv
<1> QED
  BY <1>1, <1>2, <1>3, BaseStart DEF HistoryInv

\* It is an invariant.
THEOREM HistoryInvariant == HistorySpec => []HistoryInv
<1>1. HistoryInv /\ [HistoryNext]_historyVars => HistoryInv'
  <2> SUFFICES ASSUME BaseInv, LogInv, HoleInv, NoFaultInv, SleepInv, [HistoryNext]_historyVars
               PROVE  HistoryInv'
    BY DEF HistoryInv
  <2>1. ShapeInv /\ StageShape
    BY DEF BaseInv
  <2>2. BaseInv' /\ LogInv' /\ HoleInv' /\ NoFaultInv' /\ SleepInv'
    BY <2>1, BaseStep, LogStep, HoleStep, NoFaultStep, SleepStep
  <2> QED
    BY <2>2 DEF HistoryInv
<1> QED
  BY <1>1, HistoryStart, PTL DEF HistorySpec

\* t is a beginning of s up to i, and a piece of s behind that.
Cut(t, i, s) ==
  /\ i \in 0 .. Len(t)
  /\ IsPrefix(SubSeq(t, 1, i), s)
  /\ \E k \in i .. Len(s) - (Len(t) - i) :
       SubSeq(t, i + 1, Len(t)) = SubSeq(s, k + 1, k + Len(t) - i)

\* Two sequences, the first a beginning of s and the second behind it, as a restore has them.
LEMMA CutsOfSeed ==
  ASSUME NEW S, NEW q \in Seq(S), NEW r \in Seq(S), NEW s \in Seq(S), NEW j,
         Piece(q, s, 0), Piece(r, s, j), Len(q) <= j,
         NEW t, t = q \o r, NEW i, i = Len(q)
  PROVE  Cut(t, i, s)
<1> PICK n : n = Len(t)
  OBVIOUS
<1>1. /\ Len(q) \in Nat /\ Len(r) \in Nat /\ Len(s) \in Nat /\ j \in Nat /\ j + Len(r) <= Len(s)
      /\ t \in Seq(S) /\ n = Len(q) + Len(r)
  BY LenProperties, ConcatProperties DEF Piece
<1>2. SubSeq(t, 1, i) = q
  <2>1. Piece(q, t, 0)
    BY PieceOfSeed
  <2>3. q = SubSeq(t, 0 + 1, 0 + Len(q))
    BY <1>1, <2>1, PieceIsSubSeq
  <2>4. 0 + 1 = 1 /\ 0 + Len(q) = i
    BY <1>1
  <2> QED
    BY <2>3, <2>4
<1>3. SubSeq(t, i + 1, n) = r
  <2>1. Piece(r, t, Len(q))
    BY RestOfSeed
  <2>3. r = SubSeq(t, Len(q) + 1, Len(q) + Len(r))
    BY <1>1, <2>1, PieceIsSubSeq
  <2> QED
    BY <1>1, <2>3
<1>4. r = SubSeq(s, j + 1, j + Len(r))
  BY PieceIsSubSeq
<1>5. j + n - i = j + Len(r) /\ j \in i .. Len(s) - (n - i) /\ i \in 0 .. n
  BY <1>1
<1>6. IsPrefix(q, s)
  BY PieceIsPrefix
<1> QED
  BY <1>2, <1>3, <1>4, <1>5, <1>6 DEF Cut

\* A restore (detectColdRestore) is the beginning of what some session of this terminal showed, with
\* a gap behind the checkpoint only if something failed: whatever is lost, reordered or cut short,
\* nothing comes twice or out of order.
THEOREM RestoresAreReal == HistorySpec => []RestoredIsReal
<1>1. HistoryInv => RestoredIsReal
  <2> SUFFICES ASSUME HistoryInv, Open PROVE RestoredIsReal
    BY DEF RestoredIsReal, Open
  <2>1. BaseInv /\ LogInv /\ ShapeInv /\ CkptInv
    BY DEF HistoryInv, BaseInv
  <2>2. /\ ckpt.content \in Seq(Token) /\ log.records \in Seq(Token) /\ screen \in Seq(Token)
        /\ Restored \in Seq(Token) /\ past \subseteq Seq(Token)
        /\ Len(ckpt.content) \in Nat /\ Len(Restored) \in Nat
    BY <2>1, Parts, Lengths, RestoredTokens, LenProperties DEF ShapeInv, SessionShape, Tokens
  <2>3. Piece(ckpt.content, screen, 0)
    BY <2>1 DEF CkptInv
  <2> DEFINE n == Len(Restored)
             Continues(s, i) ==
               /\ IsPrefix(SubSeq(Restored, 1, i), s)
               /\ \E j \in i .. Len(s) - (n - i) :
                    SubSeq(Restored, i + 1, n) = SubSeq(s, j + 1, j + n - i)
             MayMiss(i) == i = n \/ (faults # 0 /\ i = Len(ckpt.content))
  <2>4. ASSUME NEW s \in past \cup {screen}, Piece(Restored, s, 0)
        PROVE  Continues(s, n) /\ n \in 0 .. n
    <3>1. s \in Seq(Token) /\ Len(s) \in Nat /\ n <= Len(s) /\ n \in Nat
      BY <2>2, <2>4, LenProperties DEF Piece
    <3>2. <<>> \in Seq(Token) /\ Restored \o <<>> = Restored /\ Piece(<<>>, s, n)
      <4>1. n \in 0 .. Len(s)
        BY <3>1
      <4>2. <<>> \in Seq(Token)
        BY EmptySeq
      <4> QED
        BY <2>2, <3>1, <4>1, <4>2, PieceOfItself, ConcatEmptySeq
    <3>3. n = Len(Restored) /\ Len(Restored) <= n
      BY <2>2
    <3> HIDE DEF n
    <3>4. Cut(Restored, n, s)
      BY <2>2, <2>4, <3>1, <3>2, <3>3, CutsOfSeed
    <3> USE DEF n
    <3> QED
      BY <3>4 DEF Cut
  <2>5. \E s \in past \cup {screen} : \E i \in 0 .. n : Continues(s, i) /\ MayMiss(i)
    <3>1. CASE ~LogApplies
      <4>1. Restored = ckpt.content
        BY <3>1 DEF Restored
      <4>2. Piece(Restored, screen, 0)
        BY <2>3, <4>1
      <4>3. screen \in past \cup {screen}
        OBVIOUS
      <4> HIDE DEF Continues, n
      <4>4. Continues(screen, n) /\ n \in 0 .. n /\ MayMiss(n)
        BY <2>4, <4>2, <4>3
      <4> QED
        BY <4>3, <4>4
    <3>2. CASE LogApplies
      <4>1. PICK s \in past \cup {screen} : Shows(s)
        <5>1. CASE Ours
          BY <2>3, <5>1 DEF Ours, Shows
        <5>2. CASE Theirs
          BY <5>2 DEF Theirs
        <5> QED
          BY <2>1, <3>2, <5>1, <5>2 DEF LogInv
      <4>2. PICK j \in 0 .. Len(s) : Behind(s, j)
        BY <4>1 DEF Shows
      <4>3. /\ Restored = ckpt.content \o log.records /\ s \in Seq(Token)
            /\ Piece(ckpt.content, s, 0) /\ Piece(log.records, s, j) /\ Len(ckpt.content) <= j
        BY <2>2, <3>2, <4>1, <4>2 DEF Restored, Shows, Behind
      <4>4. CASE faults = 0
        <5>1. 0 + Len(ckpt.content) = j
          BY <2>2, <4>2, <4>4 DEF Behind
        <5>2. Piece(Restored, s, 0)
          BY <2>2, <4>3, <5>1, PiecesJoin
        <5> HIDE DEF Continues, n
        <5>3. Continues(s, n) /\ n \in 0 .. n /\ MayMiss(n)
          BY <2>4, <5>2
        <5> QED
          BY <5>3
      <4>5. CASE faults # 0
        <5>1. PICK i : i = Len(ckpt.content)
          OBVIOUS
        <5>2. i \in 0 .. n /\ Continues(s, i)
          <6>1. Cut(Restored, i, s)
            BY <2>2, <4>3, <5>1, CutsOfSeed
          <6> QED
            BY <6>1 DEF Cut
        <5> HIDE DEF Continues, n
        <5>3. MayMiss(i)
          BY <4>5, <5>1
        <5> QED
          BY <5>2, <5>3
      <4> QED
        BY <4>4, <4>5
    <3> QED
      BY <3>1, <3>2
  <2> QED
    BY <2>5 DEF RestoredIsReal
<1> QED
  BY <1>1, HistoryInvariant, PTL

\* Without a fault the log never has a hole, whether the sequence of its batches would show it or
\* not: what overflows or does not fit is replaced by a full checkpoint (escalateToFullCheckpoint)
\* before anything is appended.
THEOREM LogsHaveNoHole == HistorySpec => []LogHasNoHole
<1>1. HistoryInv => LogHasNoHole
  <2> SUFFICES ASSUME HistoryInv, Open, faults = 0, log.gen = ckpt.gen
               PROVE  \E s \in past \cup {screen} : IsPrefix(ckpt.content \o log.records, s)
    BY DEF LogHasNoHole, Open
  <2>1. ShapeInv /\ HoleInv
    BY DEF HistoryInv, BaseInv
  <2>2. Whole
    BY <2>1 DEF HoleInv, LogGeneration
  <2>3. PICK s \in past \cup {screen} :
          Piece(ckpt.content, s, 0) /\ Piece(log.records, s, Len(ckpt.content))
    BY <2>2 DEF Whole
  <2>4. /\ s \in Seq(Token) /\ ckpt.content \in Seq(Token) /\ log.records \in Seq(Token)
        /\ Len(ckpt.content) \in Nat /\ 0 + Len(ckpt.content) = Len(ckpt.content)
    BY <2>1, Parts, Lengths DEF ShapeInv, SessionShape, Tokens
  <2>5. Piece(ckpt.content \o log.records, s, 0) /\ ckpt.content \o log.records \in Seq(Token)
    BY <2>3, <2>4, PiecesJoin, ConcatProperties
  <2> QED
    BY <2>4, <2>5, PieceIsPrefix
<1> QED
  BY <1>1, HistoryInvariant, PTL

\* Without a fault a terminal that sleeps has all that the user saw when it was put to sleep: the
\* final pass (flushCheckpointNow) came before the kill, and what follows keeps it.
THEOREM SleepersKeepTheirScreen == HistorySpec => []SleepKeepsTheScreen
<1>1. HistoryInv => SleepKeepsTheScreen
  <2> SUFFICES ASSUME HistoryInv, cached = "sleep", leaving = "no", faults = 0
               PROVE  Len(Restored) >= asked
    BY DEF SleepKeepsTheScreen
  <2>1. ShapeInv /\ SleepInv /\ StageShape
    BY DEF HistoryInv, BaseInv
  <2>2. Piece(ckpt.content, Restored, 0) /\ Restored \in Seq(Token)
    BY <2>1, RestoreBegins, RestoredTokens DEF Tokens
  <2>3. /\ Len(ckpt.content) \in Nat /\ Len(Restored) \in Nat /\ Len(ckpt.content) <= Len(Restored)
        /\ asked \in Nat
    BY <2>1, <2>2, Lengths, LenProperties DEF Piece, StageShape
  <2>4. asked = 0 \/ asked <= Len(ckpt.content)
    BY <2>1 DEF SleepInv, Asleep, Saved
  <2> QED
    BY <2>3, <2>4
<1> QED
  BY <1>1, HistoryInvariant, PTL

=============================================================================
