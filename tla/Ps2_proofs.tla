------------------------------ MODULE Ps2_proofs ------------------------------
(***************************************************************************)
(* The 8042 loses nothing and answers every command exactly, for FIFOs of  *)
(* any size with the code's margin, any devices and any programs.          *)
(***************************************************************************)
EXTENDS Ps2, SequenceTheorems, TLAPS

-----------------------------------------------------------------------------
(* The inductive invariant *)

\* A device's byte is one of the menu's; a responder has one byte on its way.
Sources ==
    /\ keyb_port.state = "stop" => keyb_port.byte \in menu.keys
    /\ mouse_port.state = "stop" => mouse_port.byte \in menu.aux
    /\ Len(inj) <= 1 /\ Len(minj) <= 1
    /\ Len(keyb_reply) <= 1 /\ Len(mouse_reply) <= 1

\* A write is taken over within the I/O bus's gap, and its FIFO cleared at once.
Taken ==
    /\ inputbufferfull => io_gap > 0 /\ input_write_done
    /\ kclr => io_gap = 2 /\ inj = <<>>
    /\ mclr => io_gap = 2 /\ minj = <<>>

\* A FIFO, what is on its way to it and a frame that has begun stay below the
\* margin; only a command has three bytes to say, and it clears the FIFO.
Frame(port) == IF port.state \in {"bits", "stop"} THEN 1 ELSE 0
Room(q, clear, byte, rest, port) ==
    /\ Len(q) <= High + 3
    /\ Len(rest) + Len(byte) <= 3
    /\ ~clear /\ byte = <<>> => Len(rest) <= 2
    /\ ~clear => Len(q) + Len(byte) + Len(rest) + Frame(port) <= High + 3
Rooms == /\ Room(keyb_fifo, kclr, inj, kr, keyb_port)
         /\ Room(mouse_fifo, mclr, minj, mr, mouse_port)

\* A byte of a FIFO goes with what a responder said of it.
AnswerBytes == {250, 170, 171, 65, 0}
Others == {Other}
Marks == Byte \union Others
Marked(q, w) == \A i \in 1 .. Len(q) : w[i] = Other \/ w[i] = q[i]
Marking == Marked(keyb_fifo, keyb_said) /\ Marked(mouse_fifo, mouse_said)

\* n numbers the bytes of the answer in a FIFO: n[i] of them are read or among
\* its first i.  They are the answer's, in order, and what is on its way and
\* unsaid is the end of it.
Numbered(U, due, heard, q, byte, rest, n) ==
    /\ n \in [0 .. Len(q) -> 0 .. Len(due)]
    /\ n[0] = Len(heard)
    /\ \A i \in 1 .. Len(q) :
           IF q[i] \in U THEN n[i] = n[i - 1] ELSE n[i] = n[i - 1] + 1 /\ q[i] = due[n[i]]
    /\ n[Len(q)] + Len(byte) + Len(rest) = Len(due)
    /\ \A k \in 1 .. Len(heard) : heard[k] = due[k]
    /\ byte # <<>> => byte[1] = due[n[Len(q)] + 1]
    /\ \A k \in 1 .. Len(rest) : rest[k] = due[Len(due) - Len(rest) + k]
Stream(U, due, heard, q, byte, rest) == \E n : Numbered(U, due, heard, q, byte, rest, n)
Answer(U, due, heard, q, clear, byte, rest) ==
    /\ heard \in Seq(AnswerBytes)
    /\ due = <<>> => heard = <<>>
    /\ due # <<>> => IF clear THEN heard = <<>> /\ rest = due ELSE Stream(U, due, heard, q, byte, rest)

Answers == {<<>>, <<250>>, <<250, 170>>, <<250, 171, 65>>, <<250, 170, 0>>, <<250, 0>>}
Dues == response \in Answers /\ m_response \in Answers

\* The output buffer is full without a byte only just after a command.
Announced(due, clear, full, q, byte) ==
    due # <<>> /\ ~clear /\ full /\ q = <<>> => io_gap = 1 /\ byte # <<>>
MouseAnswer ==
    /\ Answer(Others, m_response, m_answer, mouse_said, mclr, minj, mr)
    /\ Announced(m_response, mclr, mousebufferfull, mouse_fifo, minj)

\* A program at work on the keyboard alone.
Silent ==
    /\ mouse_fifo = <<>> /\ mouse_reply = <<>> /\ minj = <<>> /\ mr = <<>> /\ ~mousebufferfull
    /\ mouse_port.state \notin {"bits", "stop"}
    /\ last_command \notin {WriteMouse, WriteMouseOutput}
KeybAnswer ==
    MouseSilent =>
        /\ Silent
        /\ Answer(Others, response, answer, keyb_said, kclr, inj, kr)
        /\ Announced(response, kclr, outputbufferfull, keyb_fifo, inj)

IInv == /\ TypeOK /\ Sources /\ Taken /\ NoRelay /\ IrqHasByte /\ Rooms
        /\ Dues /\ Marking /\ MouseAnswer /\ KeybAnswer

-----------------------------------------------------------------------------
(* What a FIFO does *)

Popped(q, rd) == IF rd /\ q # <<>> THEN Tail(q) ELSE q
Pushed(q, bytes) == IF bytes # <<>> THEN Append(q, Head(bytes)) ELSE q

LEMMA PoppedType ==
    ASSUME NEW S, NEW q \in Seq(S), NEW rd \in BOOLEAN
    PROVE  /\ Popped(q, rd) \in Seq(S)
           /\ Len(Popped(q, rd)) = IF rd /\ q # <<>> THEN Len(q) - 1 ELSE Len(q)
           /\ q # <<>> => Head(q) \in S
  BY DEF Popped

LEMMA PushedType ==
    ASSUME NEW S, NEW q \in Seq(S), NEW bytes \in Seq(S)
    PROVE  /\ Pushed(q, bytes) \in Seq(S)
           /\ Len(Pushed(q, bytes)) = IF bytes # <<>> THEN Len(q) + 1 ELSE Len(q)
<1>1. bytes # <<>> => Head(bytes) \in S
  OBVIOUS
<1> QED
  BY <1>1 DEF Pushed

\* A FIFO that is not full takes the byte it is given.
LEMMA FifoIs ==
    ASSUME NEW S, NEW q \in Seq(S), NEW clear \in BOOLEAN, NEW rd \in BOOLEAN, NEW bytes \in Seq(S), Len(q) < Depth
    PROVE  Fifo(q, clear, rd, bytes) = IF clear THEN <<>> ELSE Pushed(Popped(q, rd), bytes)
  BY DEF Fifo, HasRoom, Popped, Pushed

LEMMA FifoType ==
    ASSUME NEW S, NEW q \in Seq(S), NEW clear \in BOOLEAN, NEW rd \in BOOLEAN, NEW bytes \in Seq(S), Len(q) < Depth
    PROVE  /\ Fifo(q, clear, rd, bytes) \in Seq(S)
           /\ Len(Fifo(q, clear, rd, bytes)) =
                 IF clear THEN 0 ELSE Len(q) - (IF rd /\ q # <<>> THEN 1 ELSE 0) + (IF bytes # <<>> THEN 1 ELSE 0)
<1> DEFINE p == Popped(q, rd)
<1>1. p \in Seq(S) /\ Len(p) = IF rd /\ q # <<>> THEN Len(q) - 1 ELSE Len(q)
  BY PoppedType
<1> HIDE DEF p
<1>2. Pushed(p, bytes) \in Seq(S) /\ Len(Pushed(p, bytes)) = IF bytes # <<>> THEN Len(p) + 1 ELSE Len(p)
  BY <1>1, PushedType
<1>3. Fifo(q, clear, rd, bytes) = IF clear THEN <<>> ELSE Pushed(p, bytes)
  BY FifoIs DEF p
<1>4. Len(q) \in Nat
  OBVIOUS
<1>5. CASE clear
  BY <1>3, <1>5
<1>6. CASE ~clear /\ bytes # <<>>
  BY <1>1, <1>2, <1>3, <1>4, <1>6
<1>7. CASE ~clear /\ bytes = <<>>
  BY <1>1, <1>2, <1>3, <1>4, <1>7
<1> QED
  BY <1>5, <1>6, <1>7

-----------------------------------------------------------------------------
(* The stream of an answer *)

LEMMA StreamStarts ==
    ASSUME NEW U, NEW due \in Seq(AnswerBytes)
    PROVE  Stream(U, due, <<>>, <<>>, <<>>, due)
<1>1. Numbered(U, due, <<>>, <<>>, <<>>, due, [i \in 0 .. 0 |-> 0])
  BY DEF Numbered
<1> QED
  BY <1>1 DEF Stream

\* The program reads the oldest byte.
LEMMA StreamPops ==
    ASSUME NEW U, NEW S, NEW due \in Seq(AnswerBytes), NEW heard \in Seq(AnswerBytes), NEW q \in Seq(S), NEW byte \in Seq(S), NEW rest \in Seq(S),
           Len(due) <= 3, due # <<>>, q # <<>>, Stream(U, due, heard, q, byte, rest), AnswerBytes \cap U = {}
    PROVE  /\ Stream(U, due, IF Head(q) \in U THEN heard ELSE Append(heard, Head(q)), Tail(q), byte, rest)
           /\ Len(heard) <= 3
           /\ Head(q) \notin U => Head(q) \in AnswerBytes
<1>1. PICK n : Numbered(U, due, heard, q, byte, rest, n)
  BY DEF Stream
<1> DEFINE m == [i \in 0 .. Len(q) - 1 |-> n[i + 1]]
           t == Tail(q)
           h == IF Head(q) \in U THEN heard ELSE Append(heard, Head(q))
<1>2. /\ Len(q) \in Nat \ {0} /\ Len(heard) \in Nat /\ Len(due) \in Nat /\ Len(byte) \in Nat /\ Len(rest) \in Nat
      /\ t \in Seq(S) /\ Len(t) = Len(q) - 1 /\ Head(q) = q[1] /\ \A i \in 1 .. Len(q) - 1 : t[i] = q[i + 1]
  OBVIOUS
<1>3. \A i \in 0 .. Len(q) : n[i] \in 0 .. Len(due)
  BY <1>1 DEF Numbered
<1>4. m \in [0 .. Len(t) -> 0 .. Len(due)] /\ \A i \in 0 .. Len(q) - 1 : m[i] = n[i + 1]
  BY <1>2, <1>3
<1>5. IF q[1] \in U THEN n[1] = Len(heard) ELSE n[1] = Len(heard) + 1 /\ q[1] = due[n[1]]
  BY <1>1, <1>2 DEF Numbered
<1>6. n[1] \in 0 .. Len(due) /\ n[0] \in 0 .. Len(due) /\ n[0] = Len(heard)
  BY <1>1, <1>2, <1>3 DEF Numbered
<1>7. q[1] \notin U => q[1] \in AnswerBytes
  BY <1>2, <1>5, <1>6
<1>8. /\ h \in Seq(AnswerBytes)
      /\ Len(h) = n[1]
      /\ \A k \in 1 .. Len(h) : h[k] = due[k]
  <2>1. \A k \in 1 .. Len(heard) : heard[k] = due[k]
    BY <1>1 DEF Numbered
  <2>2. CASE q[1] \in U
    BY <1>2, <1>5, <2>1, <2>2
  <2>3. CASE q[1] \notin U
    <3>1. h = Append(heard, q[1]) /\ Len(h) = Len(heard) + 1 /\ h \in Seq(AnswerBytes)
      BY <1>2, <1>7, <2>3
    <3>2. \A k \in 1 .. Len(h) : h[k] = IF k = Len(heard) + 1 THEN q[1] ELSE heard[k]
      BY <1>2, <1>7, <2>3
    <3> QED
      BY <1>2, <1>5, <2>1, <2>3, <3>1, <3>2
  <2> QED
    BY <2>2, <2>3
<1> HIDE DEF m, t, h
<1>9. \A i \in 1 .. Len(t) : IF t[i] \in U THEN m[i] = m[i - 1] ELSE m[i] = m[i - 1] + 1 /\ t[i] = due[m[i]]
  <2> TAKE i \in 1 .. Len(t)
  <2>1. i + 1 \in 1 .. Len(q) /\ t[i] = q[i + 1] /\ m[i] = n[i + 1] /\ m[i - 1] = n[i]
    BY <1>2, <1>4
  <2>2. IF q[i + 1] \in U THEN n[i + 1] = n[(i + 1) - 1] ELSE n[i + 1] = n[(i + 1) - 1] + 1 /\ q[i + 1] = due[n[i + 1]]
    BY <1>1, <2>1 DEF Numbered
  <2>3. (i + 1) - 1 = i
    BY <1>2
  <2> QED
    BY <2>1, <2>2, <2>3
<1>10. m[0] = n[1] /\ m[Len(t)] = n[Len(q)]
  BY <1>2, <1>4
<1>11. Numbered(U, due, h, t, byte, rest, m)
  BY <1>1, <1>4, <1>8, <1>9, <1>10 DEF Numbered
<1>12. Stream(U, due, h, t, byte, rest)
  BY <1>11 DEF Stream
<1> QED
  BY <1>2, <1>6, <1>7, <1>12 DEF t, h

LEMMA Extended ==
    ASSUME NEW L \in Nat, NEW D \in Nat, NEW n, \A i \in 0 .. L : n[i] \in 0 .. D, NEW v \in 0 .. D
    PROVE  LET m == [i \in 0 .. L + 1 |-> IF i = L + 1 THEN v ELSE n[i]]
           IN  /\ m \in [0 .. L + 1 -> 0 .. D]
               /\ m[0] = n[0] /\ m[L + 1] = v
               /\ \A i \in 1 .. L : m[i] = n[i] /\ m[i - 1] = n[i - 1]
               /\ m[(L + 1) - 1] = n[L]
  OBVIOUS

\* A byte is stored that answers nothing.
LEMMA StreamKeeps ==
    ASSUME NEW U, NEW S, NEW due \in Seq(AnswerBytes), NEW heard \in Seq(AnswerBytes), NEW q \in Seq(S), NEW byte \in Seq(S), NEW rest \in Seq(S),
           NEW b \in S, b \in U, Stream(U, due, heard, q, byte, rest)
    PROVE  Stream(U, due, heard, Append(q, b), byte, rest)
<1>1. PICK n : Numbered(U, due, heard, q, byte, rest, n)
  BY DEF Stream
<1> DEFINE t == Append(q, b)
           m == [i \in 0 .. Len(q) + 1 |-> IF i = Len(q) + 1 THEN n[Len(q)] ELSE n[i]]
<1>2. Len(q) \in Nat /\ Len(due) \in Nat /\ Len(t) = Len(q) + 1 /\ t[Len(q) + 1] = b /\ \A i \in 1 .. Len(q) : t[i] = q[i]
  OBVIOUS
<1>3. \A i \in 0 .. Len(q) : n[i] \in 0 .. Len(due)
  BY <1>1 DEF Numbered
<1>4. /\ m \in [0 .. Len(t) -> 0 .. Len(due)] /\ m[0] = n[0] /\ m[Len(t)] = n[Len(q)]
      /\ \A i \in 1 .. Len(q) : m[i] = n[i] /\ m[i - 1] = n[i - 1]
      /\ m[(Len(q) + 1) - 1] = n[Len(q)]
  <2>1. n[Len(q)] \in 0 .. Len(due)
    BY <1>2, <1>3
  <2> QED
    BY <1>2, <1>3, <2>1, Extended, SMTT(30)
<1> HIDE DEF m, t
<1>5. ASSUME NEW i \in 1 .. Len(t)
      PROVE  IF t[i] \in U THEN m[i] = m[i - 1] ELSE m[i] = m[i - 1] + 1 /\ t[i] = due[m[i]]
  <2>1. CASE i = Len(q) + 1
    BY <1>2, <1>4, <2>1
  <2>2. CASE i \in 1 .. Len(q)
    <3>1. IF q[i] \in U THEN n[i] = n[i - 1] ELSE n[i] = n[i - 1] + 1 /\ q[i] = due[n[i]]
      BY <1>1, <2>2 DEF Numbered
    <3>2. t[i] = q[i] /\ m[i] = n[i] /\ m[i - 1] = n[i - 1]
      BY <1>2, <1>4, <2>2
    <3> QED
      BY <3>1, <3>2
  <2> QED
    BY <1>2, <2>1, <2>2
<1>7. Numbered(U, due, heard, t, byte, rest, m)
  BY <1>1, <1>4, <1>5 DEF Numbered
<1> QED
  BY <1>7 DEF Stream, t

LEMMA HeadOfOne ==
    ASSUME NEW S, NEW one \in Seq(S), Len(one) = 1
    PROVE  one # <<>> /\ Head(one) = one[1] /\ Head(one) \in S
<1>1. one # <<>>
  OBVIOUS
<1>2. Head(one) = one[1]
  BY <1>1
<1>3. one[1] \in S
  <2>1. 1 \in 1 .. Len(one)
    OBVIOUS
  <2> QED
    BY <2>1
<1> QED
  BY <1>1, <1>2, <1>3

\* The byte on its way is stored.
LEMMA StreamStores ==
    ASSUME NEW U, NEW S, NEW due \in Seq(AnswerBytes), NEW heard \in Seq(AnswerBytes), NEW q \in Seq(S), NEW byte \in Seq(S), NEW rest \in Seq(S),
           Len(byte) = 1, Stream(U, due, heard, q, byte, rest), AnswerBytes \cap U = {}
    PROVE  Stream(U, due, heard, Append(q, Head(byte)), <<>>, rest)
<1>1. PICK n : Numbered(U, due, heard, q, byte, rest, n)
  BY DEF Stream
<1> DEFINE b == Head(byte)
           t == Append(q, b)
           m == [i \in 0 .. Len(q) + 1 |-> IF i = Len(q) + 1 THEN n[Len(q)] + 1 ELSE n[i]]
<1>2. Len(q) \in Nat /\ Len(due) \in Nat /\ Len(rest) \in Nat
  OBVIOUS
<1>12. byte # <<>> /\ b = byte[1] /\ b \in S
  BY HeadOfOne
<1>3. \A i \in 0 .. Len(q) : n[i] \in 0 .. Len(due)
  BY <1>1 DEF Numbered
<1>13. n[Len(q)] \in 0 .. Len(due) /\ n[Len(q)] + Len(byte) + Len(rest) = Len(due) /\ b = due[n[Len(q)] + 1]
  BY <1>1, <1>2, <1>3, <1>12 DEF Numbered
<1>4. n[Len(q)] + 1 + Len(rest) = Len(due) /\ n[Len(q)] + 1 \in 1 .. Len(due) /\ b = due[n[Len(q)] + 1]
  <2>1. PICK x \in 0 .. Len(due) : x = n[Len(q)]
    BY <1>13
  <2>2. x + 1 + Len(rest) = Len(due)
    BY <1>13, <2>1
  <2>3. x + 1 \in 1 .. Len(due)
    BY <1>2, <2>1, <2>2
  <2> QED
    BY <1>13, <2>1, <2>2, <2>3
<1>5. b \notin U
  BY <1>4
<1> HIDE DEF b
<1>6. Len(t) = Len(q) + 1 /\ t[Len(q) + 1] = b /\ \A i \in 1 .. Len(q) : t[i] = q[i]
  BY <1>12
<1>7. /\ m \in [0 .. Len(t) -> 0 .. Len(due)] /\ m[0] = n[0] /\ m[Len(t)] = n[Len(q)] + 1
      /\ \A i \in 1 .. Len(q) : m[i] = n[i] /\ m[i - 1] = n[i - 1]
      /\ m[(Len(q) + 1) - 1] = n[Len(q)]
  <2>1. n[Len(q)] + 1 \in 0 .. Len(due)
    BY <1>2, <1>4
  <2> QED
    BY <1>2, <1>3, <1>6, <2>1, Extended
<1> HIDE DEF m, t
<1>8. ASSUME NEW i \in 1 .. Len(t)
      PROVE  IF t[i] \in U THEN m[i] = m[i - 1] ELSE m[i] = m[i - 1] + 1 /\ t[i] = due[m[i]]
  <2>1. CASE i = Len(q) + 1
    BY <1>2, <1>4, <1>5, <1>6, <1>7, <2>1
  <2>2. CASE i \in 1 .. Len(q)
    <3>1. IF q[i] \in U THEN n[i] = n[i - 1] ELSE n[i] = n[i - 1] + 1 /\ q[i] = due[n[i]]
      BY <1>1, <2>2 DEF Numbered
    <3>2. t[i] = q[i] /\ m[i] = n[i] /\ m[i - 1] = n[i - 1]
      BY <1>6, <1>7, <2>2
    <3> QED
      BY <3>1, <3>2
  <2> QED
    BY <1>2, <1>6, <2>1, <2>2
<1>10. m[Len(t)] + Len(<<>>) + Len(rest) = Len(due)
  <2>1. PICK x \in Int : x = m[Len(t)]
    BY <1>7, <1>13
  <2>2. x + Len(rest) = Len(due)
    BY <1>4, <1>7, <2>1
  <2>3. Len(<<>>) = 0
    OBVIOUS
  <2>4. x + Len(<<>>) = x
    BY <2>3
  <2> QED
    BY <2>1, <2>2, <2>4
<1>11. Numbered(U, due, heard, t, <<>>, rest, m)
  BY <1>1, <1>7, <1>8, <1>10 DEF Numbered
<1> QED
  BY <1>11 DEF Stream, t, b

\* The next byte is said.
LEMMA StreamSays ==
    ASSUME NEW U, NEW S, NEW due \in Seq(AnswerBytes), NEW heard \in Seq(AnswerBytes), NEW q \in Seq(S), NEW rest \in Seq(S),
           rest # <<>>, Stream(U, due, heard, q, <<>>, rest)
    PROVE  Stream(U, due, heard, q, <<Head(rest)>>, Tail(rest))
<1>1. PICK n : Numbered(U, due, heard, q, <<>>, rest, n)
  BY DEF Stream
<1> DEFINE r == Tail(rest)
           b == Head(rest)
<1>2. /\ Len(rest) \in Nat \ {0} /\ Len(r) = Len(rest) - 1 /\ b = rest[1]
      /\ \A k \in 1 .. Len(rest) - 1 : r[k] = rest[k + 1]
  OBVIOUS
<1>3. Len(q) \in Nat /\ Len(due) \in Nat /\ n[Len(q)] \in 0 .. Len(due)
  BY <1>1 DEF Numbered
<1>4. n[Len(q)] + Len(rest) = Len(due)
  BY <1>1, <1>3, <1>2 DEF Numbered
<1>5. \A k \in 1 .. Len(rest) : rest[k] = due[Len(due) - Len(rest) + k]
  BY <1>1 DEF Numbered
<1> HIDE DEF r, b
<1>6. b = due[n[Len(q)] + 1]
  <2>1. b = due[Len(due) - Len(rest) + 1]
    BY <1>2, <1>5
  <2>2. Len(due) - Len(rest) + 1 = n[Len(q)] + 1
    BY <1>2, <1>3, <1>4
  <2> QED
    BY <2>1, <2>2
<1>7. ASSUME NEW k \in 1 .. Len(r)
      PROVE  r[k] = due[Len(due) - Len(r) + k]
  <2>1. k + 1 \in 1 .. Len(rest) /\ r[k] = rest[k + 1]
    BY <1>2
  <2>2. rest[k + 1] = due[Len(due) - Len(rest) + (k + 1)]
    BY <1>5, <2>1
  <2>3. Len(due) - Len(rest) + (k + 1) = Len(due) - Len(r) + k
    BY <1>2, <1>3
  <2> QED
    BY <2>1, <2>2, <2>3
<1>8. n[Len(q)] + Len(<<b>>) + Len(r) = Len(due)
  BY <1>2, <1>3, <1>4
<1>9. Numbered(U, due, heard, q, <<b>>, r, n)
  BY <1>1, <1>6, <1>7, <1>8 DEF Numbered
<1> QED
  BY <1>9 DEF Stream, r, b

\* What is read of an answer is its beginning.
LEMMA StreamPrefix ==
    ASSUME NEW U, NEW S, NEW due \in Seq(AnswerBytes), NEW heard \in Seq(AnswerBytes), NEW q \in Seq(S), NEW byte \in Seq(S), NEW rest \in Seq(S),
           Stream(U, due, heard, q, byte, rest)
    PROVE  IsPrefix(heard, due)
<1>1. PICK n : Numbered(U, due, heard, q, byte, rest, n)
  BY DEF Stream
<1>2. Len(q) \in Nat /\ Len(due) \in Nat
  OBVIOUS
<1>3. n \in [0 .. Len(q) -> 0 .. Len(due)] /\ n[0] = Len(heard)
  BY <1>1 DEF Numbered
<1>4. Len(heard) \in 0 .. Len(due)
  <2>1. 0 \in 0 .. Len(q)
    BY <1>2
  <2> QED
    BY <1>3, <2>1
<1>5. \A k \in 1 .. Len(heard) : heard[k] = due[k]
  BY <1>1 DEF Numbered
<1>6. SubSeq(heard, 1, Len(heard)) = SubSeq(due, 1, Len(heard))
  <2>1. /\ SubSeq(heard, 1, Len(heard)) \in Seq(AnswerBytes) /\ Len(SubSeq(heard, 1, Len(heard))) = Len(heard)
        /\ \A i \in 1 .. Len(heard) : SubSeq(heard, 1, Len(heard))[i] = heard[i]
    OBVIOUS
  <2>2. /\ SubSeq(due, 1, Len(heard)) \in Seq(AnswerBytes) /\ Len(SubSeq(due, 1, Len(heard))) = Len(heard)
        /\ \A i \in 1 .. Len(heard) : SubSeq(due, 1, Len(heard))[i] = due[i]
    BY <1>2, <1>4
  <2> QED
    BY <1>5, <2>1, <2>2, SeqEqual
<1> QED
  BY <1>2, <1>4, <1>6 DEF IsPrefix

LEMMA AnswerPrefix ==
    ASSUME NEW U, NEW S, NEW due \in Seq(AnswerBytes), NEW heard, NEW q \in Seq(S), NEW byte \in Seq(S), NEW rest \in Seq(S),
           NEW clear \in BOOLEAN, Answer(U, due, heard, q, clear, byte, rest)
    PROVE  IsPrefix(heard, due)
<1>1. heard \in Seq(AnswerBytes)
  BY DEF Answer
<1>2. CASE heard = <<>>
  BY <1>2, EmptySeq DEF IsPrefix
<1>3. CASE heard # <<>>
  <2>1. Stream(U, due, heard, q, byte, rest)
    BY <1>3 DEF Answer
  <2> QED
    BY <1>1, <2>1, StreamPrefix
<1> QED
  BY <1>2, <1>3

\* A clock without a command: the oldest byte may be read, the one on its way
\* or one that answers nothing is stored, and the next one said.
Hears(U, due, heard, q, rd) ==
    IF due # <<>> /\ rd /\ q # <<>> /\ Head(q) \notin U /\ Len(heard) # 4 THEN Append(heard, Head(q)) ELSE heard
Says(byte, rest, byte2, rest2) ==
    \/ rest # <<>> /\ byte = <<>> /\ byte2 = <<Head(rest)>> /\ rest2 = Tail(rest)
    \/ ~(rest # <<>> /\ byte = <<>>) /\ byte2 = <<>> /\ rest2 = rest
Stores(U, byte, bytes) == IF byte # <<>> THEN bytes = byte ELSE bytes = <<>> \/ Head(bytes) \in U

LEMMA AnswerStep ==
    ASSUME NEW U, NEW S, NEW due \in Seq(AnswerBytes), Len(due) <= 3, NEW heard, NEW q \in Seq(S), NEW byte \in Seq(S), NEW rest \in Seq(S),
           NEW clear \in BOOLEAN, Answer(U, due, heard, q, clear, byte, rest), AnswerBytes \cap U = {}, Len(byte) <= 1, clear => byte = <<>>,
           NEW rd \in BOOLEAN, clear => ~rd, NEW bytes \in Seq(S), Stores(U, byte, bytes), NEW byte2, NEW rest2, Says(byte, rest, byte2, rest2)
    PROVE  Answer(U, due, Hears(U, due, heard, q, rd), IF clear THEN <<>> ELSE Pushed(Popped(q, rd), bytes), FALSE, byte2, rest2)
<1>1. heard \in Seq(AnswerBytes)
  BY DEF Answer
<1>2. CASE due = <<>>
  BY <1>1, <1>2 DEF Answer, Hears
<1>3. CASE due # <<>> /\ clear
  <2>1. heard = <<>> /\ rest = due /\ byte = <<>> /\ ~rd
    BY <1>3 DEF Answer
  <2>2. byte2 = <<Head(due)>> /\ rest2 = Tail(due)
    BY <1>3, <2>1 DEF Says
  <2>3. Stream(U, due, <<>>, <<>>, <<>>, due)
    BY StreamStarts
  <2>4. Stream(U, due, <<>>, <<>>, byte2, rest2)
    <3>1. <<>> \in Seq(AnswerBytes)
      OBVIOUS
    <3> QED
      BY <1>3, <2>2, <2>3, <3>1, StreamSays
  <2> QED
    BY <1>1, <1>3, <2>1, <2>4 DEF Answer, Hears
<1>4. CASE due # <<>> /\ ~clear
  <2> DEFINE h == Hears(U, due, heard, q, rd)
             p == Popped(q, rd)
             t == Pushed(p, bytes)
  <2>1. Stream(U, due, heard, q, byte, rest)
    BY <1>4 DEF Answer
  <2>2. h \in Seq(AnswerBytes) /\ p \in Seq(S) /\ Stream(U, due, h, p, byte, rest)
    <3>1. CASE rd /\ q # <<>>
      <4>1. /\ Stream(U, due, IF Head(q) \in U THEN heard ELSE Append(heard, Head(q)), Tail(q), byte, rest)
            /\ Len(heard) <= 3
            /\ Head(q) \notin U => Head(q) \in AnswerBytes
        BY <1>1, <1>4, <2>1, <3>1, StreamPops
      <4>2. h = IF Head(q) \in U THEN heard ELSE Append(heard, Head(q))
        <5>1. Len(heard) \in Nat /\ Len(heard) # 4
          <6>1. Len(heard) \in Nat
            BY <1>1
          <6>2. \A x \in Nat : x <= 3 => x # 4
            OBVIOUS
          <6> QED
            BY <4>1, <6>1, <6>2, Zenon
        <5> QED
          BY <1>4, <3>1, <5>1, Zenon DEF Hears
      <4>3. h \in Seq(AnswerBytes)
        BY <1>1, <4>1, <4>2
      <4>4. p = Tail(q) /\ p \in Seq(S)
        BY <3>1 DEF Popped
      <4> QED
        BY <4>1, <4>2, <4>3, <4>4
    <3>2. CASE ~(rd /\ q # <<>>)
      BY <1>1, <2>1, <3>2 DEF Hears, Popped
    <3> QED
      BY <3>1, <3>2
  <2> HIDE DEF h, p
  <2>3. t \in Seq(S)
    BY <2>2, PushedType
  <2>4. CASE byte # <<>>
    <3>1. bytes = byte /\ byte2 = <<>> /\ rest2 = rest
      BY <2>4 DEF Stores, Says
    <3>2. Len(byte) = 1
      <4>1. Len(byte) \in Nat \ {0}
        BY <2>4, EmptySeq, Zenon
      <4>2. \A x \in Nat \ {0} : x <= 1 => x = 1
        OBVIOUS
      <4> QED
        BY <4>1, <4>2, Zenon
    <3>3. Stream(U, due, h, Append(p, Head(byte)), <<>>, rest)
      BY <2>2, <3>2, StreamStores
    <3>4. Stream(U, due, h, t, byte2, rest2)
      BY <2>4, <3>1, <3>3 DEF Pushed
    <3> QED
      BY <1>4, <2>2, <3>4 DEF Answer, h, p
  <2>5. CASE byte = <<>>
    <3>1. Stream(U, due, h, t, <<>>, rest)
      <4>1. CASE bytes = <<>>
        BY <2>2, <2>5, <4>1 DEF Pushed
      <4>2. CASE bytes # <<>>
        <5>1. Head(bytes) \in S /\ Head(bytes) \in U
          BY <2>5, <4>2 DEF Stores
        <5>2. Stream(U, due, h, Append(p, Head(bytes)), <<>>, rest)
          BY <2>2, <2>5, <5>1, StreamKeeps
        <5> QED
          BY <4>2, <5>2 DEF Pushed
      <4> QED
        BY <4>1, <4>2
    <3>2. Stream(U, due, h, t, byte2, rest2)
      <4>1. CASE rest = <<>>
        BY <2>5, <3>1, <4>1 DEF Says
      <4>2. CASE rest # <<>>
        <5>1. byte2 = <<Head(rest)>> /\ rest2 = Tail(rest)
          BY <2>5, <4>2 DEF Says
        <5> QED
          BY <2>2, <2>3, <3>1, <4>2, <5>1, StreamSays
      <4> QED
        BY <4>1, <4>2
    <3> QED
      BY <1>4, <2>2, <3>2 DEF Answer, h, p
  <2> QED
    BY <2>4, <2>5
<1> QED
  BY <1>2, <1>3, <1>4

-----------------------------------------------------------------------------
(* Types *)

Access(io) == io.v \in Byte /\ (io.dir = "read" \/ io.dir = "write" \/ io = NoIo)

LEMMA MenuAccess == ASSUME menu \in Menus, NEW io \in menu.io \union {NoIo} PROVE Access(io)
<1>1. CASE io = NoIo
  BY <1>1 DEF Access, NoIo, Byte
<1>2. CASE io \in menu.io
  BY <1>2, Ps2Assumption DEF Access, Byte
<1> QED
  BY <1>1, <1>2

\* A device's byte, translated or not, is a byte.
LEMMA MenuBytes ==
    ASSUME menu \in Menus
    PROVE  /\ menu.keys \subseteq Byte /\ menu.aux \subseteq Byte
           /\ \A b \in menu.keys : Trans[b] \in Byte /\ Trans[b] + 128 \in Byte
<1>1. menu.keys \subseteq DOMAIN Trans /\ menu.aux \subseteq Byte
  BY Ps2Assumption DEF Byte
<1>2. \A b \in DOMAIN Trans : b \in 0 .. 255 /\ Trans[b] \in 0 .. 127
  BY Ps2Assumption
<1>3. \A b \in menu.keys : b \in Byte /\ Trans[b] \in Byte /\ Trans[b] + 128 \in Byte
  BY <1>1, <1>2 DEF Byte
<1> QED
  BY <1>1, <1>3

ControlTypes ==
    /\ last_command \in Byte /\ expecting_port_60h \in BOOLEAN
    /\ command \in [translate: BOOLEAN, mouse_visible: BOOLEAN, system: BOOLEAN, irq_mouse: BOOLEAN, irq_keyb: BOOLEAN]
    /\ disable_mouse \in BOOLEAN /\ disable_keyboard \in BOOLEAN
    /\ a20 \in BOOLEAN /\ reset_pulse \in 0 .. PulseLength
LEMMA ControlKeepsTypes ==
    ASSUME ControlTypes, NEW io, Access(io), ControlClock(io)
    PROVE  ControlTypes'
<1>1. last_command' \in Byte /\ expecting_port_60h' \in BOOLEAN
  <2>1. last_command' = IF Writes(io, Control) THEN io.v ELSE last_command
    BY DEF ControlClock
  <2>2. expecting_port_60h' = IF Writes(io, Control) THEN io.v \in TakesParameter ELSE expecting_port_60h /\ ~Writes(io, Data)
    BY DEF ControlClock
  <2>3. last_command' \in Byte
    BY <2>1 DEF ControlTypes, Access
  <2>4. expecting_port_60h' \in BOOLEAN
    <3>1. CASE Writes(io, Control)
      BY <2>2, <3>1
    <3>2. CASE ~Writes(io, Control)
      BY <2>2, <3>2
    <3> QED
      BY <3>1, <3>2
  <2> QED
    BY <2>3, <2>4
<1>2. command' \in [translate: BOOLEAN, mouse_visible: BOOLEAN, system: BOOLEAN, irq_mouse: BOOLEAN, irq_keyb: BOOLEAN]
  BY DEF ControlTypes, ControlClock, Cmd, Bit
<1>3. disable_mouse' \in BOOLEAN /\ disable_keyboard' \in BOOLEAN /\ a20' \in BOOLEAN
  BY DEF ControlTypes, ControlClock, Bit
<1>4. reset_pulse' \in 0 .. PulseLength
  <2>1. reset_pulse' = PulseLength \/ reset_pulse' = IF reset_pulse > 0 THEN reset_pulse - 1 ELSE 0
    BY Zenon DEF ControlClock
  <2>2. PulseLength \in Nat \ {0} /\ reset_pulse \in 0 .. PulseLength
    BY Ps2Assumption DEF ControlTypes
  <2> QED
    BY <2>1, <2>2
<1> QED
  BY <1>1, <1>2, <1>3, <1>4 DEF ControlTypes

OutputTypes ==
    /\ outputbufferfull \in BOOLEAN /\ mousebufferfull \in BOOLEAN /\ irq_keyb \in BOOLEAN /\ irq_mouse \in BOOLEAN
    /\ inputbufferfull \in BOOLEAN /\ input_write_done \in BOOLEAN /\ input_for_mouse \in BOOLEAN
LEMMA OutputKeepsTypes ==
    ASSUME OutputTypes, NEW io, InputClock(io), OutputClock(io)
    PROVE  OutputTypes'
<1>1. outputbufferfull' \in BOOLEAN /\ mousebufferfull' \in BOOLEAN /\ irq_keyb' \in BOOLEAN /\ irq_mouse' \in BOOLEAN
  BY DEF OutputTypes, OutputClock
<1>2. inputbufferfull' \in BOOLEAN /\ input_write_done' \in BOOLEAN /\ input_for_mouse' \in BOOLEAN
  BY DEF OutputTypes, InputClock, WriteDone, InputConsumed
<1> QED
  BY <1>1, <1>2 DEF OutputTypes

\* A port moves between its states, and has a byte at the stop bit only.
Moves(p, p2, hold, send, final, bytes) ==
    /\ p2 \in PortType
    /\ p2.state = "stop" => p2.byte \in bytes \/ (p.state = "stop" /\ p2.byte = p.byte)
    /\ Frame(p2) \in 0 .. 1 /\ Frame(p) \in 0 .. 1
    /\ final => Frame(p) = 1 /\ Frame(p2) = 0
    /\ Frame(p2) <= Frame(p) \/ (~hold /\ bytes # {})
    /\ p.state # "send" /\ ~send => p2.state # "send"
LEMMA PortStep ==
    ASSUME NEW p \in PortType, NEW p2, NEW hold \in BOOLEAN, NEW send \in BOOLEAN, NEW final \in BOOLEAN, NEW bytes \in SUBSET Byte,
           final => p.state = "stop", Port(p, p2, hold, send, final, bytes)
    PROVE  Moves(p, p2, hold, send, final, bytes)
<1>1. p = [state |-> p.state, byte |-> p.byte] /\ p.state \in {"idle", "wait", "bits", "stop", "send"} /\ p.byte \in Byte
  BY DEF PortType
<1>2. ASSUME NEW s \in {"idle", "wait", "bits", "stop", "send"}
      PROVE  /\ [p EXCEPT !.state = s] \in PortType /\ [p EXCEPT !.state = s].state = s
             /\ [p EXCEPT !.state = s].byte = p.byte
  BY <1>1 DEF PortType
<1>3. Frame(p2) \in 0 .. 1 /\ Frame(p) \in 0 .. 1
  BY DEF Frame
<1>4. p2 \in PortType
  BY <1>1, <1>2 DEF Port, PortType, Byte
<1>5. p2.state = "stop" => p2.byte \in bytes \/ (p.state = "stop" /\ p2.byte = p.byte)
  BY <1>1, <1>2 DEF Port
<1>6. final => Frame(p) = 1 /\ Frame(p2) = 0
  BY <1>1, <1>2 DEF Port, Frame
<1>7. Frame(p2) <= Frame(p) \/ (~hold /\ bytes # {})
  BY <1>1, <1>2 DEF Port, Frame
<1>8. p.state # "send" /\ ~send => p2.state # "send"
  BY <1>1, <1>2 DEF Port
<1> QED
  BY <1>3, <1>4, <1>5, <1>6, <1>7, <1>8 DEF Moves

-----------------------------------------------------------------------------
(* What is said and stored in a clock *)

DataTypes ==
    /\ keyb_fifo \in Seq(Byte) /\ mouse_fifo \in Seq(Byte)
    /\ keyb_reply \in Seq(Byte) /\ mouse_reply \in Seq(Byte) /\ Len(keyb_reply) <= 1 /\ Len(mouse_reply) <= 1
    /\ inj \in Seq(Byte) /\ minj \in Seq(Byte) /\ Len(inj) <= 1 /\ Len(minj) <= 1
    /\ kr \in Seq(Byte) /\ Len(kr) <= 3 /\ mr \in Seq(Byte) /\ Len(mr) <= 3
    /\ keyb_fifo_q_last \in Byte

LEMMA ResponseIs ==
    ASSUME NEW v
    PROVE  /\ KeybResponse(v) \in {<<250>>, <<250, 170>>, <<250, 171, 65>>}
           /\ MouseResponse(v) \in {<<250>>, <<250, 170, 0>>, <<250, 0>>}
  BY DEF KeybResponse, MouseResponse

LEMMA AnswersAre ==
    ASSUME NEW a \in Answers
    PROVE  /\ a \in Seq(AnswerBytes) /\ a \in Seq(Byte) /\ Len(a) <= 3
<1>1. ASSUME NEW S, 250 \in S, 170 \in S, 171 \in S, 65 \in S, 0 \in S
      PROVE  /\ <<>> \in Seq(S) /\ <<250>> \in Seq(S) /\ <<250, 170>> \in Seq(S) /\ <<250, 171, 65>> \in Seq(S)
             /\ <<250, 170, 0>> \in Seq(S) /\ <<250, 0>> \in Seq(S)
  BY <1>1
<1>8. a = <<>> \/ a = <<250>> \/ a = <<250, 170>> \/ a = <<250, 171, 65>> \/ a = <<250, 170, 0>> \/ a = <<250, 0>>
  BY DEF Answers
<1>2. 250 \in AnswerBytes /\ 170 \in AnswerBytes /\ 171 \in AnswerBytes /\ 65 \in AnswerBytes /\ 0 \in AnswerBytes
  BY DEF AnswerBytes
<1>3. 250 \in Byte /\ 170 \in Byte /\ 171 \in Byte /\ 65 \in Byte /\ 0 \in Byte
  BY DEF Byte
<1>4. /\ Len(<<>>) <= 3 /\ Len(<<250>>) <= 3 /\ Len(<<250, 170>>) <= 3 /\ Len(<<250, 171, 65>>) <= 3
      /\ Len(<<250, 170, 0>>) <= 3 /\ Len(<<250, 0>>) <= 3
  <2>1. Len(<<>>) = 0 /\ Len(<<250>>) = 1 /\ Len(<<250, 170>>) = 2 /\ Len(<<250, 0>>) = 2
    OBVIOUS
  <2>2. Len(<<250, 171, 65>>) = 3 /\ Len(<<250, 170, 0>>) = 3
    OBVIOUS
  <2>3. 0 <= 3 /\ 1 <= 3 /\ 2 <= 3 /\ 3 <= 3
    OBVIOUS
  <2> QED
    BY <2>1, <2>2, <2>3, Zenon
<1>5. a \in Seq(AnswerBytes)
  <2>1. /\ <<>> \in Seq(AnswerBytes) /\ <<250>> \in Seq(AnswerBytes) /\ <<250, 170>> \in Seq(AnswerBytes)
        /\ <<250, 171, 65>> \in Seq(AnswerBytes) /\ <<250, 170, 0>> \in Seq(AnswerBytes) /\ <<250, 0>> \in Seq(AnswerBytes)
    BY <1>1, <1>2
  <2> QED
    BY <1>8, <2>1, ZenonT(30)
<1>7. a \in Seq(Byte)
  <2>1. /\ <<>> \in Seq(Byte) /\ <<250>> \in Seq(Byte) /\ <<250, 170>> \in Seq(Byte)
        /\ <<250, 171, 65>> \in Seq(Byte) /\ <<250, 170, 0>> \in Seq(Byte) /\ <<250, 0>> \in Seq(Byte)
    BY <1>1, <1>3
  <2> QED
    BY <1>8, <2>1, ZenonT(30)
<1>6. Len(a) <= 3
  BY <1>4, <1>8
<1> QED
  BY <1>5, <1>6, <1>7

LEMMA GivenIs ==
    ASSUME DataTypes, Sources, menu \in Menus, command.translate \in BOOLEAN, translate_escape \in BOOLEAN,
           NEW key \in BOOLEAN, NEW aux \in BOOLEAN, key => keyb_port.state = "stop", aux => mouse_port.state = "stop"
    PROVE  /\ KeybGiven(key) \in Seq(Byte) /\ MouseGiven(aux) \in Seq(Byte)
           /\ \/ inj # <<>> /\ KeybGiven(key) = inj
              \/ inj = <<>> /\ KeybGiven(key) = keyb_reply /\ Len(keyb_fifo) < High /\ keyb_reply # <<>>
              \/ inj = <<>> /\ KeybGiven(key) # <<>> /\ key
              \/ inj = <<>> /\ KeybGiven(key) = <<>>
           /\ \/ minj # <<>> /\ MouseGiven(aux) = minj
              \/ minj = <<>> /\ MouseGiven(aux) = mouse_reply /\ Len(mouse_fifo) < High /\ mouse_reply # <<>>
              \/ minj = <<>> /\ MouseGiven(aux) # <<>> /\ aux
              \/ minj = <<>> /\ MouseGiven(aux) = <<>>
<1>1. ASSUME key PROVE KeyByte \in Byte
  <2>1. keyb_port.byte \in menu.keys
    BY <1>1 DEF Sources
  <2>2. /\ Trans[keyb_port.byte] \in Byte /\ Trans[keyb_port.byte] + 128 \in Byte /\ keyb_port.byte \in Byte
    BY <2>1, MenuBytes
  <2>3. \A x \in Byte : x + 128 * 1 = x + 128 /\ x + 128 * 0 = x
    BY DEF Byte
  <2>4. KeyByte \in {keyb_port.byte, Trans[keyb_port.byte], Trans[keyb_port.byte] + 128}
    BY <2>2, <2>3 DEF KeyByte, Num
  <2> QED
    BY <2>2, <2>4
<1>2. ASSUME aux PROVE mouse_port.byte \in Byte
  BY <1>2, MenuBytes DEF Sources
<1>3. \A b \in Byte : <<b>> \in Seq(Byte) /\ <<b>> # <<>> /\ Head(<<b>>) = b
  OBVIOUS
<1>4. <<>> \in Seq(Byte)
  OBVIOUS
<1>5. /\ KeybGiven(key) \in Seq(Byte)
      /\ \/ inj # <<>> /\ KeybGiven(key) = inj
         \/ inj = <<>> /\ KeybGiven(key) = keyb_reply /\ Len(keyb_fifo) < High /\ keyb_reply # <<>>
         \/ inj = <<>> /\ KeybGiven(key) # <<>> /\ key
         \/ inj = <<>> /\ KeybGiven(key) = <<>>
  <2>1. CASE inj # <<>>
    BY <2>1 DEF KeybGiven, Given, DataTypes
  <2>2. CASE inj = <<>> /\ KeybReplyDone /\ ~key
    BY <2>2 DEF KeybGiven, Given, DataTypes, KeybReplyDone
  <2>3. CASE inj = <<>> /\ ~(KeybReplyDone /\ ~key) /\ key /\ KeyStored
    <3>1. KeybGiven(key) = <<KeyByte>>
      BY <2>3 DEF KeybGiven, Given
    <3> QED
      BY <1>1, <1>3, <2>3, <3>1
  <2>4. CASE inj = <<>> /\ ~(KeybReplyDone /\ ~key) /\ ~(key /\ KeyStored)
    <3>1. KeybGiven(key) = <<>>
      BY <2>4 DEF KeybGiven, Given
    <3> QED
      BY <1>4, <2>4, <3>1
  <2> QED
    BY <2>1, <2>2, <2>3, <2>4
<1>6. /\ MouseGiven(aux) \in Seq(Byte)
      /\ \/ minj # <<>> /\ MouseGiven(aux) = minj
         \/ minj = <<>> /\ MouseGiven(aux) = mouse_reply /\ Len(mouse_fifo) < High /\ mouse_reply # <<>>
         \/ minj = <<>> /\ MouseGiven(aux) # <<>> /\ aux
         \/ minj = <<>> /\ MouseGiven(aux) = <<>>
  <2>1. CASE minj # <<>>
    BY <2>1 DEF MouseGiven, Given, DataTypes
  <2>2. CASE minj = <<>> /\ MouseReplyDone /\ ~aux
    BY <2>2 DEF MouseGiven, Given, DataTypes, MouseReplyDone
  <2>3. CASE minj = <<>> /\ ~(MouseReplyDone /\ ~aux) /\ aux
    <3>1. MouseGiven(aux) = <<mouse_port.byte>>
      BY <2>3 DEF MouseGiven, Given
    <3> QED
      BY <1>2, <1>3, <2>3, <3>1
  <2>4. CASE minj = <<>> /\ ~(MouseReplyDone /\ ~aux) /\ ~aux
    <3>1. MouseGiven(aux) = <<>>
      BY <2>4 DEF MouseGiven, Given
    <3> QED
      BY <1>4, <2>4, <3>1
  <2> QED
    BY <2>1, <2>2, <2>3, <2>4
<1> QED
  BY <1>5, <1>6

SayTypes == /\ inj \in Seq(Byte) /\ minj \in Seq(Byte) /\ Len(inj) <= 1 /\ Len(minj) <= 1
            /\ kr \in Seq(Byte) /\ Len(kr) <= 3 /\ mr \in Seq(Byte) /\ Len(mr) <= 3

LEMMA SaysTypes ==
    ASSUME NEW byte \in Seq(Byte), NEW rest \in Seq(Byte), Len(rest) <= 3, NEW byte2, NEW rest2, Says(byte, rest, byte2, rest2)
    PROVE  /\ byte2 \in Seq(Byte) /\ Len(byte2) <= 1
           /\ rest2 \in Seq(Byte) /\ Len(rest2) <= 3
           /\ Len(byte2) + Len(rest2) = Len(rest)
           /\ byte2 = <<>> => Len(rest2) = 0 \/ byte # <<>>
<1>1. CASE rest # <<>> /\ byte = <<>>
  <2>1. byte2 = <<Head(rest)>> /\ rest2 = Tail(rest)
    BY <1>1 DEF Says
  <2>2. Head(rest) \in Byte /\ rest2 \in Seq(Byte) /\ Len(rest2) = Len(rest) - 1
    BY <1>1, <2>1
  <2>3. byte2 \in Seq(Byte) /\ Len(byte2) = 1 /\ byte2 # <<>>
    BY <2>1, <2>2
  <2>4. Len(rest) \in Nat
    OBVIOUS
  <2> QED
    BY <2>2, <2>3, <2>4
<1>2. CASE ~(rest # <<>> /\ byte = <<>>)
  <2>1. byte2 = <<>> /\ rest2 = rest
    BY <1>2 DEF Says
  <2>2. byte2 \in Seq(Byte) /\ Len(byte2) = 0 /\ Len(rest) \in Nat
    BY <2>1
  <2>3. rest = <<>> => Len(rest) = 0
    OBVIOUS
  <2> QED
    BY <1>2, <2>1, <2>2, <2>3
<1> QED
  BY <1>1, <1>2

LEMMA Responds ==
    ASSUME SayTypes, NEW io, RespondClock(io, FALSE)
    PROVE  /\ SayTypes'
           /\ inj_ctr' = 0
           /\ kclr' = WriteToKeyb(io) /\ mclr' = WriteToMouse(io)
           /\ WriteToKeyb(io) => kr' = KeybResponse(io.v) /\ inj' = <<>>
           /\ WriteToMouse(io) => mr' = MouseResponse(io.v) /\ minj' = <<>>
           /\ ~WriteToKeyb(io) => Says(inj, kr, inj', kr')
           /\ ~WriteToMouse(io) => Says(minj, mr, minj', mr')
<1>1. inj_ctr' = 0 /\ kclr' = WriteToKeyb(io) /\ mclr' = WriteToMouse(io)
  BY DEF RespondClock, KeybClear, MouseClear
<1>2. WriteToKeyb(io) => kr' = KeybResponse(io.v) /\ inj' = <<>>
  BY DEF RespondClock, NewAnswer
<1>3. WriteToMouse(io) => mr' = MouseResponse(io.v) /\ minj' = <<>>
  BY DEF RespondClock
<1>4. ~WriteToKeyb(io) => Says(inj, kr, inj', kr')
  BY DEF RespondClock, Says
<1>5. ~WriteToMouse(io) => Says(minj, mr, minj', mr')
  BY DEF RespondClock, Says
<1>6. \A v : /\ KeybResponse(v) \in Seq(Byte) /\ Len(KeybResponse(v)) <= 3
             /\ MouseResponse(v) \in Seq(Byte) /\ Len(MouseResponse(v)) <= 3
  <2> TAKE v
  <2>1. KeybResponse(v) \in Answers /\ MouseResponse(v) \in Answers
    BY ResponseIs DEF Answers
  <2> QED
    BY <2>1, AnswersAre
<1>7. <<>> \in Seq(Byte) /\ Len(<<>>) <= 1
  OBVIOUS
<1>8. inj' \in Seq(Byte) /\ Len(inj') <= 1 /\ kr' \in Seq(Byte) /\ Len(kr') <= 3
  <2>1. CASE WriteToKeyb(io)
    BY <1>2, <1>6, <1>7, <2>1
  <2>2. CASE ~WriteToKeyb(io)
    BY <1>4, <2>2, SaysTypes DEF SayTypes
  <2> QED
    BY <2>1, <2>2
<1>9. minj' \in Seq(Byte) /\ Len(minj') <= 1 /\ mr' \in Seq(Byte) /\ Len(mr') <= 3
  <2>1. CASE WriteToMouse(io)
    BY <1>3, <1>6, <1>7, <2>1
  <2>2. CASE ~WriteToMouse(io)
    BY <1>5, <2>2, SaysTypes DEF SayTypes
  <2> QED
    BY <2>1, <2>2
<1>10. SayTypes'
  BY <1>8, <1>9 DEF SayTypes
<1> QED
  BY <1>1, <1>2, <1>3, <1>4, <1>5, <1>10

\* A reply is one byte.
LEMMA RepliesTypes ==
    ASSUME DataTypes, OutputTypes, ControlTypes, NEW io, Access(io), NEW key, NEW aux, ReplyClock(io, key, aux)
    PROVE  /\ keyb_reply' \in Seq(Byte) /\ Len(keyb_reply') <= 1
           /\ mouse_reply' \in Seq(Byte) /\ Len(mouse_reply') <= 1
<1>1. \A b \in Byte : <<b>> \in Seq(Byte) /\ Len(<<b>>) <= 1
  OBVIOUS
<1>2. <<>> \in Seq(Byte) /\ Len(<<>>) <= 1
  OBVIOUS
<1>3. /\ 0 \in Byte /\ 85 \in Byte /\ 128 \in Byte /\ 1 \in Byte /\ io.v \in Byte
  BY DEF Access, Byte
<1>4. \A b : Num(b) \in 0 .. 1
  BY DEF Num
<1>5. CommandByte \in Byte /\ OutputPort \in Byte
  <2>1. \A a, b, c, d, e, f \in 0 .. 1 : /\ 64 * a + 32 * b + 16 * c + 4 * d + 2 * e + f \in 0 .. 255
                                        /\ 32 * a + 16 * b + 2 * c + 1 \in 0 .. 255
    OBVIOUS
  <2> QED
    BY <1>4, <2>1 DEF CommandByte, OutputPort, Byte
<1>6. \/ \E b \in Byte : keyb_reply' = <<b>>
      \/ keyb_reply' = IF KeybReplyDone /\ ~key THEN <<>> ELSE keyb_reply
  <2>1. CASE Parameter(io, WriteKeybOutput)
    BY <1>3, <2>1 DEF ReplyClock, Parameter, Cmd, Writes, Data, Control
  <2>2. CASE Writes(io, Control)
    BY <1>3, <1>5, <2>2 DEF ReplyClock, Parameter, Cmd, Writes, Data, Control, SelfTest
  <2>3. CASE ~Parameter(io, WriteKeybOutput) /\ ~Writes(io, Control)
    BY <2>3 DEF ReplyClock, Cmd
  <2> QED
    BY <2>1, <2>2, <2>3
<1>7. keyb_reply' \in Seq(Byte) /\ Len(keyb_reply') <= 1
  BY <1>1, <1>2, <1>6 DEF DataTypes
<1>8. mouse_reply' = <<io.v>> \/ mouse_reply' = <<>> \/ mouse_reply' = mouse_reply
  BY DEF ReplyClock
<1>9. mouse_reply' \in Seq(Byte) /\ Len(mouse_reply') <= 1
  BY <1>1, <1>2, <1>3, <1>8 DEF DataTypes
<1> QED
  BY <1>7, <1>9

-----------------------------------------------------------------------------
(* A FIFO stays below the margin *)

\* What a FIFO is given in a clock: the byte on its way, a reply if there is
\* room, or that of a frame that ends.
Gives(q, byte, given, final) ==
    \/ byte # <<>> /\ given = byte
    \/ byte = <<>> /\ Len(q) < High
    \/ byte = <<>> /\ final
    \/ byte = <<>> /\ given = <<>>

HasRoomStill(q2, clear, byte, rest, port2) ==
    /\ q2 \in Seq(Byte) /\ Len(q2) < Depth
    /\ \A rest2 : Len(rest2) \in 0 .. 3 /\ ~clear => Room(q2, TRUE, <<>>, rest2, port2)
    /\ \A byte2, rest2 : Says(byte, rest, byte2, rest2) => Room(q2, FALSE, byte2, rest2, port2)

LEMMA RoomStep ==
    ASSUME NEW q \in Seq(Byte), NEW clear \in BOOLEAN, NEW byte \in Seq(Byte), NEW rest \in Seq(Byte), Len(byte) <= 1, Len(rest) <= 3,
           NEW port, NEW port2, Room(q, clear, byte, rest, port), Frame(port) \in 0 .. 1, Frame(port2) \in 0 .. 1,
           NEW final \in BOOLEAN, final => Frame(port) = 1 /\ Frame(port2) = 0, Frame(port2) <= Frame(port) \/ Len(q) < High,
           NEW given \in Seq(Byte), Gives(q, byte, given, final), NEW emptied \in BOOLEAN, clear => emptied, NEW rd \in BOOLEAN
    PROVE  HasRoomStill(Fifo(q, emptied, rd, given), clear, byte, rest, port2)
<1> DEFINE q2 == Fifo(q, emptied, rd, given)
<1>1. High \in Nat /\ High > 0 /\ Depth \in Nat /\ High + 4 <= Depth
  BY Ps2Assumption, MarginAssumption
<1>2. PICK L \in Nat : L = Len(q)
  OBVIOUS
<1>22. Len(byte) \in 0 .. 1 /\ Len(rest) \in 0 .. 3
  <2>1. Len(byte) \in Nat /\ Len(rest) \in Nat
    OBVIOUS
  <2>2. \A x, y \in Nat : x <= 1 /\ y <= 3 => x \in 0 .. 1 /\ y \in 0 .. 3
    OBVIOUS
  <2> QED
    BY <2>1, <2>2, Zenon
<1>3. PICK b \in 0 .. 1 : b = Len(byte)
  BY <1>22
<1>4. PICK r \in 0 .. 3 : r = Len(rest)
  BY <1>22
<1>5. PICK f \in 0 .. 1 : f = Frame(port)
  OBVIOUS
<1>6. PICK f2 \in 0 .. 1 : f2 = Frame(port2)
  OBVIOUS
<1>7. L <= High + 3 /\ r + b <= 3 /\ (~clear /\ byte = <<>> => r <= 2) /\ (~clear => L + b + r + f <= High + 3)
  BY <1>2, <1>3, <1>4, <1>5 DEF Room
<1>8. q2 \in Seq(Byte) /\ Len(q2) = IF emptied THEN 0 ELSE Len(q) - (IF rd /\ q # <<>> THEN 1 ELSE 0) + (IF given # <<>> THEN 1 ELSE 0)
  <2>1. Len(q) < Depth
    BY <1>1, <1>2, <1>7
  <2> QED
    BY <2>1, FifoType
<1>9. PICK g \in 0 .. 1 : g = IF given # <<>> THEN 1 ELSE 0
  OBVIOUS
<1>10. PICK L2 \in Nat : L2 = Len(q2)
  BY <1>8
<1> HIDE DEF q2
<1>11. L2 <= L + g /\ (emptied => L2 = 0)
  <2>1. CASE emptied
    BY <1>8, <1>10, <2>1
  <2>2. CASE ~emptied
    <3>1. PICK d \in 0 .. 1 : d = IF rd /\ q # <<>> THEN 1 ELSE 0
      OBVIOUS
    <3>2. L2 = L - d + g
      BY <1>2, <1>8, <1>9, <1>10, <2>2, <3>1
    <3> QED
      BY <2>2, <3>1, <3>2
  <2> QED
    BY <2>1, <2>2
<1>12. byte = <<>> => b = 0
  BY <1>3
<1>13. byte # <<>> => b = 1
  <2>1. byte # <<>> => Len(byte) \in Nat \ {0}
    BY EmptySeq
  <2> QED
    BY <1>3, <2>1
<1>14. (final => f = 1 /\ f2 = 0) /\ (f2 <= f \/ L < High)
  BY <1>2, <1>5, <1>6
<1>15. \/ b = 1
       \/ b = 0 /\ L < High
       \/ b = 0 /\ final
       \/ b = 0 /\ g = 0
  BY <1>2, <1>9, <1>12, <1>13 DEF Gives
<1>16. ~clear /\ b = 0 => r <= 2
  BY <1>7, <1>13
<1>17. ~clear => L2 <= High + 3
  BY <1>1, <1>7, <1>11, <1>14, <1>15
<1>18. L2 + r + f2 <= High + 3
  <2>1. CASE emptied
    BY <1>1, <1>11, <2>1
  <2>2. CASE ~emptied /\ b = 1
    BY <1>1, <1>7, <1>11, <1>14, <2>2
  <2>3. CASE ~emptied /\ b = 0 /\ L < High
    BY <1>1, <1>7, <1>11, <1>14, <1>16, <2>3
  <2>4. CASE ~emptied /\ b = 0 /\ final
    BY <1>1, <1>7, <1>11, <1>14, <2>4
  <2>5. CASE ~emptied /\ b = 0 /\ g = 0
    BY <1>1, <1>7, <1>11, <1>14, <2>5
  <2> QED
    BY <1>15, <2>1, <2>2, <2>3, <2>4, <2>5
<1>19. Len(q2) < Depth
  BY <1>1, <1>10, <1>18
<1>20. ASSUME NEW rest2, Len(rest2) \in 0 .. 3, ~clear PROVE Room(q2, TRUE, <<>>, rest2, port2)
  <2>1. Len(<<>>) = 0
    OBVIOUS
  <2>2. PICK r2 \in 0 .. 3 : r2 = Len(rest2)
    BY <1>20
  <2>3. r2 + Len(<<>>) <= 3
    BY <2>1
  <2>4. Len(q2) <= High + 3
    BY <1>10, <1>17, <1>20
  <2> QED
    BY <2>2, <2>3, <2>4 DEF Room
<1>21. ASSUME NEW byte2, NEW rest2, Says(byte, rest, byte2, rest2) PROVE Room(q2, FALSE, byte2, rest2, port2)
  <2>1. /\ Len(byte2) \in Nat /\ Len(rest2) \in Nat
        /\ Len(byte2) + Len(rest2) = Len(rest)
        /\ byte2 = <<>> => Len(rest2) = 0 \/ byte # <<>>
    <3>1. byte2 \in Seq(Byte) /\ rest2 \in Seq(Byte)
      BY <1>21, SaysTypes
    <3>2. Len(byte2) + Len(rest2) = Len(rest) /\ (byte2 = <<>> => Len(rest2) = 0 \/ byte # <<>>)
      BY <1>21, SaysTypes
    <3> QED
      BY <3>1, <3>2
  <2>2. PICK b2 \in Nat, r2 \in Nat : b2 = Len(byte2) /\ r2 = Len(rest2)
    BY <2>1
  <2>3. b2 + r2 = r /\ (byte2 = <<>> => r2 = 0 \/ b = 1)
    BY <1>4, <1>13, <2>1, <2>2
  <2>4. byte2 = <<>> => r2 <= 2
    BY <1>7, <2>3
  <2>5. r2 + b2 <= 3 /\ L2 + b2 + r2 + f2 <= High + 3 /\ L2 <= High + 3
    BY <1>1, <1>7, <1>18, <2>3
  <2> QED
    BY <1>6, <1>10, <2>2, <2>4, <2>5 DEF Room
<1> QED
  BY <1>8, <1>19, <1>20, <1>21 DEF q2, HasRoomStill

-----------------------------------------------------------------------------
(* One clock keeps the invariant *)

Ticks(io, key, aux) == io \in menu.io \union {NoIo} /\ key \in BOOLEAN /\ aux \in BOOLEAN /\ Clock(io, key, aux, FALSE)

SaidTypes == /\ keyb_said \in Seq(Marks) /\ Len(keyb_said) = Len(keyb_fifo)
             /\ mouse_said \in Seq(Marks) /\ Len(mouse_said) = Len(mouse_fifo)

LEMMA Parts ==
    ASSUME IInv
    PROVE  /\ menu \in Menus /\ OutputTypes /\ ControlTypes /\ DataTypes /\ SayTypes /\ SaidTypes
           /\ kclr \in BOOLEAN /\ mclr \in BOOLEAN /\ translate_escape \in BOOLEAN /\ polled \in BOOLEAN
           /\ keyb_port \in PortType /\ mouse_port \in PortType /\ io_gap \in 0 .. 2
           /\ command.translate \in BOOLEAN /\ disable_mouse \in BOOLEAN /\ disable_keyboard \in BOOLEAN
           /\ expecting_port_60h \in BOOLEAN
<1>1. TypeOK /\ Sources
  BY DEF IInv
<1>2. OutputTypes
  BY <1>1 DEF TypeOK, OutputTypes
<1>3. ControlTypes
  BY <1>1 DEF TypeOK, ControlTypes
<1>4. DataTypes
  BY <1>1 DEF TypeOK, Sources, DataTypes
<1>5. SayTypes
  BY <1>4 DEF DataTypes, SayTypes
<1>8. SaidTypes
  BY <1>1 DEF TypeOK, SaidTypes, Marks, Others
<1>6. /\ menu \in Menus
      /\ kclr \in BOOLEAN /\ mclr \in BOOLEAN /\ translate_escape \in BOOLEAN /\ polled \in BOOLEAN
      /\ keyb_port \in PortType /\ mouse_port \in PortType /\ io_gap \in 0 .. 2
  BY <1>1 DEF TypeOK
<1>7. /\ command.translate \in BOOLEAN /\ disable_mouse \in BOOLEAN /\ disable_keyboard \in BOOLEAN
      /\ expecting_port_60h \in BOOLEAN
  BY <1>3 DEF ControlTypes
<1> QED
  BY <1>2, <1>3, <1>4, <1>5, <1>6, <1>7, <1>8

LEMMA Subclocks ==
    ASSUME NEW io, NEW key, NEW aux, Ticks(io, key, aux)
    PROVE  /\ menu' = menu /\ key \in BOOLEAN /\ aux \in BOOLEAN /\ io \in menu.io \union {NoIo}
           /\ PortClock(io, key, aux) /\ ControlClock(io) /\ InputClock(io)
           /\ ReplyClock(io, key, aux) /\ RespondClock(io, FALSE)
           /\ FifoClock(io, key, aux) /\ OutputClock(io) /\ History(io, key, aux)
           /\ key => keyb_port.state = "stop"
           /\ aux => mouse_port.state = "stop"
  BY DEF Ticks, Clock, PortClock

\* The program makes an access in the bus's gap only, and of one kind.
LEMMA Timing ==
    ASSUME Taken, io_gap \in 0 .. 2, NEW io, NEW key, NEW aux, Ticks(io, key, aux)
    PROVE  /\ io # NoIo => io_gap = 0 /\ ~kclr /\ ~mclr /\ io_gap' = 2
           /\ io = NoIo /\ io_gap > 0 => io_gap' = io_gap - 1
           /\ io_gap' \in 0 .. 2
<1>1. /\ io # NoIo => io_gap = 0
      /\ io_gap' = IF io # NoIo THEN 2 ELSE IF io_gap > 0 THEN io_gap - 1 ELSE 0
  BY DEF Ticks, Clock
<1> QED
  BY <1>1 DEF Taken

LEMMA Kinds ==
    ASSUME NEW io
    PROVE  /\ io = NoIo => /\ ~WriteToKeyb(io) /\ ~WriteToMouse(io)
                           /\ \A c : ~Cmd(io, c) /\ ~Parameter(io, c)
                           /\ \A p : ~Reads(io, p) /\ ~Writes(io, p)
                           /\ ~Reads60(io, TRUE) /\ ~Reads60(io, FALSE)
           /\ WriteToKeyb(io) => /\ ~WriteToMouse(io) /\ ~Reads(io, Data) /\ \A c : ~Cmd(io, c) /\ ~Parameter(io, c)
           /\ WriteToMouse(io) => /\ ~Reads(io, Data) /\ \A c : ~Cmd(io, c)
           /\ \A c : Cmd(io, c) => ~Reads(io, Data)
           /\ Reads60(io, TRUE) => Reads(io, Data) /\ mousebufferfull
           /\ Reads60(io, FALSE) => Reads(io, Data) /\ outputbufferfull /\ ~mousebufferfull
           /\ Reads60(io, TRUE) \in BOOLEAN /\ Reads60(io, FALSE) \in BOOLEAN
           /\ WriteToKeyb(io) \in BOOLEAN /\ WriteToMouse(io) \in BOOLEAN /\ Cmd(io, SelfTest) \in BOOLEAN
<1>1. Data # Control /\ "read" # "write" /\ "none" # "read" /\ "none" # "write"
  BY DEF Data, Control
<1>2. NoIo.dir = "none"
  BY DEF NoIo
<1> QED
  BY <1>1, <1>2 DEF WriteToKeyb, WriteToMouse, Cmd, Parameter, Reads, Writes, Reads60

LEMMA TakenStep ==
    ASSUME IInv, NEW io, NEW key, NEW aux, Ticks(io, key, aux)
    PROVE  Taken' /\ SayTypes' /\ OutputTypes' /\ ControlTypes' /\ kclr' \in BOOLEAN /\ mclr' \in BOOLEAN
<1>1. Access(io)
  BY Parts, Subclocks, MenuAccess
<1>2. SayTypes' /\ kclr' = WriteToKeyb(io) /\ mclr' = WriteToMouse(io)
  BY Parts, Subclocks, Responds
<1>3. OutputTypes' /\ ControlTypes'
  BY <1>1, Parts, Subclocks, OutputKeepsTypes, ControlKeepsTypes
<1>4. WriteToKeyb(io) \/ WriteToMouse(io) => io # NoIo /\ io_gap' = 2
  BY Parts, Timing, Kinds DEF IInv
<1>5. (WriteToKeyb(io) => inj' = <<>>) /\ (WriteToMouse(io) => minj' = <<>>)
  BY Parts, Subclocks, Responds
<1>6. inputbufferfull' => io_gap' > 0 /\ input_write_done'
  <2>1. inputbufferfull => input_write_done
    BY DEF IInv, Taken
  <2>2. /\ inputbufferfull' = (WriteToKeyb(io) \/ WriteToMouse(io) \/ (inputbufferfull /\ ~input_write_done))
        /\ input_write_done' = (input_write_done \/ WriteToKeyb(io) \/ WriteToMouse(io))
    BY Subclocks DEF InputClock, InputConsumed, WriteDone
  <2>3. inputbufferfull' => WriteToKeyb(io) \/ WriteToMouse(io)
    BY <2>1, <2>2, Zenon
  <2>4. WriteToKeyb(io) \/ WriteToMouse(io) => io_gap' > 0
    BY <1>4
  <2>5. WriteToKeyb(io) \/ WriteToMouse(io) => input_write_done'
    BY <2>2, Zenon
  <2> QED
    BY <2>3, <2>4, <2>5
<1> QED
  BY <1>2, <1>3, <1>4, <1>5, <1>6, Kinds DEF Taken

\* The frames: those of a port, and what is stored when one ends.
LEMMA FramesStep ==
    ASSUME IInv, NEW io, NEW key, NEW aux, Ticks(io, key, aux)
    PROVE  /\ keyb_port' \in PortType /\ mouse_port' \in PortType /\ NoRelay'
           /\ keyb_port'.state = "stop" => keyb_port'.byte \in menu'.keys
           /\ mouse_port'.state = "stop" => mouse_port'.byte \in menu'.aux
           /\ Frame(keyb_port) \in 0 .. 1 /\ Frame(keyb_port') \in 0 .. 1
           /\ Frame(mouse_port) \in 0 .. 1 /\ Frame(mouse_port') \in 0 .. 1
           /\ key => Frame(keyb_port) = 1 /\ Frame(keyb_port') = 0
           /\ aux => Frame(mouse_port) = 1 /\ Frame(mouse_port') = 0
           /\ Frame(keyb_port') <= Frame(keyb_port) \/ Len(keyb_fifo) < High
           /\ Frame(mouse_port') <= Frame(mouse_port) \/ (Len(mouse_fifo) < High /\ menu.aux # {})
<1>1. menu' = menu /\ menu.keys \in SUBSET Byte /\ menu.aux \in SUBSET Byte
  BY Parts, Subclocks, MenuBytes
<1>2. ~(inputbufferfull /\ ~input_write_done)
  BY DEF IInv, Taken
<1>3. /\ Len(keyb_fifo) \in Nat /\ Len(mouse_fifo) \in Nat /\ High \in Nat
  BY Parts, Ps2Assumption DEF DataTypes
<1> DEFINE kh == KeybHeldOff
           mh == Len(mouse_fifo) >= High \/ disable_mouse
           ks == inputbufferfull /\ ~input_write_done /\ ~input_for_mouse
           ms == inputbufferfull /\ ~input_write_done /\ input_for_mouse
<1>4. kh \in BOOLEAN /\ mh \in BOOLEAN /\ ~ks /\ ~ms /\ ks \in BOOLEAN /\ ms \in BOOLEAN
  BY <1>2 DEF KeybHeldOff
<1>5. (~kh => Len(keyb_fifo) < High) /\ (~mh => Len(mouse_fifo) < High)
  BY <1>3 DEF KeybHeldOff
<1>6. /\ Port(keyb_port, keyb_port', kh, ks, key, menu.keys)
      /\ Port(mouse_port, mouse_port', mh, ms, aux, menu.aux)
  BY Subclocks DEF PortClock
<1> HIDE DEF kh, mh, ks, ms
<1>7. /\ key \in BOOLEAN /\ aux \in BOOLEAN /\ (key => keyb_port.state = "stop") /\ (aux => mouse_port.state = "stop")
      /\ keyb_port \in PortType /\ mouse_port \in PortType
  BY Parts, Subclocks
<1>8. /\ keyb_port' \in PortType
      /\ keyb_port'.state = "stop" => keyb_port'.byte \in menu.keys \/ (keyb_port.state = "stop" /\ keyb_port'.byte = keyb_port.byte)
      /\ Frame(keyb_port') \in 0 .. 1 /\ Frame(keyb_port) \in 0 .. 1
      /\ key => Frame(keyb_port) = 1 /\ Frame(keyb_port') = 0
      /\ Frame(keyb_port') <= Frame(keyb_port) \/ (~kh /\ menu.keys # {})
      /\ keyb_port.state # "send" /\ ~ks => keyb_port'.state # "send"
  <2>1. menu.keys \in SUBSET Byte /\ kh \in BOOLEAN /\ ks \in BOOLEAN
    BY <1>1, <1>4
  <2>2. key \in BOOLEAN /\ (key => keyb_port.state = "stop") /\ keyb_port \in PortType
    BY <1>7
  <2>3. Port(keyb_port, keyb_port', kh, ks, key, menu.keys)
    BY <1>6
  <2>4. Moves(keyb_port, keyb_port', kh, ks, key, menu.keys)
    BY <2>1, <2>2, <2>3, PortStep
  <2> QED
    BY <2>4 DEF Moves
<1>9. /\ mouse_port' \in PortType
      /\ mouse_port'.state = "stop" => mouse_port'.byte \in menu.aux \/ (mouse_port.state = "stop" /\ mouse_port'.byte = mouse_port.byte)
      /\ Frame(mouse_port') \in 0 .. 1 /\ Frame(mouse_port) \in 0 .. 1
      /\ aux => Frame(mouse_port) = 1 /\ Frame(mouse_port') = 0
      /\ Frame(mouse_port') <= Frame(mouse_port) \/ (~mh /\ menu.aux # {})
      /\ mouse_port.state # "send" /\ ~ms => mouse_port'.state # "send"
  <2>1. menu.aux \in SUBSET Byte /\ mh \in BOOLEAN /\ ms \in BOOLEAN
    BY <1>1, <1>4
  <2>2. aux \in BOOLEAN /\ (aux => mouse_port.state = "stop") /\ mouse_port \in PortType
    BY <1>7
  <2>3. Port(mouse_port, mouse_port', mh, ms, aux, menu.aux)
    BY <1>6
  <2>4. Moves(mouse_port, mouse_port', mh, ms, aux, menu.aux)
    BY <2>1, <2>2, <2>3, PortStep
  <2> QED
    BY <2>4 DEF Moves
<1>10. NoRelay'
  BY <1>4, <1>8, <1>9 DEF IInv, NoRelay
<1>11. /\ keyb_port'.state = "stop" => keyb_port'.byte \in menu'.keys
       /\ mouse_port'.state = "stop" => mouse_port'.byte \in menu'.aux
  BY <1>1, <1>8, <1>9 DEF IInv, Sources
<1> QED
  BY <1>5, <1>8, <1>9, <1>10, <1>11

LEMMA IrqStep ==
    ASSUME IInv, NEW io, NEW key, NEW aux, Ticks(io, key, aux)
    PROVE  IrqHasByte'
<1>1. irq_keyb => outputbufferfull /\ ~mousebufferfull
  BY DEF IInv, IrqHasByte
<1>2. OutputTypes
  BY Parts
<1>3. OutputClock(io)
  BY Subclocks
<1> QED
  BY <1>1, <1>2, <1>3 DEF IrqHasByte, OutputClock, OutputTypes, OutputIdle, KeybIrqEnds, Reads60

LEMMA RoomsStep ==
    ASSUME IInv, NEW io, NEW key, NEW aux, Ticks(io, key, aux)
    PROVE  /\ Rooms' /\ keyb_fifo' \in Seq(Byte) /\ mouse_fifo' \in Seq(Byte)
           /\ Len(keyb_fifo') < Depth /\ Len(mouse_fifo') < Depth
<1>1. DataTypes /\ kclr \in BOOLEAN /\ mclr \in BOOLEAN /\ key \in BOOLEAN /\ aux \in BOOLEAN
  BY Parts, Subclocks
<1>2. /\ KeybGiven(key) \in Seq(Byte) /\ MouseGiven(aux) \in Seq(Byte)
      /\ Gives(keyb_fifo, inj, KeybGiven(key), key) /\ Gives(mouse_fifo, minj, MouseGiven(aux), aux)
  <2>1. Sources
    BY DEF IInv
  <2>2. /\ key => keyb_port.state = "stop"
        /\ aux => mouse_port.state = "stop"
    BY Subclocks
  <2>3. menu \in Menus /\ command.translate \in BOOLEAN /\ translate_escape \in BOOLEAN
    BY Parts
  <2>4. /\ KeybGiven(key) \in Seq(Byte) /\ MouseGiven(aux) \in Seq(Byte)
        /\ \/ inj # <<>> /\ KeybGiven(key) = inj
           \/ inj = <<>> /\ KeybGiven(key) = keyb_reply /\ Len(keyb_fifo) < High /\ keyb_reply # <<>>
           \/ inj = <<>> /\ KeybGiven(key) # <<>> /\ key
           \/ inj = <<>> /\ KeybGiven(key) = <<>>
        /\ \/ minj # <<>> /\ MouseGiven(aux) = minj
           \/ minj = <<>> /\ MouseGiven(aux) = mouse_reply /\ Len(mouse_fifo) < High /\ mouse_reply # <<>>
           \/ minj = <<>> /\ MouseGiven(aux) # <<>> /\ aux
           \/ minj = <<>> /\ MouseGiven(aux) = <<>>
    BY <1>1, <2>1, <2>2, <2>3, GivenIs
  <2> QED
    BY <2>4, Zenon DEF Gives
<1> DEFINE kb == KeybGiven(key)
           mb == MouseGiven(aux)
           ke == Cmd(io, SelfTest) \/ kclr
           me == Cmd(io, SelfTest) \/ mclr
           krd == Reads60(io, FALSE)
           mrd == Reads60(io, TRUE)
<1>3. ke \in BOOLEAN /\ me \in BOOLEAN /\ krd \in BOOLEAN /\ mrd \in BOOLEAN /\ (kclr => ke) /\ (mclr => me)
  BY <1>1, Kinds
<1>4. keyb_fifo' = Fifo(keyb_fifo, ke, krd, kb) /\ mouse_fifo' = Fifo(mouse_fifo, me, mrd, mb)
  BY Subclocks DEF FifoClock
<1> HIDE DEF kb, mb, ke, me, krd, mrd
<1>5. /\ Room(keyb_fifo, kclr, inj, kr, keyb_port) /\ Room(mouse_fifo, mclr, minj, mr, mouse_port)
  BY DEF IInv, Rooms
<1>6. /\ keyb_fifo' \in Seq(Byte) /\ Len(keyb_fifo') < Depth
      /\ \A rest2 : Len(rest2) \in 0 .. 3 /\ ~kclr => Room(keyb_fifo', TRUE, <<>>, rest2, keyb_port')
      /\ \A byte2, rest2 : Says(inj, kr, byte2, rest2) => Room(keyb_fifo', FALSE, byte2, rest2, keyb_port')
  <2>1. /\ keyb_fifo \in Seq(Byte) /\ inj \in Seq(Byte) /\ kr \in Seq(Byte) /\ Len(inj) <= 1 /\ Len(kr) <= 3
    BY <1>1 DEF DataTypes
  <2>2. /\ Frame(keyb_port) \in 0 .. 1 /\ Frame(keyb_port') \in 0 .. 1
        /\ key => Frame(keyb_port) = 1 /\ Frame(keyb_port') = 0
        /\ Frame(keyb_port') <= Frame(keyb_port) \/ Len(keyb_fifo) < High
    BY FramesStep
  <2>3. kb \in Seq(Byte) /\ Gives(keyb_fifo, inj, kb, key)
    BY <1>2 DEF kb
  <2>4. HasRoomStill(Fifo(keyb_fifo, ke, krd, kb), kclr, inj, kr, keyb_port')
    BY <1>1, <1>3, <1>5, <2>1, <2>2, <2>3, RoomStep
  <2> QED
    BY <1>4, <2>4 DEF HasRoomStill
<1>7. /\ mouse_fifo' \in Seq(Byte) /\ Len(mouse_fifo') < Depth
      /\ \A rest2 : Len(rest2) \in 0 .. 3 /\ ~mclr => Room(mouse_fifo', TRUE, <<>>, rest2, mouse_port')
      /\ \A byte2, rest2 : Says(minj, mr, byte2, rest2) => Room(mouse_fifo', FALSE, byte2, rest2, mouse_port')
  <2>1. /\ mouse_fifo \in Seq(Byte) /\ minj \in Seq(Byte) /\ mr \in Seq(Byte) /\ Len(minj) <= 1 /\ Len(mr) <= 3
    BY <1>1 DEF DataTypes
  <2>2. /\ Frame(mouse_port) \in 0 .. 1 /\ Frame(mouse_port') \in 0 .. 1
        /\ aux => Frame(mouse_port) = 1 /\ Frame(mouse_port') = 0
        /\ Frame(mouse_port') <= Frame(mouse_port) \/ Len(mouse_fifo) < High
    BY FramesStep
  <2>3. mb \in Seq(Byte) /\ Gives(mouse_fifo, minj, mb, aux)
    BY <1>2 DEF mb
  <2>4. HasRoomStill(Fifo(mouse_fifo, me, mrd, mb), mclr, minj, mr, mouse_port')
    BY <1>1, <1>3, <1>5, <2>1, <2>2, <2>3, RoomStep
  <2> QED
    BY <1>4, <2>4 DEF HasRoomStill
<1>8. /\ kclr' = WriteToKeyb(io) /\ mclr' = WriteToMouse(io)
      /\ WriteToKeyb(io) => kr' = KeybResponse(io.v) /\ inj' = <<>>
      /\ WriteToMouse(io) => mr' = MouseResponse(io.v) /\ minj' = <<>>
      /\ ~WriteToKeyb(io) => Says(inj, kr, inj', kr')
      /\ ~WriteToMouse(io) => Says(minj, mr, minj', mr')
      /\ SayTypes'
  BY Parts, Subclocks, Responds
<1>9. Len(kr') \in 0 .. 3 /\ Len(mr') \in 0 .. 3
  <2>1. Len(kr') \in Nat /\ Len(mr') \in Nat /\ Len(kr') <= 3 /\ Len(mr') <= 3
    BY <1>8 DEF SayTypes
  <2>2. \A x \in Nat : x <= 3 => x \in 0 .. 3
    OBVIOUS
  <2> QED
    BY <2>1, <2>2, Zenon
<1>10. (WriteToKeyb(io) => ~kclr) /\ (WriteToMouse(io) => ~mclr)
  BY Parts, Timing, Kinds DEF IInv
<1>11. Room(keyb_fifo', kclr', inj', kr', keyb_port')
  <2>1. CASE WriteToKeyb(io)
    <3>1. ~kclr /\ inj' = <<>> /\ Len(kr') \in 0 .. 3 /\ kclr' = TRUE
      BY <1>8, <1>9, <1>10, <2>1
    <3>2. Room(keyb_fifo', TRUE, <<>>, kr', keyb_port')
      BY <1>6, <3>1
    <3> QED
      BY <3>1, <3>2
  <2>2. CASE ~WriteToKeyb(io)
    <3>1. Says(inj, kr, inj', kr') /\ kclr' = FALSE
      BY <1>8, <2>2
    <3>2. Room(keyb_fifo', FALSE, inj', kr', keyb_port')
      BY <1>6, <3>1
    <3> QED
      BY <3>1, <3>2
  <2> QED
    BY <2>1, <2>2
<1>12. Room(mouse_fifo', mclr', minj', mr', mouse_port')
  <2>1. CASE WriteToMouse(io)
    <3>1. ~mclr /\ minj' = <<>> /\ Len(mr') \in 0 .. 3 /\ mclr' = TRUE
      BY <1>8, <1>9, <1>10, <2>1
    <3>2. Room(mouse_fifo', TRUE, <<>>, mr', mouse_port')
      BY <1>7, <3>1
    <3> QED
      BY <3>1, <3>2
  <2>2. CASE ~WriteToMouse(io)
    <3>1. Says(minj, mr, minj', mr') /\ mclr' = FALSE
      BY <1>8, <2>2
    <3>2. Room(mouse_fifo', FALSE, minj', mr', mouse_port')
      BY <1>7, <3>1
    <3> QED
      BY <3>1, <3>2
  <2> QED
    BY <2>1, <2>2
<1> QED
  BY <1>6, <1>7, <1>11, <1>12 DEF Rooms

LEMMA TailIs ==
    ASSUME NEW S, NEW q \in Seq(S), q # <<>>
    PROVE  Len(q) \in Nat \ {0} /\ \A i \in 1 .. Len(q) - 1 : Tail(q)[i] = q[i + 1]
  OBVIOUS

\* What is said of the byte a FIFO is given.
LEMMA SaidIs ==
    ASSUME NEW given \in Seq(Byte), NEW own \in Seq(Byte), own # <<>> => given = own
    PROVE  /\ Said(given, own) \in Seq(Marks)
           /\ Said(given, own) = <<>> <=> given = <<>>
           /\ given # <<>> => Head(Said(given, own)) \in {Other, Head(given)}
           /\ Stores(Others, own, Said(given, own))
<1>1. \A s \in Seq(Byte) : s \in Seq(Marks)
  BY DEF Marks
<1>2. <<Other>> \in Seq(Marks) /\ <<Other>> # <<>> /\ Head(<<Other>>) = Other /\ <<>> \in Seq(Marks)
  BY DEF Marks, Others
<1>3. CASE given = <<>>
  <2>1. own = <<>> /\ Said(given, own) = <<>>
    BY <1>3 DEF Said
  <2> QED
    BY <1>2, <1>3, <2>1 DEF Stores
<1>4. CASE given # <<>> /\ own # <<>>
  <2>1. Said(given, own) = given /\ given = own
    BY <1>4 DEF Said
  <2> QED
    BY <1>1, <1>4, <2>1 DEF Stores
<1>5. CASE given # <<>> /\ own = <<>>
  <2>1. Said(given, own) = <<Other>>
    BY <1>5 DEF Said
  <2> QED
    BY <1>2, <1>5, <2>1 DEF Stores, Others
<1> QED
  BY <1>3, <1>4, <1>5

\* What is said of a FIFO's bytes moves with them.
LEMMA MarkedStep ==
    ASSUME NEW q \in Seq(Byte), NEW w \in Seq(Marks), Len(w) = Len(q), Marked(q, w), NEW rd \in BOOLEAN,
           NEW given \in Seq(Byte), NEW own \in Seq(Byte), own # <<>> => given = own
    PROVE  /\ Len(Pushed(Popped(w, rd), Said(given, own))) = Len(Pushed(Popped(q, rd), given))
           /\ Marked(Pushed(Popped(q, rd), given), Pushed(Popped(w, rd), Said(given, own)))
<1> DEFINE p == Popped(q, rd)
           v == Popped(w, rd)
           s == Said(given, own)
<1>1. s \in Seq(Marks) /\ (s = <<>> <=> given = <<>>) /\ (given # <<>> => Head(s) \in {Other, Head(given)})
  BY SaidIs
<1>2. /\ p \in Seq(Byte) /\ Len(p) = IF rd /\ q # <<>> THEN Len(q) - 1 ELSE Len(q)
      /\ v \in Seq(Marks) /\ Len(v) = IF rd /\ w # <<>> THEN Len(w) - 1 ELSE Len(w)
  BY PoppedType
<1>3. w = <<>> <=> q = <<>>
  <2>1. (w = <<>> <=> Len(w) = 0) /\ (q = <<>> <=> Len(q) = 0)
    BY EmptySeq
  <2> QED
    BY <2>1
<1>4. Len(p) \in Nat /\ Len(v) = Len(p)
  BY <1>2, <1>3
<1>5. ASSUME NEW i \in 1 .. Len(p) PROVE v[i] = Other \/ v[i] = p[i]
  <2>1. CASE rd /\ q # <<>>
    <3>1. p = Tail(q) /\ v = Tail(w)
      BY <1>3, <2>1 DEF Popped
    <3>4. w # <<>> /\ Len(p) = Len(q) - 1 /\ i \in 1 .. Len(q) - 1 /\ Len(q) \in Nat
      BY <1>2, <1>3, <2>1
    <3>2. i + 1 \in 1 .. Len(q) /\ p[i] = q[i + 1]
      <4>1. \A j \in 1 .. Len(q) - 1 : Tail(q)[j] = q[j + 1]
        BY <2>1, TailIs
      <4> HIDE DEF p
      <4> QED
        BY <3>1, <3>4, <4>1
    <3>3. v[i] = w[i + 1]
      <4>1. \A j \in 1 .. Len(w) - 1 : Tail(w)[j] = w[j + 1]
        BY <3>4, TailIs
      <4> HIDE DEF v
      <4>2. i \in 1 .. Len(w) - 1
        BY <3>4
      <4> QED
        BY <3>1, <4>1, <4>2
    <3> QED
      BY <3>2, <3>3 DEF Marked
  <2>2. CASE ~(rd /\ q # <<>>)
    <3>1. p = q /\ v = w
      BY <1>3, <2>2 DEF Popped
    <3> QED
      BY <3>1 DEF Marked
  <2> QED
    BY <2>1, <2>2
<1> HIDE DEF p, v, s
<1>6. CASE given = <<>>
  <2>1. Pushed(p, given) = p /\ Pushed(v, s) = v
    BY <1>1, <1>6 DEF Pushed
  <2> QED
    BY <1>4, <1>5, <2>1 DEF Marked, p, v, s
<1>7. CASE given # <<>>
  <2> DEFINE g == Head(given)
             h == Head(s)
  <2>1. Pushed(p, given) = Append(p, g) /\ Pushed(v, s) = Append(v, h)
    BY <1>1, <1>7 DEF Pushed
  <2>2. g \in Byte /\ h \in Marks /\ (h = Other \/ h = g)
    BY <1>1, <1>7
  <2> HIDE DEF g, h
  <2>3. Len(Append(p, g)) = Len(p) + 1 /\ Len(Append(v, h)) = Len(p) + 1
    BY <1>2, <1>4, <2>2
  <2>4. \A i \in 1 .. Len(p) : Append(p, g)[i] = p[i] /\ Append(v, h)[i] = v[i]
    BY <1>2, <1>4, <2>2
  <2>5. Append(p, g)[Len(p) + 1] = g /\ Append(v, h)[Len(p) + 1] = h
    BY <1>2, <1>4, <2>2
  <2>6. Marked(Append(p, g), Append(v, h))
    <3> SUFFICES ASSUME NEW i \in 1 .. Len(p) + 1
                 PROVE  Append(v, h)[i] = Other \/ Append(v, h)[i] = Append(p, g)[i]
      BY <2>3 DEF Marked
    <3>1. i \in 1 .. Len(p) \/ i = Len(p) + 1
      BY <1>4
    <3> QED
      BY <1>5, <2>2, <2>4, <2>5, <3>1
  <2> QED
    BY <2>1, <2>3, <2>6 DEF p, v, s
<1> QED
  BY <1>6, <1>7

\* The inputs of a clock that the FIFOs take from.
LEMMA Stored ==
    ASSUME IInv, NEW io, NEW key, NEW aux, Ticks(io, key, aux)
    PROVE  /\ keyb_fifo' = IF Cmd(io, SelfTest) \/ kclr THEN <<>> ELSE Pushed(Popped(keyb_fifo, Reads60(io, FALSE)), KeybGiven(key))
           /\ mouse_fifo' = IF Cmd(io, SelfTest) \/ mclr THEN <<>> ELSE Pushed(Popped(mouse_fifo, Reads60(io, TRUE)), MouseGiven(aux))
           /\ keyb_said' = IF Cmd(io, SelfTest) \/ kclr THEN <<>>
                           ELSE Pushed(Popped(keyb_said, Reads60(io, FALSE)), Said(KeybGiven(key), inj))
           /\ mouse_said' = IF Cmd(io, SelfTest) \/ mclr THEN <<>>
                            ELSE Pushed(Popped(mouse_said, Reads60(io, TRUE)), Said(MouseGiven(aux), minj))
           /\ KeybGiven(key) \in Seq(Byte) /\ MouseGiven(aux) \in Seq(Byte)
           /\ inj # <<>> => KeybGiven(key) = inj
           /\ minj # <<>> => MouseGiven(aux) = minj
           /\ minj = <<>> /\ mouse_reply = <<>> /\ ~aux => MouseGiven(aux) = <<>>
<1>1. DataTypes /\ kclr \in BOOLEAN /\ mclr \in BOOLEAN /\ key \in BOOLEAN /\ aux \in BOOLEAN
  BY Parts, Subclocks
<1>2. /\ KeybGiven(key) \in Seq(Byte) /\ MouseGiven(aux) \in Seq(Byte)
      /\ \/ inj # <<>> /\ KeybGiven(key) = inj
         \/ inj = <<>> /\ KeybGiven(key) = keyb_reply /\ Len(keyb_fifo) < High /\ keyb_reply # <<>>
         \/ inj = <<>> /\ KeybGiven(key) # <<>> /\ key
         \/ inj = <<>> /\ KeybGiven(key) = <<>>
      /\ \/ minj # <<>> /\ MouseGiven(aux) = minj
         \/ minj = <<>> /\ MouseGiven(aux) = mouse_reply /\ Len(mouse_fifo) < High /\ mouse_reply # <<>>
         \/ minj = <<>> /\ MouseGiven(aux) # <<>> /\ aux
         \/ minj = <<>> /\ MouseGiven(aux) = <<>>
  <2>1. Sources
    BY DEF IInv
  <2>2. /\ key => keyb_port.state = "stop"
        /\ aux => mouse_port.state = "stop"
    BY Subclocks
  <2>3. menu \in Menus /\ command.translate \in BOOLEAN /\ translate_escape \in BOOLEAN
    BY Parts
  <2> QED
    BY <1>1, <2>1, <2>2, <2>3, GivenIs
<1>3. Len(keyb_fifo) < Depth /\ Len(mouse_fifo) < Depth
  <2>1. Len(keyb_fifo) \in Nat /\ Len(mouse_fifo) \in Nat
    BY <1>1 DEF DataTypes
  <2>2. Len(keyb_fifo) <= High + 3 /\ Len(mouse_fifo) <= High + 3
    BY DEF IInv, Rooms, Room
  <2>3. High \in Nat /\ Depth \in Nat /\ High + 4 <= Depth
    BY Ps2Assumption, MarginAssumption
  <2>4. \A x \in Nat : x <= High + 3 => x < Depth
    BY <2>3
  <2> QED
    BY <2>1, <2>2, <2>4, Zenon
<1> DEFINE ke == Cmd(io, SelfTest) \/ kclr
           me == Cmd(io, SelfTest) \/ mclr
           krd == Reads60(io, FALSE)
           mrd == Reads60(io, TRUE)
           kb == KeybGiven(key)
           mb == MouseGiven(aux)
           ks == Said(kb, inj)
           ms == Said(mb, minj)
<1>4. ke \in BOOLEAN /\ me \in BOOLEAN /\ krd \in BOOLEAN /\ mrd \in BOOLEAN
  BY <1>1, Kinds
<1>5. /\ keyb_fifo' = Fifo(keyb_fifo, ke, krd, kb) /\ mouse_fifo' = Fifo(mouse_fifo, me, mrd, mb)
      /\ keyb_said' = Fifo(keyb_said, ke, krd, ks) /\ mouse_said' = Fifo(mouse_said, me, mrd, ms)
  BY Subclocks DEF FifoClock, History
<1>6. kb \in Seq(Byte) /\ mb \in Seq(Byte) /\ keyb_fifo \in Seq(Byte) /\ mouse_fifo \in Seq(Byte)
  BY <1>1, <1>2 DEF DataTypes
<1>9. ks \in Seq(Marks) /\ ms \in Seq(Marks)
  <2>1. inj \in Seq(Byte) /\ minj \in Seq(Byte)
    BY <1>1 DEF DataTypes
  <2>2. (inj # <<>> => kb = inj) /\ (minj # <<>> => mb = minj)
    BY <1>2
  <2> HIDE DEF kb, mb
  <2> QED
    BY <1>6, <2>1, <2>2, SaidIs
<1>10. /\ keyb_said \in Seq(Marks) /\ Len(keyb_said) < Depth
       /\ mouse_said \in Seq(Marks) /\ Len(mouse_said) < Depth
  BY <1>3, Parts DEF SaidTypes
<1> HIDE DEF ke, me, krd, mrd, kb, mb, ks, ms
<1>7. /\ keyb_fifo' = IF ke THEN <<>> ELSE Pushed(Popped(keyb_fifo, krd), kb)
      /\ mouse_fifo' = IF me THEN <<>> ELSE Pushed(Popped(mouse_fifo, mrd), mb)
  BY <1>3, <1>4, <1>5, <1>6, FifoIs
<1>11. keyb_said' = IF ke THEN <<>> ELSE Pushed(Popped(keyb_said, krd), ks)
  BY <1>4, <1>5, <1>9, <1>10, FifoIs
<1>12. mouse_said' = IF me THEN <<>> ELSE Pushed(Popped(mouse_said, mrd), ms)
  BY <1>4, <1>5, <1>9, <1>10, FifoIs
<1>8. /\ keyb_fifo' = IF Cmd(io, SelfTest) \/ kclr THEN <<>> ELSE Pushed(Popped(keyb_fifo, Reads60(io, FALSE)), KeybGiven(key))
      /\ mouse_fifo' = IF Cmd(io, SelfTest) \/ mclr THEN <<>> ELSE Pushed(Popped(mouse_fifo, Reads60(io, TRUE)), MouseGiven(aux))
  BY <1>7, Zenon DEF ke, me, krd, mrd, kb, mb
<1>13. /\ keyb_said' = IF Cmd(io, SelfTest) \/ kclr THEN <<>>
                       ELSE Pushed(Popped(keyb_said, Reads60(io, FALSE)), Said(KeybGiven(key), inj))
       /\ mouse_said' = IF Cmd(io, SelfTest) \/ mclr THEN <<>>
                        ELSE Pushed(Popped(mouse_said, Reads60(io, TRUE)), Said(MouseGiven(aux), minj))
  BY <1>11, <1>12, Zenon DEF ke, me, krd, mrd, kb, mb, ks, ms
<1> QED
  BY <1>2, <1>8, <1>13, Zenon

LEMMA MarkingStep ==
    ASSUME IInv, NEW io, NEW key, NEW aux, Ticks(io, key, aux)
    PROVE  Marking' /\ SaidTypes'
<1>1. /\ keyb_fifo \in Seq(Byte) /\ mouse_fifo \in Seq(Byte) /\ inj \in Seq(Byte) /\ minj \in Seq(Byte)
      /\ keyb_said \in Seq(Marks) /\ Len(keyb_said) = Len(keyb_fifo)
      /\ mouse_said \in Seq(Marks) /\ Len(mouse_said) = Len(mouse_fifo)
  BY Parts DEF DataTypes, SaidTypes
<1>2. Marked(keyb_fifo, keyb_said) /\ Marked(mouse_fifo, mouse_said)
  BY DEF IInv, Marking
<1>3. /\ KeybGiven(key) \in Seq(Byte) /\ MouseGiven(aux) \in Seq(Byte)
      /\ inj # <<>> => KeybGiven(key) = inj
      /\ minj # <<>> => MouseGiven(aux) = minj
  BY Stored
<1> DEFINE ke == Cmd(io, SelfTest) \/ kclr
           me == Cmd(io, SelfTest) \/ mclr
           krd == Reads60(io, FALSE)
           mrd == Reads60(io, TRUE)
           kb == KeybGiven(key)
           mb == MouseGiven(aux)
           kq == Pushed(Popped(keyb_fifo, krd), kb)
           mq == Pushed(Popped(mouse_fifo, mrd), mb)
           kw == Pushed(Popped(keyb_said, krd), Said(kb, inj))
           mw == Pushed(Popped(mouse_said, mrd), Said(mb, minj))
<1>4. krd \in BOOLEAN /\ mrd \in BOOLEAN
  BY Kinds
<1>5. /\ keyb_fifo' = (IF ke THEN <<>> ELSE kq) /\ keyb_said' = (IF ke THEN <<>> ELSE kw)
      /\ mouse_fifo' = (IF me THEN <<>> ELSE mq) /\ mouse_said' = (IF me THEN <<>> ELSE mw)
  BY Stored
<1>12. /\ kb \in Seq(Byte) /\ (inj # <<>> => kb = inj)
       /\ mb \in Seq(Byte) /\ (minj # <<>> => mb = minj)
  BY <1>3
<1> HIDE DEF ke, me, krd, mrd, kb, mb
<1>6. Len(kw) = Len(kq) /\ Marked(kq, kw)
  <2>1. /\ keyb_fifo \in Seq(Byte) /\ keyb_said \in Seq(Marks) /\ Len(keyb_said) = Len(keyb_fifo)
        /\ Marked(keyb_fifo, keyb_said) /\ krd \in BOOLEAN /\ kb \in Seq(Byte) /\ inj \in Seq(Byte) /\ (inj # <<>> => kb = inj)
    BY <1>1, <1>2, <1>4, <1>12
  <2> QED
    BY <2>1, MarkedStep, SMTT(60)
<1>7. Len(mw) = Len(mq) /\ Marked(mq, mw)
  <2>1. /\ mouse_fifo \in Seq(Byte) /\ mouse_said \in Seq(Marks) /\ Len(mouse_said) = Len(mouse_fifo)
        /\ Marked(mouse_fifo, mouse_said) /\ mrd \in BOOLEAN /\ mb \in Seq(Byte) /\ minj \in Seq(Byte) /\ (minj # <<>> => mb = minj)
    BY <1>1, <1>2, <1>4, <1>12
  <2> QED
    BY <2>1, MarkedStep, SMTT(60)
<1>8. kw \in Seq(Marks) /\ mw \in Seq(Marks)
  <2>1. Said(kb, inj) \in Seq(Marks) /\ Said(mb, minj) \in Seq(Marks)
    BY <1>1, <1>12, SaidIs
  <2>2. Popped(keyb_said, krd) \in Seq(Marks) /\ Popped(mouse_said, mrd) \in Seq(Marks)
    BY <1>1, <1>4, PoppedType
  <2> QED
    BY <2>1, <2>2, PushedType
<1> HIDE DEF kq, kw, mq, mw
<1>9. <<>> \in Seq(Marks) /\ Marked(<<>>, <<>>) /\ Len(<<>>) = 0
  BY DEF Marked
<1>10. Marked(keyb_fifo', keyb_said') /\ Len(keyb_said') = Len(keyb_fifo') /\ keyb_said' \in Seq(Marks)
  BY <1>5, <1>6, <1>8, <1>9
<1>11. Marked(mouse_fifo', mouse_said') /\ Len(mouse_said') = Len(mouse_fifo') /\ mouse_said' \in Seq(Marks)
  BY <1>5, <1>7, <1>8, <1>9
<1> QED
  BY <1>10, <1>11 DEF Marking, SaidTypes

\* A byte that is a responder's is the one the program reads.
LEMMA HeadSaid ==
    ASSUME NEW q \in Seq(Byte), NEW w \in Seq(Marks), Len(w) = Len(q), Marked(q, w), q # <<>>
    PROVE  w # <<>> /\ (Head(w) \notin Others => Head(w) = Head(q))
<1>1. Len(q) \in Nat \ {0} /\ 1 \in 1 .. Len(q)
  BY EmptySeq
<1>2. w # <<>> /\ Head(w) = w[1] /\ Head(q) = q[1]
  BY <1>1
<1>3. w[1] = Other \/ w[1] = q[1]
  BY <1>1 DEF Marked
<1> QED
  BY <1>2, <1>3 DEF Others

LEMMA DuesStep ==
    ASSUME IInv, NEW io, NEW key, NEW aux, Ticks(io, key, aux)
    PROVE  Dues'
<1>1. KeybResponse(io.v) \in Answers /\ MouseResponse(io.v) \in Answers /\ <<>> \in Answers
  BY ResponseIs DEF Answers
<1>2. /\ response' = KeybResponse(io.v) \/ response' = <<>> \/ response' = response
      /\ m_response' = MouseResponse(io.v) \/ m_response' = <<>> \/ m_response' = m_response
  BY Subclocks, Zenon DEF History
<1> QED
  BY <1>1, <1>2 DEF IInv, Dues

\* The commands a program gives are the menu's.
LEMMA Commands ==
    ASSUME IInv, NEW io, NEW key, NEW aux, Ticks(io, key, aux)
    PROVE  last_command' = last_command \/ last_command' \in Controls(menu)
<1>1. menu \in Menus /\ io \in menu.io \union {NoIo}
  BY Parts, Subclocks
<1>2. Writes(io, Control) => io.v \in Controls(menu)
  <2>1. Writes(io, Control) => io # NoIo
    BY Kinds
  <2>2. Writes(io, Control) => io \in menu.io /\ io.dir = "write" /\ io.port = Control
    BY <1>1, <2>1 DEF Writes
  <2> QED
    BY <2>2 DEF Controls
<1>3. last_command' = IF Writes(io, Control) THEN io.v ELSE last_command
  <2>1. ControlClock(io)
    BY Subclocks
  <2> QED
    BY <2>1, Zenon DEF ControlClock
<1> QED
  BY <1>2, <1>3

LEMMA OthersApart == AnswerBytes \cap Others = {} /\ \A s \in Seq(Byte) : s \in Seq(Marks)
<1>1. AnswerBytes \cap Others = {}
  BY DEF AnswerBytes, Others, Other
<1>2. \A s \in Seq(Byte) : s \in Seq(Marks)
  BY DEF Marks
<1> QED
  BY <1>1, <1>2

\* A clock of one answer, whichever the device.
LEMMA AnswerMoves ==
    ASSUME NEW due \in Answers, NEW heard, NEW q \in Seq(Marks), NEW byte \in Seq(Byte), NEW rest \in Seq(Byte), Len(byte) <= 1,
           NEW clear \in BOOLEAN, clear => byte = <<>>, Answer(Others, due, heard, q, clear, byte, rest),
           NEW rd \in BOOLEAN, clear => ~rd, NEW given \in Seq(Marks), Stores(Others, byte, given),
           NEW byte2, NEW rest2, Says(byte, rest, byte2, rest2)
    PROVE  Answer(Others, due, Hears(Others, due, heard, q, rd), IF clear THEN <<>> ELSE Pushed(Popped(q, rd), given), FALSE, byte2, rest2)
<1>1. due \in Seq(AnswerBytes) /\ Len(due) <= 3
  BY AnswersAre
<1>2. AnswerBytes \cap Others = {} /\ byte \in Seq(Marks) /\ rest \in Seq(Marks)
  BY OthersApart
<1> QED
  BY <1>1, <1>2, AnswerStep

\* A device that is announced without a byte has one on its way.
LEMMA AnnouncedStep ==
    ASSUME NEW due, due # <<>>, NEW clear \in BOOLEAN, NEW full, NEW q \in Seq(Byte), NEW byte, NEW rest, NEW byte2, NEW rest2,
           NEW given \in Seq(Byte), Announced(due, clear, full, q, byte), full \/ q # <<>>, Says(byte, rest, byte2, rest2),
           byte # <<>> => given = byte, ~clear => Pushed(q, given) = <<>>, clear => byte = <<>> /\ rest # <<>> /\ io_gap' = 1
    PROVE  io_gap' = 1 /\ byte2 # <<>>
<1>1. CASE clear
  <2>1. io_gap' = 1
    BY <1>1
  <2>2. byte2 = <<Head(rest)>>
    BY <1>1 DEF Says
  <2> QED
    BY <2>1, <2>2
<1>2. CASE ~clear
  <2>1. Pushed(q, given) = <<>>
    BY <1>2
  <2>2. q = <<>> /\ given = <<>>
    <3>1. Len(Pushed(q, given)) = IF given # <<>> THEN Len(q) + 1 ELSE Len(q)
      BY PushedType
    <3>2. Len(<<>>) = 0 /\ Len(q) \in Nat
      OBVIOUS
    <3>3. given = <<>>
      BY <2>1, <3>1, <3>2
    <3> QED
      BY <2>1, <3>3 DEF Pushed
  <2>3. byte # <<>>
    BY <1>2, <2>2 DEF Announced
  <2> QED
    BY <2>2, <2>3
<1> QED
  BY <1>1, <1>2

LEMMA AnswerBegins ==
    ASSUME NEW U, NEW due, NEW q, NEW byte
    PROVE  Answer(U, due, <<>>, q, TRUE, byte, due)
<1>1. <<>> \in Seq(AnswerBytes)
  OBVIOUS
<1> QED
  BY <1>1 DEF Answer

LEMMA NoAnswer ==
    ASSUME NEW U, NEW q, NEW clear, NEW byte, NEW rest
    PROVE  Answer(U, <<>>, <<>>, q, clear, byte, rest)
<1>1. <<>> \in Seq(AnswerBytes)
  OBVIOUS
<1> QED
  BY <1>1 DEF Answer

LEMMA MouseAnswerStep ==
    ASSUME IInv, NEW io, NEW key, NEW aux, Ticks(io, key, aux)
    PROVE  MouseAnswer'
<1> DEFINE blind == (Reads(io, Data) /\ ~polled) \/ Cmd(io, SelfTest)
           rd == Reads60(io, TRUE)
<1>1. /\ Answer(Others, m_response, m_answer, mouse_said, mclr, minj, mr)
      /\ Announced(m_response, mclr, mousebufferfull, mouse_fifo, minj)
  BY DEF IInv, MouseAnswer
<1>2. /\ mclr' = WriteToMouse(io)
      /\ WriteToMouse(io) => mr' = MouseResponse(io.v) /\ minj' = <<>>
      /\ ~WriteToMouse(io) => Says(minj, mr, minj', mr')
  BY Parts, Subclocks, Responds
<1>3. /\ m_response' = IF WriteToMouse(io) THEN MouseResponse(io.v) ELSE IF blind THEN <<>> ELSE m_response
      /\ m_answer' = IF WriteToMouse(io) \/ blind THEN <<>>
                     ELSE IF rd THEN Heard(m_response, m_answer, MouseRead) ELSE m_answer
  BY Subclocks DEF History
<1>4. rd \in BOOLEAN /\ (rd => Reads(io, Data) /\ mousebufferfull /\ io # NoIo) /\ (Cmd(io, SelfTest) => blind)
  BY Kinds
<1>5. /\ m_response \in Answers /\ mouse_fifo \in Seq(Byte) /\ minj \in Seq(Byte) /\ mr \in Seq(Byte) /\ Len(minj) <= 1
      /\ mclr \in BOOLEAN /\ (mclr => minj = <<>> /\ io_gap = 2)
      /\ mouse_said \in Seq(Marks) /\ Len(mouse_said) = Len(mouse_fifo) /\ Marked(mouse_fifo, mouse_said)
  BY Parts DEF IInv, Dues, DataTypes, Taken, SaidTypes, Marking
<1>6. /\ io # NoIo => io_gap = 0 /\ ~mclr
      /\ io = NoIo /\ io_gap > 0 => io_gap' = io_gap - 1
      /\ io_gap \in 0 .. 2
  BY Parts, Timing DEF IInv
<1>7. rd => ~mclr
  BY <1>4, <1>6
<1>8. rd /\ m_response # <<>> => mouse_fifo # <<>>
  BY <1>1, <1>4, <1>6, <1>7 DEF Announced
<1>9. MouseGiven(aux) \in Seq(Byte) /\ (minj # <<>> => MouseGiven(aux) = minj)
  BY Stored
<1>10. Said(MouseGiven(aux), minj) \in Seq(Marks) /\ Stores(Others, minj, Said(MouseGiven(aux), minj))
  BY <1>5, <1>9, SaidIs
<1>11. ~blind => /\ mouse_fifo' = IF mclr THEN <<>> ELSE Pushed(Popped(mouse_fifo, rd), MouseGiven(aux))
                 /\ mouse_said' = IF mclr THEN <<>> ELSE Pushed(Popped(mouse_said, rd), Said(MouseGiven(aux), minj))
  <2>1. /\ mouse_fifo' = IF Cmd(io, SelfTest) \/ mclr THEN <<>> ELSE Pushed(Popped(mouse_fifo, rd), MouseGiven(aux))
        /\ mouse_said' = IF Cmd(io, SelfTest) \/ mclr THEN <<>>
                         ELSE Pushed(Popped(mouse_said, rd), Said(MouseGiven(aux), minj))
    BY Stored
  <2> QED
    BY <1>4, <2>1
<1>12. mousebufferfull' => ~Reads(io, Data) /\ (mousebufferfull \/ mouse_fifo # <<>>)
  BY Subclocks DEF OutputClock
<1> HIDE DEF blind, rd
<1>13. Answer(Others, m_response', m_answer', mouse_said', mclr', minj', mr')
  <2>1. CASE WriteToMouse(io)
    <3>1. m_response' = MouseResponse(io.v) /\ m_answer' = <<>> /\ mclr' = TRUE /\ mr' = MouseResponse(io.v)
      BY <1>2, <1>3, <2>1
    <3> QED
      BY <3>1, AnswerBegins
  <2>2. CASE ~WriteToMouse(io) /\ blind
    <3>1. m_response' = <<>> /\ m_answer' = <<>>
      BY <1>3, <2>2
    <3> QED
      BY <3>1, NoAnswer
  <2>3. CASE ~WriteToMouse(io) /\ ~blind
    <3>1. m_response' = m_response /\ mclr' = FALSE /\ Says(minj, mr, minj', mr')
      BY <1>2, <1>3, <2>3
    <3>2. m_answer' = Hears(Others, m_response, m_answer, mouse_said, rd)
      <4>1. m_answer' = IF rd THEN Heard(m_response, m_answer, MouseRead) ELSE m_answer
        BY <1>3, <2>3
      <4>2. CASE rd /\ m_response # <<>>
        <5>1. mouse_fifo # <<>>
          BY <1>8, <4>2
        <5>2. mouse_said # <<>> /\ (Head(mouse_said) \notin Others => Head(mouse_said) = Head(mouse_fifo))
          BY <1>5, <5>1, HeadSaid
        <5>3. MouseRead.said = Head(mouse_said) /\ MouseRead.byte = Head(mouse_fifo)
          BY <5>1 DEF MouseRead
        <5>4. MouseRead.said = Other <=> Head(mouse_said) \in Others
          BY <5>3 DEF Others
        <5> QED
          BY <4>1, <4>2, <5>2, <5>3, <5>4, Zenon DEF Hears, Heard
      <4>3. CASE ~(rd /\ m_response # <<>>)
        BY <4>1, <4>3, Zenon DEF Hears, Heard
      <4> QED
        BY <4>2, <4>3
    <3>3. mouse_said' = IF mclr THEN <<>> ELSE Pushed(Popped(mouse_said, rd), Said(MouseGiven(aux), minj))
      BY <1>11, <2>3
    <3>4. Answer(Others, m_response, Hears(Others, m_response, m_answer, mouse_said, rd),
                 IF mclr THEN <<>> ELSE Pushed(Popped(mouse_said, rd), Said(MouseGiven(aux), minj)), FALSE, minj', mr')
      BY <1>1, <1>4, <1>5, <1>7, <1>10, <3>1, AnswerMoves
    <3> QED
      BY <3>1, <3>2, <3>3, <3>4, Zenon
  <2> QED
    BY <2>1, <2>2, <2>3
<1>14. ASSUME m_response' # <<>>, ~mclr', mousebufferfull', mouse_fifo' = <<>>
       PROVE  io_gap' = 1 /\ minj' # <<>>
  <2>1. ~WriteToMouse(io) /\ ~blind /\ m_response # <<>> /\ ~rd /\ Says(minj, mr, minj', mr')
    BY <1>2, <1>3, <1>4, <1>12, <1>14
  <2>2. ~mclr => Pushed(mouse_fifo, MouseGiven(aux)) = <<>>
    BY <1>11, <1>14, <2>1 DEF Popped
  <2>3. mclr => minj = <<>> /\ mr # <<>> /\ io_gap' = 1
    BY <1>1, <1>5, <1>6, <2>1 DEF Answer
  <2>4. mousebufferfull \/ mouse_fifo # <<>>
    BY <1>12, <1>14
  <2>5. mouse_fifo \in Seq(Byte) /\ mclr \in BOOLEAN /\ MouseGiven(aux) \in Seq(Byte) /\ (minj # <<>> => MouseGiven(aux) = minj)
    BY <1>5, <1>9
  <2> DEFINE given == MouseGiven(aux)
  <2> HIDE DEF given
  <2> QED
    BY <1>1, <2>1, <2>2, <2>3, <2>4, <2>5, AnnouncedStep DEF given
<1> QED
  BY <1>13, <1>14 DEF MouseAnswer, Announced

\* At work on the keyboard alone, nothing of the aux port moves.
LEMMA SilentStep ==
    ASSUME IInv, Silent, MouseSilent, NEW io, NEW key, NEW aux, Ticks(io, key, aux)
    PROVE  Silent' /\ ~aux /\ ~WriteToMouse(io)
<1>1. /\ mouse_fifo = <<>> /\ mouse_reply = <<>> /\ minj = <<>> /\ mr = <<>> /\ ~mousebufferfull
      /\ mouse_port.state # "bits" /\ mouse_port.state # "stop"
      /\ last_command # WriteMouseOutput /\ last_command # WriteMouse
  BY DEF Silent
<1>2. ~aux
  BY <1>1, Subclocks
<1>3. ~WriteToMouse(io) /\ ~Parameter(io, WriteMouseOutput)
  BY <1>1 DEF WriteToMouse, Parameter
<1>4. last_command' # WriteMouseOutput /\ last_command' # WriteMouse
  <2>1. WriteMouse \notin Controls(menu) /\ WriteMouseOutput \notin Controls(menu)
    BY DEF MouseSilent
  <2> QED
    BY <1>1, <2>1, Commands
<1>5. mouse_reply' = <<>>
  <2>1. mouse_reply' = IF Parameter(io, WriteMouseOutput) THEN <<io.v>> ELSE IF MouseReplyDone /\ ~aux THEN <<>> ELSE mouse_reply
    BY Subclocks DEF ReplyClock
  <2> QED
    BY <1>1, <1>3, <2>1
<1>6. minj' = <<>> /\ mr' = <<>>
  <2>1. Says(minj, mr, minj', mr')
    BY <1>3, Parts, Subclocks, Responds
  <2> QED
    BY <1>1, <2>1 DEF Says
<1>7. mouse_fifo' = <<>>
  <2>1. MouseGiven(aux) = <<>>
    BY <1>1, <1>2, Stored
  <2>2. mouse_fifo' = IF Cmd(io, SelfTest) \/ mclr THEN <<>> ELSE Pushed(Popped(mouse_fifo, Reads60(io, TRUE)), MouseGiven(aux))
    BY Stored
  <2> QED
    BY <1>1, <2>1, <2>2, Zenon DEF Pushed, Popped
<1>8. ~mousebufferfull'
  BY <1>1, Subclocks DEF OutputClock
<1>9. mouse_port'.state # "bits" /\ mouse_port'.state # "stop"
  <2>1. Frame(mouse_port) = 0 /\ menu.aux = {}
    BY <1>1 DEF Frame, MouseSilent
  <2>2. Frame(mouse_port') \in 0 .. 1 /\ (Frame(mouse_port') <= Frame(mouse_port) \/ (Len(mouse_fifo) < High /\ menu.aux # {}))
    BY FramesStep
  <2>3. Frame(mouse_port') = 0
    BY <2>1, <2>2
  <2> QED
    BY <2>3 DEF Frame
<1> QED
  BY <1>2, <1>3, <1>4, <1>5, <1>6, <1>7, <1>8, <1>9 DEF Silent

LEMMA KeybAnswerStep ==
    ASSUME IInv, NEW io, NEW key, NEW aux, Ticks(io, key, aux)
    PROVE  KeybAnswer'
<1> SUFFICES ASSUME MouseSilent
             PROVE  /\ Silent'
                    /\ Answer(Others, response', answer', keyb_said', kclr', inj', kr')
                    /\ response' # <<>> /\ ~kclr' /\ outputbufferfull' /\ keyb_fifo' = <<>> => io_gap' = 1 /\ inj' # <<>>
  <2>1. menu' = menu
    BY Subclocks
  <2>2. MouseSilent' = MouseSilent
    BY <2>1 DEF MouseSilent, Controls
  <2> QED
    BY <2>2 DEF KeybAnswer, Announced
<1> DEFINE blind == (Reads(io, Data) /\ ~polled) \/ Cmd(io, SelfTest)
           rd == Reads60(io, FALSE)
<1>1. /\ Silent /\ Answer(Others, response, answer, keyb_said, kclr, inj, kr)
      /\ Announced(response, kclr, outputbufferfull, keyb_fifo, inj)
  BY DEF IInv, KeybAnswer
<1>2. Silent' /\ ~WriteToMouse(io)
  BY <1>1, SilentStep
<1>4. /\ kclr' = WriteToKeyb(io)
      /\ WriteToKeyb(io) => kr' = KeybResponse(io.v) /\ inj' = <<>>
      /\ ~WriteToKeyb(io) => Says(inj, kr, inj', kr')
  BY Parts, Subclocks, Responds
<1>5. /\ response' = IF WriteToKeyb(io) THEN KeybResponse(io.v) ELSE IF blind THEN <<>> ELSE response
      /\ answer' = IF WriteToKeyb(io) \/ blind THEN <<>>
                   ELSE IF rd THEN Heard(response, answer, KeybRead) ELSE answer
  BY Subclocks DEF History
<1>6. rd \in BOOLEAN /\ (rd => Reads(io, Data) /\ outputbufferfull /\ io # NoIo) /\ (Cmd(io, SelfTest) => blind)
  BY Kinds
<1>7. /\ response \in Answers /\ keyb_fifo \in Seq(Byte) /\ inj \in Seq(Byte) /\ kr \in Seq(Byte) /\ Len(inj) <= 1
      /\ kclr \in BOOLEAN /\ (kclr => inj = <<>> /\ io_gap = 2)
      /\ keyb_said \in Seq(Marks) /\ Len(keyb_said) = Len(keyb_fifo) /\ Marked(keyb_fifo, keyb_said)
  BY Parts DEF IInv, Dues, DataTypes, Taken, SaidTypes, Marking
<1>8. /\ io # NoIo => io_gap = 0 /\ ~kclr
      /\ io = NoIo /\ io_gap > 0 => io_gap' = io_gap - 1
      /\ io_gap \in 0 .. 2
  BY Parts, Timing DEF IInv
<1>9. KeybGiven(key) \in Seq(Byte) /\ (inj # <<>> => KeybGiven(key) = inj)
  BY Stored
<1>3. Said(KeybGiven(key), inj) \in Seq(Marks) /\ Stores(Others, inj, Said(KeybGiven(key), inj))
  BY <1>7, <1>9, SaidIs
<1>10. rd => ~kclr
  BY <1>6, <1>8
<1>11. rd /\ response # <<>> => keyb_fifo # <<>>
  BY <1>1, <1>6, <1>8, <1>10 DEF Announced
<1>12. OutputTypes /\ ~mousebufferfull /\ mouse_fifo = <<>>
  BY <1>1, Parts DEF Silent
<1>13. outputbufferfull' => ~Reads(io, Data) /\ (outputbufferfull \/ keyb_fifo # <<>>)
  BY <1>12, Subclocks DEF OutputClock, OffersByte, OutputIdle
<1>14. ~blind => /\ keyb_fifo' = IF kclr THEN <<>> ELSE Pushed(Popped(keyb_fifo, rd), KeybGiven(key))
                 /\ keyb_said' = IF kclr THEN <<>> ELSE Pushed(Popped(keyb_said, rd), Said(KeybGiven(key), inj))
  <2>1. /\ keyb_fifo' = IF Cmd(io, SelfTest) \/ kclr THEN <<>> ELSE Pushed(Popped(keyb_fifo, rd), KeybGiven(key))
        /\ keyb_said' = IF Cmd(io, SelfTest) \/ kclr THEN <<>>
                        ELSE Pushed(Popped(keyb_said, rd), Said(KeybGiven(key), inj))
    BY Stored
  <2> QED
    BY <1>6, <2>1
<1> HIDE DEF blind, rd
<1>16. Answer(Others, response', answer', keyb_said', kclr', inj', kr')
  <2>1. CASE WriteToKeyb(io)
    <3>1. response' = KeybResponse(io.v) /\ answer' = <<>> /\ kclr' = TRUE /\ kr' = KeybResponse(io.v)
      BY <1>4, <1>5, <2>1
    <3> QED
      BY <3>1, AnswerBegins
  <2>2. CASE ~WriteToKeyb(io) /\ blind
    <3>1. response' = <<>> /\ answer' = <<>>
      BY <1>5, <2>2
    <3> QED
      BY <3>1, NoAnswer
  <2>3. CASE ~WriteToKeyb(io) /\ ~blind
    <3>1. response' = response /\ kclr' = FALSE /\ Says(inj, kr, inj', kr')
      BY <1>4, <1>5, <2>3
    <3>2. answer' = Hears(Others, response, answer, keyb_said, rd)
      <4>1. answer' = IF rd THEN Heard(response, answer, KeybRead) ELSE answer
        BY <1>5, <2>3
      <4>2. CASE rd /\ response # <<>>
        <5>1. keyb_fifo # <<>>
          BY <1>11, <4>2
        <5>2. keyb_said # <<>> /\ (Head(keyb_said) \notin Others => Head(keyb_said) = Head(keyb_fifo))
          BY <1>7, <5>1, HeadSaid
        <5>3. KeybRead.said = Head(keyb_said) /\ KeybRead.byte = Head(keyb_fifo)
          BY <5>1, <5>2 DEF KeybRead, KeybData
        <5>4. KeybRead.said = Other <=> Head(keyb_said) \in Others
          BY <5>3 DEF Others
        <5> QED
          BY <4>1, <4>2, <5>2, <5>3, <5>4, Zenon DEF Hears, Heard
      <4>3. CASE ~(rd /\ response # <<>>)
        BY <4>1, <4>3, Zenon DEF Hears, Heard
      <4> QED
        BY <4>2, <4>3
    <3>3. keyb_said' = IF kclr THEN <<>> ELSE Pushed(Popped(keyb_said, rd), Said(KeybGiven(key), inj))
      BY <1>14, <2>3
    <3>4. Answer(Others, response, Hears(Others, response, answer, keyb_said, rd),
                 IF kclr THEN <<>> ELSE Pushed(Popped(keyb_said, rd), Said(KeybGiven(key), inj)), FALSE, inj', kr')
      BY <1>1, <1>3, <1>6, <1>7, <1>10, <3>1, AnswerMoves
    <3> QED
      BY <3>1, <3>2, <3>3, <3>4, Zenon
  <2> QED
    BY <2>1, <2>2, <2>3
<1>17. ASSUME response' # <<>>, ~kclr', outputbufferfull', keyb_fifo' = <<>>
       PROVE  io_gap' = 1 /\ inj' # <<>>
  <2>1. ~WriteToKeyb(io) /\ ~blind /\ response # <<>> /\ ~rd /\ Says(inj, kr, inj', kr')
    BY <1>4, <1>5, <1>6, <1>13, <1>17
  <2>2. ~kclr => Pushed(keyb_fifo, KeybGiven(key)) = <<>>
    BY <1>14, <1>17, <2>1 DEF Popped
  <2>3. kclr => inj = <<>> /\ kr # <<>> /\ io_gap' = 1
    BY <1>1, <1>7, <1>8, <2>1 DEF Answer
  <2>4. outputbufferfull \/ keyb_fifo # <<>>
    BY <1>13, <1>17
  <2>5. keyb_fifo \in Seq(Byte) /\ kclr \in BOOLEAN /\ KeybGiven(key) \in Seq(Byte) /\ (inj # <<>> => KeybGiven(key) = inj)
    BY <1>7, <1>9
  <2> DEFINE given == KeybGiven(key)
  <2> HIDE DEF given
  <2> QED
    BY <1>1, <2>1, <2>2, <2>3, <2>4, <2>5, AnnouncedStep DEF given
<1> QED
  BY <1>2, <1>16, <1>17

LEMMA TypeStep ==
    ASSUME IInv, NEW io, NEW key, NEW aux, Ticks(io, key, aux)
    PROVE  TypeOK' /\ Sources'
<1>1. Taken' /\ SayTypes' /\ OutputTypes' /\ ControlTypes' /\ kclr' \in BOOLEAN /\ mclr' \in BOOLEAN
  BY TakenStep
<1>2. /\ keyb_fifo' \in Seq(Byte) /\ mouse_fifo' \in Seq(Byte)
      /\ Len(keyb_fifo') < Depth /\ Len(mouse_fifo') < Depth
  BY RoomsStep
<1>3. Len(keyb_fifo') <= Depth /\ Len(mouse_fifo') <= Depth
  <2>1. Len(keyb_fifo') \in Nat /\ Len(mouse_fifo') \in Nat
    BY <1>2
  <2>2. \A x \in Nat : x < Depth => x <= Depth
    BY Ps2Assumption
  <2> QED
    BY <1>2, <2>1, <2>2, Zenon
<1>4. /\ keyb_port' \in PortType /\ mouse_port' \in PortType
      /\ keyb_port'.state = "stop" => keyb_port'.byte \in menu'.keys
      /\ mouse_port'.state = "stop" => mouse_port'.byte \in menu'.aux
  BY FramesStep
<1>5. /\ keyb_reply' \in Seq(Byte) /\ Len(keyb_reply') <= 1
      /\ mouse_reply' \in Seq(Byte) /\ Len(mouse_reply') <= 1
  <2>1. Access(io)
    BY Parts, Subclocks, MenuAccess
  <2> QED
    BY <2>1, Parts, Subclocks, RepliesTypes
<1>6. menu' \in Menus
  BY Parts, Subclocks
<1>7. keyb_fifo_q_last' \in Byte
  <2>1. keyb_fifo_q_last' = IF keyb_fifo # <<>> THEN Head(keyb_fifo) ELSE keyb_fifo_q_last
    BY Subclocks DEF FifoClock
  <2>2. keyb_fifo \in Seq(Byte) /\ keyb_fifo_q_last \in Byte
    BY Parts DEF DataTypes
  <2>3. keyb_fifo # <<>> => Head(keyb_fifo) \in Byte
    BY <2>2
  <2> QED
    BY <2>1, <2>2, <2>3
<1>8. translate_escape' \in BOOLEAN
  <2>1. EscapeClock(key)
    BY Subclocks DEF PortClock
  <2> QED
    BY <2>1 DEF EscapeClock
<1>9. inj_ctr' \in 0 .. F1Period - 1
  <2>1. inj_ctr' = 0
    BY Parts, Subclocks, Responds
  <2> QED
    BY <2>1, Ps2Assumption
<1>10. io_gap' \in 0 .. 2
  BY Parts, Timing DEF IInv
<1>11. polled' \in BOOLEAN
  <2>1. polled' = IF io = NoIo THEN polled ELSE Reads(io, Control) /\ outputbufferfull
    BY Subclocks DEF History
  <2>2. polled \in BOOLEAN
    BY Parts
  <2> QED
    BY <2>1, <2>2
<1>14. /\ keyb_said' \in Seq(Byte \union {Other}) /\ Len(keyb_said') = Len(keyb_fifo')
       /\ mouse_said' \in Seq(Byte \union {Other}) /\ Len(mouse_said') = Len(mouse_fifo')
  BY MarkingStep DEF SaidTypes, Marks, Others
<1>12. TypeOK'
  <2>1. /\ inj' \in Seq(Byte) /\ minj' \in Seq(Byte)
        /\ kr' \in Seq(Byte) /\ Len(kr') <= 3 /\ mr' \in Seq(Byte) /\ Len(mr') <= 3
    BY <1>1 DEF SayTypes
  <2>2. /\ outputbufferfull' \in BOOLEAN /\ mousebufferfull' \in BOOLEAN
        /\ irq_keyb' \in BOOLEAN /\ irq_mouse' \in BOOLEAN
        /\ inputbufferfull' \in BOOLEAN /\ input_write_done' \in BOOLEAN
        /\ input_for_mouse' \in BOOLEAN
    BY <1>1 DEF OutputTypes
  <2>3. /\ last_command' \in Byte /\ expecting_port_60h' \in BOOLEAN
        /\ command' \in [translate: BOOLEAN, mouse_visible: BOOLEAN, system: BOOLEAN,
                        irq_mouse: BOOLEAN, irq_keyb: BOOLEAN]
        /\ disable_mouse' \in BOOLEAN /\ disable_keyboard' \in BOOLEAN
        /\ a20' \in BOOLEAN /\ reset_pulse' \in 0 .. PulseLength
    BY <1>1 DEF ControlTypes
  <2> QED
    BY <1>1, <1>2, <1>3, <1>4, <1>5, <1>6, <1>7, <1>8, <1>9, <1>10, <1>11, <1>14, <2>1, <2>2, <2>3 DEF TypeOK
<1>13. Sources'
  BY <1>1, <1>4, <1>5 DEF Sources, SayTypes
<1> QED
  BY <1>12, <1>13

LEMMA ClockKeeps ==
    ASSUME IInv, NEW io, NEW key, NEW aux, Ticks(io, key, aux)
    PROVE  IInv'
<1>1. TypeOK' /\ Sources'
  BY TypeStep
<1>2. Taken'
  BY TakenStep
<1>3. NoRelay'
  BY FramesStep
<1>4. IrqHasByte'
  BY IrqStep
<1>5. Rooms'
  BY RoomsStep
<1>6. Dues' /\ Marking' /\ MouseAnswer' /\ KeybAnswer'
  BY DuesStep, MarkingStep, MouseAnswerStep, KeybAnswerStep
<1> QED
  BY <1>1, <1>2, <1>3, <1>4, <1>5, <1>6 DEF IInv

LEMMA StutterKeeps ==
    ASSUME IInv, UNCHANGED vars
    PROVE  IInv'
<1>1. UNCHANGED <<menu, buffers, control, answers, ports, io_gap, history>>
  BY DEF vars
<1>2. /\ menu' = menu /\ keyb_fifo' = keyb_fifo /\ mouse_fifo' = mouse_fifo
      /\ outputbufferfull' = outputbufferfull /\ mousebufferfull' = mousebufferfull
      /\ irq_keyb' = irq_keyb /\ irq_mouse' = irq_mouse /\ keyb_fifo_q_last' = keyb_fifo_q_last
      /\ inputbufferfull' = inputbufferfull /\ input_write_done' = input_write_done
      /\ input_for_mouse' = input_for_mouse /\ expecting_port_60h' = expecting_port_60h
      /\ last_command' = last_command /\ command' = command /\ disable_mouse' = disable_mouse
      /\ disable_keyboard' = disable_keyboard /\ a20' = a20 /\ reset_pulse' = reset_pulse
  BY <1>1 DEF buffers, control
<1>3. /\ keyb_reply' = keyb_reply /\ mouse_reply' = mouse_reply /\ inj' = inj /\ minj' = minj
      /\ kr' = kr /\ mr' = mr /\ kclr' = kclr /\ mclr' = mclr /\ inj_ctr' = inj_ctr
      /\ translate_escape' = translate_escape /\ keyb_port' = keyb_port /\ mouse_port' = mouse_port
      /\ io_gap' = io_gap /\ polled' = polled /\ response' = response /\ answer' = answer
      /\ m_response' = m_response /\ m_answer' = m_answer
      /\ keyb_said' = keyb_said /\ mouse_said' = mouse_said
  BY <1>1 DEF answers, ports, history
<1>4. MouseSilent' = MouseSilent
  BY <1>2 DEF MouseSilent, Controls
<1>5. TypeOK'
  BY <1>2, <1>3 DEF IInv, TypeOK
<1>6. Sources' /\ Taken' /\ NoRelay' /\ IrqHasByte'
  BY <1>2, <1>3 DEF IInv, Sources, Taken, NoRelay, IrqHasByte
<1>7. Rooms' /\ Dues' /\ Marking'
  BY <1>2, <1>3 DEF IInv, Rooms, Dues, Marking
<1>8. MouseAnswer' /\ KeybAnswer'
  BY <1>2, <1>3, <1>4 DEF IInv, MouseAnswer, KeybAnswer, Silent, Announced
<1> QED
  BY <1>5, <1>6, <1>7, <1>8 DEF IInv

LEMMA NextKeeps ==
    ASSUME IInv, [Next]_vars
    PROVE  IInv'
<1>1. CASE Next
  <2>1. PICK io \in menu.io \union {NoIo}, key \in BOOLEAN, aux \in BOOLEAN, f1 \in F1Menu : Clock(io, key, aux, f1)
    BY <1>1 DEF Next
  <2>2. f1 = FALSE
    BY F1Assumption
  <2>3. Ticks(io, key, aux)
    BY <2>1, <2>2 DEF Ticks
  <2> QED
    BY <2>3, ClockKeeps
<1>2. CASE UNCHANGED vars
  BY <1>2, StutterKeeps
<1> QED
  BY <1>1, <1>2

LEMMA InitKeeps ==
    ASSUME Init
    PROVE  IInv
<1>1. /\ <<>> \in Seq(Byte) /\ Len(<<>>) = 0 /\ <<>> \in Seq(Byte \union {Other})
  OBVIOUS
<1>2. /\ High \in Nat /\ Depth \in Nat /\ F1Period \in Nat /\ F1Period > 1 /\ PulseLength \in Nat \ {0}
  BY Ps2Assumption
<1>3. 0 \in Byte
  BY DEF Byte
<1>4. [state |-> "idle", byte |-> 0] \in PortType
  BY <1>3 DEF PortType
<1>5. /\ menu \in Menus
      /\ keyb_fifo = <<>> /\ mouse_fifo = <<>> /\ keyb_fifo_q_last = 0
      /\ keyb_reply = <<>> /\ mouse_reply = <<>> /\ inj = <<>> /\ minj = <<>>
      /\ kr = <<>> /\ mr = <<>> /\ kclr = FALSE /\ mclr = FALSE /\ inj_ctr = 0
      /\ keyb_port = [state |-> "idle", byte |-> 0] /\ mouse_port = [state |-> "idle", byte |-> 0]
      /\ io_gap = 0 /\ polled = FALSE /\ translate_escape = FALSE
      /\ response = <<>> /\ answer = <<>> /\ m_response = <<>> /\ m_answer = <<>>
      /\ last_command = 0 /\ keyb_said = <<>> /\ mouse_said = <<>>
  BY DEF Init
<1>6. /\ outputbufferfull = FALSE /\ mousebufferfull = FALSE
      /\ irq_keyb = FALSE /\ irq_mouse = FALSE
      /\ inputbufferfull = FALSE /\ input_write_done = FALSE /\ input_for_mouse = FALSE
      /\ expecting_port_60h = FALSE
      /\ command \in [translate: BOOLEAN, mouse_visible: BOOLEAN, system: BOOLEAN, irq_mouse: BOOLEAN, irq_keyb: BOOLEAN]
      /\ disable_mouse = TRUE /\ disable_keyboard = FALSE
      /\ a20 = TRUE /\ reset_pulse = 0
  BY DEF Init
<1>7. Len(<<>>) <= Depth /\ Len(<<>>) <= 1 /\ Len(<<>>) <= 3
  BY <1>1, <1>2
<1>8. TypeOK
  <2>1. 0 \in 0 .. F1Period - 1 /\ 0 \in 0 .. PulseLength /\ 0 \in 0 .. 2
    BY <1>2
  <2> QED
    BY <1>1, <1>3, <1>4, <1>5, <1>6, <1>7, <2>1 DEF TypeOK
<1>9. keyb_port.state = "idle" /\ mouse_port.state = "idle"
  BY <1>5
<1>10. Sources /\ Taken /\ NoRelay /\ IrqHasByte
  BY <1>5, <1>6, <1>7, <1>9 DEF Sources, Taken, NoRelay, IrqHasByte
<1>11. Rooms
  <2>1. Frame(keyb_port) = 0 /\ Frame(mouse_port) = 0
    BY <1>9 DEF Frame
  <2>2. ASSUME NEW port, Frame(port) = 0 PROVE Room(<<>>, FALSE, <<>>, <<>>, port)
    BY <1>1, <1>2, <2>2 DEF Room
  <2> QED
    BY <1>5, <2>1, <2>2 DEF Rooms
<1>12. Dues /\ Marking
  BY <1>5 DEF Dues, Answers, Marking, Marked
<1>13. MouseAnswer
  <2>1. Answer(Others, <<>>, <<>>, mouse_said, mclr, minj, mr)
    BY NoAnswer
  <2> QED
    BY <1>5, <2>1 DEF MouseAnswer, Announced
<1>14. KeybAnswer
  <2>1. Answer(Others, <<>>, <<>>, keyb_said, kclr, inj, kr)
    BY NoAnswer
  <2>2. Silent
    BY <1>5, <1>6, <1>9 DEF Silent, WriteMouseOutput, WriteMouse
  <2> QED
    BY <1>5, <2>1, <2>2 DEF KeybAnswer, Announced
<1> QED
  BY <1>8, <1>10, <1>11, <1>12, <1>13, <1>14 DEF IInv

LEMMA Invariance == Spec => []IInv
<1>1. Init => IInv
  BY InitKeeps
<1>2. IInv /\ [Next]_vars => IInv'
  BY NextKeeps
<1> QED
  BY <1>1, <1>2, PTL DEF Spec

-----------------------------------------------------------------------------
(* Theorems *)

\* Every variable of ps2.v stays in its range, in particular the counters of the
\* two FIFOs (keyb_fifo_counter, mouse_fifo_counter).
THEOREM Ps2Types == Spec => []TypeOK
<1>1. IInv => TypeOK
  BY DEF IInv
<1> QED
  BY <1>1, Invariance, PTL

\* No write falls into a full input buffer, no FIFO overflows and no interrupt is
\* raised without a byte, for FIFOs of any depth that leave a margin of four above
\* the mark at which the devices are held off (keyb_fifo_counter < 60 of 64).
THEOREM Ps2LosesNothing == Spec => []NothingLost
<1>1. IInv => NoWriteDropped /\ IrqHasByte
  BY DEF IInv, Taken, NoWriteDropped
<1>2. IInv => NeverFull
  <2> SUFFICES ASSUME IInv PROVE NeverFull
    OBVIOUS
  <2>1. Len(keyb_fifo) \in Nat /\ Len(mouse_fifo) \in Nat
    BY DEF IInv, TypeOK
  <2>2. Len(keyb_fifo) <= High + 3 /\ Len(mouse_fifo) <= High + 3
    BY DEF IInv, Rooms, Room
  <2>3. High \in Nat /\ Depth \in Nat /\ High + 4 <= Depth
    BY Ps2Assumption, MarginAssumption
  <2>4. \A x \in Nat : x <= High + 3 => x < Depth
    BY <2>3
  <2> QED
    BY <2>1, <2>2, <2>4, Zenon DEF NeverFull
<1>3. IInv => NothingLost
  BY <1>1, <1>2 DEF NothingLost
<1> QED
  BY <1>3, Invariance, PTL

\* Each device command (kr_*, mr_* of ps2.v) is answered once, in order, with
\* nothing of what was queued before it, whatever the devices send meanwhile.
THEOREM Ps2AnswersExact == Spec => []AnswersExact
<1>1. IInv => MouseAligned
  <2> SUFFICES ASSUME IInv PROVE MouseAligned
    OBVIOUS
  <2>1. mouse_said \in Seq(Marks) /\ minj \in Seq(Marks) /\ mr \in Seq(Marks) /\ mclr \in BOOLEAN
    BY Parts, OthersApart DEF SaidTypes, DataTypes
  <2>2. m_response \in Seq(AnswerBytes)
    BY AnswersAre DEF IInv, Dues
  <2>3. Answer(Others, m_response, m_answer, mouse_said, mclr, minj, mr)
    BY DEF IInv, MouseAnswer
  <2> QED
    BY <2>1, <2>2, <2>3, AnswerPrefix DEF MouseAligned
<1>2. IInv => KeybAligned
  <2> SUFFICES ASSUME IInv, MouseSilent PROVE IsPrefix(answer, response)
    BY DEF KeybAligned
  <2>1. keyb_said \in Seq(Marks) /\ inj \in Seq(Marks) /\ kr \in Seq(Marks) /\ kclr \in BOOLEAN
    BY Parts, OthersApart DEF SaidTypes, DataTypes
  <2>2. response \in Seq(AnswerBytes)
    BY AnswersAre DEF IInv, Dues
  <2>3. Answer(Others, response, answer, keyb_said, kclr, inj, kr)
    BY DEF IInv, KeybAnswer
  <2> QED
    BY <2>1, <2>2, <2>3, AnswerPrefix
<1>3. IInv => AnswersExact
  BY <1>1, <1>2 DEF IInv, AnswersExact
<1> QED
  BY <1>3, Invariance, PTL
=============================================================================
