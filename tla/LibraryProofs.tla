---------------------------- MODULE LibraryProofs ----------------------------
(***************************************************************************)
(* Proofs about the parts of the library that LibraryMC runs.              *)
(***************************************************************************)
EXTENDS LibraryMC, TotalsProofs, SequenceTheorems, FiniteSetTheorems, TLAPS

-------------------------------------------------------------------------------
(* The device memory of a context. *)

Buffer == [there : BOOLEAN, size : 0 .. MaxSize, holds : BOOLEAN]

Call == {"alloc", "upload", "kernel", "download", "clear", "deliver", "abandon"} \X W!Buffers

\* The order of the CUDA calls a batch has left: what it allocates comes first, and
\* its results leave last, just after the buffers are cleared.
AllocsFirst(calls) ==
  \A i, j \in 1 .. Len(calls) : i < j /\ calls[j][1] = "alloc" => calls[i][1] = "alloc"

LeavesCleared(calls) ==
  \A i \in 1 .. Len(calls) :
    calls[i][1] = "deliver" => i = Len(calls) /\ (i > 1 => calls[i - 1][1] = "clear")

GivenUpAlone(calls) == \A i \in 1 .. Len(calls) : calls[i][1] = "abandon" => Len(calls) = 1

Script(calls) ==
  calls \in Seq(Call) /\ AllocsFirst(calls) /\ LeavesCleared(calls) /\ GivenUpAlone(calls)

\* What is left of a script is one, and delivers next only after a clear.
LEMMA ScriptTail ==
  ASSUME NEW calls, Script(calls), calls # <<>>
  PROVE  /\ Script(Tail(calls))
         /\ Tail(calls) # <<>> /\ Head(Tail(calls))[1] = "deliver" => Head(calls)[1] = "clear"
         /\ Head(calls)[1] = "deliver" => Tail(calls) = <<>>
         /\ Tail(calls) # <<>> => Head(Tail(calls))[1] # "abandon"
         /\ \A i \in 1 .. Len(Tail(calls)) : i + 1 \in 1 .. Len(calls) /\ Tail(calls)[i] = calls[i + 1]
         /\ \A i \in 1 .. Len(calls) : i > 1 => i - 1 \in 1 .. Len(Tail(calls))
<1> DEFINE rest == Tail(calls)
<1>1. calls \in Seq(Call) /\ Len(calls) \in Nat /\ Len(calls) > 0
  BY EmptySeq, LenProperties DEF Script
<1>2. /\ rest \in Seq(Call) /\ Len(rest) = Len(calls) - 1
      /\ \A i \in 1 .. Len(rest) : rest[i] = calls[i + 1]
  BY <1>1, HeadTailProperties
<1>3. \A i \in 1 .. Len(rest) : i + 1 \in 1 .. Len(calls)
  BY <1>1, <1>2
<1>4. \A i \in 1 .. Len(calls) : i > 1 => i - 1 \in 1 .. Len(rest)
  BY <1>1, <1>2
<1>5. rest # <<>> => Len(rest) > 0 /\ Head(rest) = calls[2] /\ 2 \in 1 .. Len(calls)
  BY <1>1, <1>2, EmptySeq
<1>6. Len(rest) = 0 => rest = <<>>
  BY <1>2, EmptySeq
<1>7. Head(calls) = calls[1] /\ 1 \in 1 .. Len(calls)
  BY <1>1
<1> HIDE DEF rest
<1>8. AllocsFirst(rest)
  <2> SUFFICES ASSUME NEW i \in 1 .. Len(rest), NEW j \in 1 .. Len(rest), i < j,
                      rest[j][1] = "alloc"
               PROVE  rest[i][1] = "alloc"
    BY DEF AllocsFirst
  <2>1. rest[i] = calls[i + 1] /\ rest[j] = calls[j + 1]
    BY <1>2
  <2>2. i + 1 < j + 1 /\ i + 1 \in 1 .. Len(calls) /\ j + 1 \in 1 .. Len(calls)
    BY <1>3, <1>1, <1>2
  <2> QED
    BY <2>1, <2>2 DEF Script, AllocsFirst
<1>9. LeavesCleared(rest)
  <2> SUFFICES ASSUME NEW i \in 1 .. Len(rest), rest[i][1] = "deliver"
               PROVE  i = Len(rest) /\ (i > 1 => rest[i - 1][1] = "clear")
    BY DEF LeavesCleared
  <2>1. calls[i + 1][1] = "deliver" /\ i + 1 \in 1 .. Len(calls) /\ i + 1 > 1
    BY <1>2, <1>3
  <2>2. i + 1 = Len(calls) /\ calls[(i + 1) - 1][1] = "clear"
    BY <2>1 DEF Script, LeavesCleared
  <2>3. (i + 1) - 1 = i /\ (i > 1 => i - 1 \in 1 .. Len(rest) /\ (i - 1) + 1 = i)
    BY <1>1, <1>2
  <2>4. i > 1 => rest[i - 1] = calls[i]
    BY <2>3, <1>2
  <2> QED
    BY <2>2, <2>3, <2>4, <1>1, <1>2
<1>10. GivenUpAlone(rest) /\ (rest # <<>> => Head(rest)[1] # "abandon")
  BY <1>1, <1>2, <1>3, <1>5 DEF Script, GivenUpAlone
<1>11. rest # <<>> /\ Head(rest)[1] = "deliver" => Head(calls)[1] = "clear"
  <2> SUFFICES ASSUME rest # <<>>, Head(rest)[1] = "deliver" PROVE Head(calls)[1] = "clear"
    OBVIOUS
  <2>1. calls[2][1] = "deliver" /\ 2 \in 1 .. Len(calls) /\ 2 > 1 /\ 2 - 1 = 1
    BY <1>5
  <2> QED
    BY <2>1, <1>7 DEF Script, LeavesCleared
<1>12. Head(calls)[1] = "deliver" => rest = <<>>
  <2> SUFFICES ASSUME Head(calls)[1] = "deliver" PROVE rest = <<>>
    OBVIOUS
  <2>1. 1 = Len(calls)
    BY <1>7 DEF Script, LeavesCleared
  <2> QED
    BY <2>1, <1>2, <1>6
<1>13. Script(rest)
  BY <1>2, <1>8, <1>9, <1>10 DEF Script
<1> QED
  BY <1>2, <1>3, <1>4, <1>10, <1>11, <1>12, <1>13 DEF rest

\* The members of a sequence of pairs (op, number).
LEMMA StepsShape ==
  ASSUME NEW op, NEW numbers \in Seq(W!Buffers), NEW S, \A n \in W!Buffers : <<op, n>> \in S
  PROVE  /\ W!Steps(op, numbers) \in Seq(S) /\ Len(W!Steps(op, numbers)) = Len(numbers)
         /\ \A i \in 1 .. Len(numbers) : W!Steps(op, numbers)[i] = <<op, numbers[i]>>
<1>1. Len(numbers) \in Nat /\ DOMAIN numbers = 1 .. Len(numbers)
  BY LenProperties
<1>2. \A i \in 1 .. Len(numbers) : numbers[i] \in W!Buffers
  BY ElementOfSeq
<1>3. W!Steps(op, numbers) = [i \in 1 .. Len(numbers) |-> <<op, numbers[i]>>]
  BY <1>1 DEF W!Steps
<1>4. [i \in 1 .. Len(numbers) |-> <<op, numbers[i]>>] \in Seq(S)
  BY <1>1, <1>2, SeqDef
<1> QED
  BY <1>1, <1>3, <1>4

\* The places of two sequences in their concatenation.
LEMMA Concatenated ==
  ASSUME NEW S, NEW s \in Seq(S), NEW t \in Seq(S), NEW m \in Nat, NEW n \in Nat,
         Len(s) = m, Len(t) = n
  PROVE  /\ s \o t \in Seq(S) /\ Len(s \o t) = m + n
         /\ \A i \in 1 .. m : (s \o t)[i] = s[i]
         /\ \A i \in 1 .. n : (s \o t)[m + i] = t[i]
<1>1. /\ s \o t \in Seq(S) /\ Len(s \o t) = Len(s) + Len(t)
      /\ \A i \in 1 .. Len(s) + Len(t) : (s \o t)[i] = IF i <= Len(s) THEN s[i] ELSE t[i - Len(s)]
  BY ConcatProperties
<1>2. \A i \in 1 .. m : (s \o t)[i] = s[i]
  BY <1>1
<1>3. ASSUME NEW i \in 1 .. n PROVE (s \o t)[m + i] = t[i]
  <2>1. m + i \in 1 .. Len(s) + Len(t) /\ ~(m + i <= Len(s)) /\ (m + i) - Len(s) = i
    OBVIOUS
  <2> QED
    BY <2>1, <1>1
<1> QED
  BY <1>1, <1>2, <1>3

\* The same for a second sequence of one or two.
LEMMA ConcatenatedFew ==
  ASSUME NEW S, NEW s \in Seq(S), NEW t \in Seq(S), NEW m \in Nat, Len(s) = m
  PROVE  /\ Len(t) = 1 => /\ s \o t \in Seq(S) /\ Len(s \o t) = m + 1
                          /\ \A i \in 1 .. m : (s \o t)[i] = s[i]
                          /\ (s \o t)[m + 1] = t[1]
         /\ Len(t) = 2 => /\ s \o t \in Seq(S) /\ Len(s \o t) = m + 2
                          /\ \A i \in 1 .. m : (s \o t)[i] = s[i]
                          /\ (s \o t)[m + 1] = t[1] /\ (s \o t)[m + 2] = t[2]
<1>1. PICK n : n = Len(t)
  OBVIOUS
<1>2. n \in Nat
  BY <1>1, LenProperties
<1>3. /\ s \o t \in Seq(S) /\ Len(s \o t) = m + n
      /\ \A i \in 1 .. m : (s \o t)[i] = s[i]
      /\ \A i \in 1 .. n : (s \o t)[m + i] = t[i]
  BY <1>1, <1>2, Concatenated
<1>4. n = 1 => 1 \in 1 .. n
  OBVIOUS
<1>5. n = 2 => 1 \in 1 .. n /\ 2 \in 1 .. n
  OBVIOUS
<1>6. n = 1 => Len(s \o t) = m + 1 /\ (s \o t)[m + 1] = t[1]
  BY ONLY <1>3, <1>4
<1>7. n = 2 => Len(s \o t) = m + 2 /\ (s \o t)[m + 1] = t[1] /\ (s \o t)[m + 2] = t[2]
  BY ONLY <1>3, <1>5
<1> QED
  BY ONLY <1>1, <1>3, <1>6, <1>7

\* The buffers that a batch uploads.
LEMMA InShape ==
  ASSUME NEW kind \in W!Kinds
  PROVE  W!In(kind) \in Seq(W!Buffers) /\ Len(W!In(kind)) \in Nat /\ Len(W!In(kind)) > 0
<1>1. CASE kind = "aead"
  <2>1. W!In(kind) = <<0, 1, 2, 3>>
    BY <1>1 DEF W!In
  <2>2. <<0, 1, 2, 3>> \in Seq(W!Buffers) /\ Len(<<0, 1, 2, 3>>) = 4
    BY DEF W!Buffers
  <2> QED
    BY <2>1, <2>2
<1>2. CASE kind = "sign"
  <2>1. W!In(kind) = <<0, 2>>
    BY <1>2 DEF W!In
  <2>2. <<0, 2>> \in Seq(W!Buffers) /\ Len(<<0, 2>>) = 2
    BY DEF W!Buffers
  <2> QED
    BY <2>1, <2>2
<1>3. CASE kind = "hash"
  <2>1. W!In(kind) = <<1, 2>>
    BY <1>3 DEF W!In
  <2>2. <<1, 2>> \in Seq(W!Buffers) /\ Len(<<1, 2>>) = 2
    BY DEF W!Buffers
  <2> QED
    BY <2>1, <2>2
<1>4. CASE kind = "export"
  <2>1. W!In(kind) = <<0>>
    BY <1>4 DEF W!In
  <2>2. <<0>> \in Seq(W!Buffers) /\ Len(<<0>>) = 1
    BY DEF W!Buffers
  <2> QED
    BY <2>1, <2>2
<1> QED
  BY <1>1, <1>2, <1>3, <1>4 DEF W!Kinds

\* What a batch with n uploads calls, in order.
CallsOf(calls, numbers, n) ==
  /\ calls \in Seq(Call) /\ Len(calls) = n + 2 + n + 5
  /\ \A i \in 1 .. n + 2 : calls[i] = <<"alloc", (numbers \o W!Out)[i]>>
  /\ \A i \in 1 .. n : calls[n + 2 + i] = <<"upload", numbers[i]>>
  /\ calls[n + 2 + n + 1] = <<"kernel", 0>>
  /\ calls[n + 2 + n + 2] = <<"download", W!Out[1]>>
  /\ calls[n + 2 + n + 3] = <<"download", W!Out[2]>>
  /\ calls[n + 2 + n + 4] = <<"clear", 0>>
  /\ calls[n + 2 + n + 5] = <<"deliver", 0>>

\* The calls of a batch, read off its definition.
LEMMA CallsShape ==
  ASSUME NEW kind \in W!Kinds
  PROVE  CallsOf(W!Calls(kind), W!In(kind), Len(W!In(kind)))
<1> DEFINE numbers == W!In(kind)
           n == Len(numbers)
           a == W!Steps("alloc", numbers \o W!Out)
           b == W!Steps("upload", numbers)
           c == <<<<"kernel", 0>>>>
           d == W!Steps("download", W!Out)
           e == W!Ending
           ab == a \o b
           abc == ab \o c
           abcd == abc \o d
           all == abcd \o e
<1>1. numbers \in Seq(W!Buffers) /\ n \in Nat
  BY InShape
<1>2. W!Out \in Seq(W!Buffers) /\ Len(W!Out) = 2
  BY DEF W!Out, W!Buffers
<1>3. \A s \in W!Buffers : <<"alloc", s>> \in Call /\ <<"upload", s>> \in Call /\ <<"download", s>> \in Call
  BY DEF Call
<1>4. numbers \o W!Out \in Seq(W!Buffers) /\ Len(numbers \o W!Out) = n + 2
  <2> HIDE DEF numbers, n
  <2>1. n = Len(numbers)
    BY DEF n
  <2> QED
    BY <1>1, <1>2, <2>1, ConcatenatedFew
<1>5. /\ a \in Seq(Call) /\ Len(a) = n + 2
      /\ \A i \in 1 .. n + 2 : a[i] = <<"alloc", (numbers \o W!Out)[i]>>
  BY <1>3, <1>4, StepsShape
<1>6. b \in Seq(Call) /\ Len(b) = n /\ \A i \in 1 .. n : b[i] = <<"upload", numbers[i]>>
  BY <1>1, <1>3, StepsShape
<1>7. d \in Seq(Call) /\ Len(d) = 2 /\ d[1] = <<"download", W!Out[1]>> /\ d[2] = <<"download", W!Out[2]>>
  <2>1. d \in Seq(Call) /\ Len(d) = 2 /\ \A i \in 1 .. Len(W!Out) : d[i] = <<"download", W!Out[i]>>
    BY <1>2, <1>3, StepsShape
  <2> QED
    BY <2>1, <1>2
<1>8. c \in Seq(Call) /\ Len(c) = 1 /\ c[1] = <<"kernel", 0>>
  BY DEF Call, W!Buffers
<1>9. e \in Seq(Call) /\ Len(e) = 2 /\ e[1] = <<"clear", 0>> /\ e[2] = <<"deliver", 0>>
  BY DEF Call, W!Buffers, W!Ending
<1>10. W!Calls(kind) = all
  BY DEF W!Calls
<1> HIDE DEF a, b, c, d, e, numbers, n
<1>11. /\ ab \in Seq(Call) /\ Len(ab) = n + 2 + n
       /\ \A i \in 1 .. n + 2 : ab[i] = a[i]
       /\ \A i \in 1 .. n : ab[n + 2 + i] = b[i]
  <2>1. n + 2 \in Nat
    BY <1>1
  <2> QED
    BY <1>1, <2>1, <1>5, <1>6, Concatenated
<1> HIDE DEF ab
<1>12. /\ abc \in Seq(Call) /\ Len(abc) = n + 2 + n + 1
       /\ \A i \in 1 .. n + 2 + n : abc[i] = ab[i]
       /\ abc[n + 2 + n + 1] = c[1]
  <2>1. n + 2 + n \in Nat
    BY <1>1
  <2> QED
    BY <2>1, <1>11, <1>8, ConcatenatedFew
<1> HIDE DEF abc
<1>13. /\ abcd \in Seq(Call) /\ Len(abcd) = n + 2 + n + 1 + 2
       /\ \A i \in 1 .. n + 2 + n + 1 : abcd[i] = abc[i]
       /\ abcd[n + 2 + n + 1 + 1] = d[1] /\ abcd[n + 2 + n + 1 + 2] = d[2]
  <2>1. n + 2 + n + 1 \in Nat
    BY <1>1
  <2> QED
    BY ONLY <2>1, <1>12, <1>7, ConcatenatedFew DEF abcd
<1> HIDE DEF abcd
<1>14. /\ all \in Seq(Call) /\ Len(all) = n + 2 + n + 1 + 2 + 2
       /\ \A i \in 1 .. n + 2 + n + 1 + 2 : all[i] = abcd[i]
       /\ all[n + 2 + n + 1 + 2 + 1] = e[1] /\ all[n + 2 + n + 1 + 2 + 2] = e[2]
  <2>1. n + 2 + n + 1 + 2 \in Nat
    BY <1>1
  <2> QED
    BY SMTT(30), <2>1, <1>13, <1>9, ConcatenatedFew
<1> HIDE DEF all
<1>15. ASSUME NEW i \in 1 .. n + 2 + n + 1 PROVE all[i] = abc[i]
  <2>1. i \in 1 .. n + 2 + n + 1 + 2
    BY <1>1
  <2> QED
    BY <2>1, <1>13, <1>14
<1>16. ASSUME NEW i \in 1 .. n + 2 + n PROVE all[i] = ab[i]
  <2>1. i \in 1 .. n + 2 + n + 1
    BY <1>1
  <2> QED
    BY <2>1, <1>12, <1>15
<1>17. \A i \in 1 .. n + 2 : all[i] = <<"alloc", (numbers \o W!Out)[i]>>
  <2> SUFFICES ASSUME NEW i \in 1 .. n + 2 PROVE all[i] = <<"alloc", (numbers \o W!Out)[i]>>
    OBVIOUS
  <2>1. i \in 1 .. n + 2 + n
    BY <1>1
  <2> QED
    BY <2>1, <1>5, <1>11, <1>16
<1>18. \A i \in 1 .. n : all[n + 2 + i] = <<"upload", numbers[i]>>
  <2> SUFFICES ASSUME NEW i \in 1 .. n PROVE all[n + 2 + i] = <<"upload", numbers[i]>>
    OBVIOUS
  <2>1. n + 2 + i \in 1 .. n + 2 + n
    BY <1>1
  <2> QED
    BY <2>1, <1>6, <1>11, <1>16
<1>19. all[n + 2 + n + 1] = <<"kernel", 0>>
  <2>1. n + 2 + n + 1 \in 1 .. n + 2 + n + 1 /\ 1 \in 1 .. 1
    BY <1>1
  <2> QED
    BY <2>1, <1>8, <1>12, <1>15
<1>20. all[n + 2 + n + 2] = <<"download", W!Out[1]>> /\ all[n + 2 + n + 3] = <<"download", W!Out[2]>>
  <2>1. /\ n + 2 + n + 1 + 1 \in 1 .. n + 2 + n + 1 + 2 /\ n + 2 + n + 1 + 1 = n + 2 + n + 2
        /\ n + 2 + n + 1 + 2 \in 1 .. n + 2 + n + 1 + 2 /\ n + 2 + n + 1 + 2 = n + 2 + n + 3
    BY <1>1
  <2> QED
    BY <2>1, <1>7, <1>13, <1>14
<1>21. all[n + 2 + n + 4] = <<"clear", 0>> /\ all[n + 2 + n + 5] = <<"deliver", 0>>
  <2>1. /\ n + 2 + n + 1 + 2 + 1 = n + 2 + n + 4 /\ n + 2 + n + 1 + 2 + 2 = n + 2 + n + 5
    BY <1>1
  <2> QED
    BY <2>1, <1>9, <1>14
<1>22. Len(all) = n + 2 + n + 5
  BY <1>1, <1>14
<1>23. CallsOf(all, numbers, n)
  BY <1>14, <1>17, <1>18, <1>19, <1>20, <1>21, <1>22 DEF CallsOf
<1> QED
  BY <1>10, <1>23 DEF n, numbers

\* The place of a call in its batch tells what it does.
LEMMA CallsPlaces ==
  ASSUME NEW calls, NEW numbers, NEW n \in Nat, CallsOf(calls, numbers, n), NEW i \in 1 .. Len(calls)
  PROVE  /\ i <= n + 2 <=> calls[i][1] = "alloc"
         /\ calls[i][1] = "upload" => \E k \in 1 .. n : calls[i][2] = numbers[k]
         /\ calls[i][1] = "deliver" => i = n + 2 + n + 5
         /\ calls[i][1] # "abandon"
<1>1. CASE i <= n + 2
  <2>1. i \in 1 .. n + 2
    BY <1>1
  <2>2. calls[i] = <<"alloc", (numbers \o W!Out)[i]>>
    BY <2>1 DEF CallsOf
  <2> QED
    BY <1>1, <2>2
<1>2. CASE i > n + 2 /\ i <= n + 2 + n
  <2>1. PICK k \in Int : k = i - (n + 2)
    OBVIOUS
  <2>2. k \in 1 .. n /\ n + 2 + k = i
    BY <1>2, <2>1
  <2>3. calls[i] = <<"upload", numbers[k]>>
    BY <2>2 DEF CallsOf
  <2> QED
    BY <1>2, <2>2, <2>3
<1>3. CASE i > n + 2 + n
  <2>1. \/ i = n + 2 + n + 1 \/ i = n + 2 + n + 2 \/ i = n + 2 + n + 3
        \/ i = n + 2 + n + 4 \/ i = n + 2 + n + 5
    BY <1>3 DEF CallsOf
  <2>2. /\ calls[n + 2 + n + 1][1] = "kernel" /\ calls[n + 2 + n + 2][1] = "download"
        /\ calls[n + 2 + n + 3][1] = "download" /\ calls[n + 2 + n + 4][1] = "clear"
        /\ calls[n + 2 + n + 5][1] = "deliver"
    BY DEF CallsOf
  <2>3. \/ calls[i][1] = "kernel" \/ calls[i][1] = "download" \/ calls[i][1] = "clear"
        \/ calls[i][1] = "deliver" /\ i = n + 2 + n + 5
    BY ONLY <2>1, <2>2
  <2> QED
    BY <1>3, <2>3
<1> QED
  BY <1>1, <1>2, <1>3

\* A new batch has a script, which allocates every buffer it uses and uploads only
\* to those.
LEMMA CallsScript ==
  ASSUME NEW kind \in W!Kinds
  PROVE  LET calls == W!Calls(kind)
             uses  == ToSet(W!In(kind) \o W!Out)
         IN /\ Script(calls) /\ calls # <<>> /\ Head(calls)[1] = "alloc"
            /\ uses \subseteq W!Buffers /\ ToSet(W!Out) \subseteq uses
            /\ \A u \in uses : \E i \in 1 .. Len(calls) : calls[i] = <<"alloc", u>>
            /\ \A i \in 1 .. Len(calls) : calls[i][1] = "upload" => calls[i][2] \in uses
<1> DEFINE calls == W!Calls(kind)
           numbers == W!In(kind)
           n == Len(numbers)
           uses == ToSet(numbers \o W!Out)
<1>1. numbers \in Seq(W!Buffers) /\ n \in Nat /\ n > 0
  BY InShape
<1>2. CallsOf(calls, numbers, n)
  BY CallsShape
<1>3. W!Out \in Seq(W!Buffers) /\ Len(W!Out) = 2
  BY DEF W!Out, W!Buffers
<1>4. n = Len(numbers)
  OBVIOUS
<1> HIDE DEF calls, numbers, n
<1>5. /\ numbers \o W!Out \in Seq(W!Buffers) /\ Len(numbers \o W!Out) = n + 2
      /\ \A i \in 1 .. n : (numbers \o W!Out)[i] = numbers[i]
      /\ (numbers \o W!Out)[n + 1] = W!Out[1] /\ (numbers \o W!Out)[n + 2] = W!Out[2]
  BY <1>1, <1>3, <1>4, ConcatenatedFew
<1>6. \A u : u \in uses <=> \E i \in 1 .. n + 2 : u = (numbers \o W!Out)[i]
  BY <1>5, LenProperties DEF ToSet
<1>7. \A i \in 1 .. n + 2 : (numbers \o W!Out)[i] \in W!Buffers
  BY <1>5, ElementOfSeq
<1>8. uses \subseteq W!Buffers
  BY <1>6, <1>7
<1>9. ASSUME NEW k \in 1 .. n PROVE numbers[k] \in uses
  <2>1. k \in 1 .. n + 2 /\ numbers[k] = (numbers \o W!Out)[k]
    BY <1>1, <1>5
  <2> QED
    BY <2>1, <1>6
<1>10. ToSet(W!Out) \subseteq uses
  <2>1. ToSet(W!Out) = {W!Out[1], W!Out[2]}
    BY DEF ToSet, W!Out
  <2>2. n + 1 \in 1 .. n + 2 /\ n + 2 \in 1 .. n + 2
    BY <1>1
  <2> QED
    BY <2>1, <2>2, <1>5, <1>6
<1> HIDE DEF uses
<1>11. Len(calls) = n + 2 + n + 5 /\ calls \in Seq(Call)
  BY <1>2 DEF CallsOf
<1>12. AllocsFirst(calls)
  <2> SUFFICES ASSUME NEW i \in 1 .. Len(calls), NEW j \in 1 .. Len(calls), i < j,
                      calls[j][1] = "alloc"
               PROVE  calls[i][1] = "alloc"
    BY DEF AllocsFirst
  <2>1. j <= n + 2
    BY <1>1, <1>2, CallsPlaces
  <2>2. i <= n + 2
    BY <2>1, <1>1, <1>11
  <2> QED
    BY <2>2, <1>1, <1>2, CallsPlaces
<1>13. LeavesCleared(calls)
  <2> SUFFICES ASSUME NEW i \in 1 .. Len(calls), calls[i][1] = "deliver"
               PROVE  i = Len(calls) /\ (i > 1 => calls[i - 1][1] = "clear")
    BY DEF LeavesCleared
  <2>1. i = n + 2 + n + 5
    BY <1>1, <1>2, CallsPlaces
  <2>2. i = Len(calls) /\ i - 1 = n + 2 + n + 4
    BY <2>1, <1>1, <1>11
  <2>3. calls[n + 2 + n + 4][1] = "clear"
    BY <1>2 DEF CallsOf
  <2> QED
    BY <2>2, <2>3
<1>14. GivenUpAlone(calls)
  BY <1>1, <1>2, CallsPlaces DEF GivenUpAlone
<1>15. calls # <<>> /\ Head(calls)[1] = "alloc"
  <2>1. 1 \in 1 .. n + 2 /\ Len(calls) # 0
    BY <1>1, <1>11
  <2>2. calls[1] = <<"alloc", (numbers \o W!Out)[1]>>
    BY <2>1, <1>2 DEF CallsOf
  <2> QED
    BY <2>1, <2>2
<1>16. ASSUME NEW u \in uses PROVE \E i \in 1 .. Len(calls) : calls[i] = <<"alloc", u>>
  <2>1. PICK i \in 1 .. n + 2 : u = (numbers \o W!Out)[i]
    BY <1>6
  <2>2. i \in 1 .. Len(calls)
    BY <1>1, <1>11
  <2>3. calls[i] = <<"alloc", u>>
    BY <2>1, <1>2 DEF CallsOf
  <2> QED
    BY <2>2, <2>3
<1>17. ASSUME NEW i \in 1 .. Len(calls), calls[i][1] = "upload" PROVE calls[i][2] \in uses
  <2>1. PICK k \in 1 .. n : calls[i][2] = numbers[k]
    BY <1>17, <1>1, <1>2, CallsPlaces
  <2> QED
    BY <2>1, <1>9
<1>18. Script(calls)
  BY <1>11, <1>12, <1>13, <1>14 DEF Script
<1> QED
  BY <1>8, <1>10, <1>15, <1>16, <1>17, <1>18 DEF calls, uses, numbers

\* What the buffers hold and the batch has left: until its allocations are done, each
\* buffer it uses is large enough or waits for its own.
MemInv ==
  /\ buffers \in [W!Buffers -> Buffer]
  /\ \A i \in W!Buffers : (buffers[i].there <=> buffers[i].size > 0)
                          /\ (buffers[i].holds => buffers[i].there)
  /\ Script(todo) /\ used \subseteq W!Buffers /\ need \in 0 .. MaxSize
  /\ delivered \in BOOLEAN /\ freed = FALSE
  /\ delivered => todo = <<>>
  /\ delivered \/ W!At("deliver") => \A i \in W!Buffers : ~buffers[i].holds
  /\ todo # <<>> => need > 0
  /\ todo # <<>> /\ ~W!At("abandon") =>
       /\ ToSet(W!Out) \subseteq used
       /\ \A i \in 1 .. Len(todo) : todo[i][1] = "upload" => todo[i][2] \in used
       /\ \A u \in used : W!Fits(buffers[u]) \/ \E i \in 1 .. Len(todo) : todo[i] = <<"alloc", u>>

\* MemInv and the properties.
MemSafe == W!TypeOK /\ W!OutputsAfterClear /\ W!FreedIsClear /\ W!KernelFits

\* Past the allocations every buffer in use is large enough.
LEMMA PastAllocs ==
  ASSUME MemInv, todo # <<>>, ~W!At("alloc"), ~W!At("abandon")
  PROVE  \A u \in used : W!Fits(buffers[u])
<1>1. todo \in Seq(Call) /\ Len(todo) > 0 /\ Head(todo) = todo[1] /\ 1 \in 1 .. Len(todo)
  BY EmptySeq, LenProperties DEF MemInv, Script
<1>2. todo[1][1] # "alloc"
  BY <1>1 DEF W!At
<1>3. ASSUME NEW i \in 1 .. Len(todo) PROVE todo[i][1] # "alloc"
  <2>1. i = 1 \/ 1 < i
    BY <1>1
  <2> QED
    BY <1>1, <1>2, <2>1 DEF MemInv, Script, AllocsFirst
<1>4. \A i \in 1 .. Len(todo), u \in used : todo[i] # <<"alloc", u>>
  BY <1>3
<1> QED
  BY <1>4 DEF MemInv

\* A batch that goes on, its buffers as they should be, keeps the invariant.
LEMMA MemContinue ==
  ASSUME MemInv, todo # <<>>, ~W!At("abandon"), ~W!At("deliver"), W!Continue,
         buffers' \in [W!Buffers -> Buffer],
         \A i \in W!Buffers : (buffers'[i].there <=> buffers'[i].size > 0)
                              /\ (buffers'[i].holds => buffers'[i].there),
         \A u \in used : W!Fits(buffers[u]) => buffers'[u].there /\ buffers'[u].size >= need,
         W!At("alloc") => buffers'[W!Which].there /\ buffers'[W!Which].size >= need,
         W!At("clear") => \A i \in W!Buffers : ~buffers'[i].holds,
         freed' = FALSE, delivered' = delivered
  PROVE  MemInv'
<1>1. /\ todo' = Tail(todo) /\ (todo' = <<>> => need' = 0 /\ used' = {})
      /\ (todo' # <<>> => need' = need /\ used' = used)
  BY DEF W!Continue
<1>2. /\ Script(todo') /\ (todo' # <<>> /\ Head(todo')[1] = "deliver" => Head(todo)[1] = "clear")
      /\ todo' # <<>> => Head(todo')[1] # "abandon"
      /\ \A i \in 1 .. Len(todo') : i + 1 \in 1 .. Len(todo) /\ todo'[i] = todo[i + 1]
      /\ \A i \in 1 .. Len(todo) : i > 1 => i - 1 \in 1 .. Len(todo')
  BY <1>1, ScriptTail DEF MemInv
<1>3. used' \subseteq W!Buffers /\ need' \in 0 .. MaxSize /\ delivered' = FALSE /\ delivered = FALSE
  BY <1>1, LibraryAssumption DEF MemInv
<1>4. ASSUME W!At("deliver")' PROVE \A i \in W!Buffers : ~buffers'[i].holds
  BY <1>4, <1>2 DEF W!At
<1>5. ASSUME todo' # <<>>
      PROVE  /\ need' > 0 /\ ToSet(W!Out) \subseteq used'
             /\ \A i \in 1 .. Len(todo') : todo'[i][1] = "upload" => todo'[i][2] \in used'
             /\ \A u \in used' : \/ buffers'[u].there /\ buffers'[u].size >= need'
                              \/ \E i \in 1 .. Len(todo') : todo'[i] = <<"alloc", u>>
  <2>1. need' = need /\ used' = used /\ need > 0 /\ ToSet(W!Out) \subseteq used
    BY <1>1, <1>5 DEF MemInv
  <2>2. \A i \in 1 .. Len(todo') : todo'[i][1] = "upload" => todo'[i][2] \in used
    BY <1>2 DEF MemInv
  <2>3. ASSUME NEW u \in used, ~(buffers'[u].there /\ buffers'[u].size >= need)
        PROVE  \E i \in 1 .. Len(todo') : todo'[i] = <<"alloc", u>>
    <3>1. PICK i \in 1 .. Len(todo) : todo[i] = <<"alloc", u>>
      BY <2>3 DEF MemInv
    <3>2. Len(todo) \in Nat /\ Head(todo) = todo[1]
      BY LenProperties DEF MemInv, Script
    <3>3. i # 1
      <4> SUFFICES ASSUME i = 1 PROVE FALSE
        OBVIOUS
      <4>1. Head(todo) = <<"alloc", u>>
        BY <3>1, <3>2
      <4> QED
        BY <4>1, <2>3 DEF W!At, W!Which
    <3>4. i > 1
      BY <3>2, <3>3
    <3>5. i - 1 \in 1 .. Len(todo') /\ todo'[i - 1] = todo[(i - 1) + 1] /\ (i - 1) + 1 = i
      BY <3>4, <3>2, <1>2
    <3> QED
      BY <3>1, <3>5
  <2> QED
    BY <2>1, <2>2, <2>3
<1> QED
  BY <1>2, <1>3, <1>4, <1>5 DEF MemInv, W!Fits

\* A batch that fails, its buffers as they should be, keeps the invariant.
LEMMA MemFails ==
  ASSUME MemInv, todo # <<>>, todo' = <<<<"abandon", 0>>>>, UNCHANGED <<need, used, delivered>>,
         buffers' \in [W!Buffers -> Buffer],
         \A i \in W!Buffers : (buffers'[i].there <=> buffers'[i].size > 0)
                              /\ (buffers'[i].holds => buffers'[i].there),
         freed' = FALSE
  PROVE  MemInv'
<1>1. /\ todo' \in Seq(Call) /\ Len(todo') = 1 /\ todo'[1] = <<"abandon", 0>>
      /\ Head(todo') = <<"abandon", 0>>
  BY DEF Call, W!Buffers
<1>2. \A i \in 1 .. Len(todo') : i = 1 /\ todo'[i][1] = "abandon"
  BY <1>1
<1>3. Script(todo')
  BY <1>1, <1>2 DEF Script, AllocsFirst, LeavesCleared, GivenUpAlone
<1>4. ~W!At("deliver")' /\ W!At("abandon")'
  BY <1>1 DEF W!At
<1>5. delivered' = FALSE /\ need' = need /\ need > 0
  BY DEF MemInv
<1> QED
  BY <1>3, <1>4, <1>5 DEF MemInv

\* A new batch.
LEMMA MemBegin ==
  ASSUME MemInv, NEW kind \in W!Kinds, NEW s \in 1 .. MaxSize, W!Begin(kind, s)
  PROVE  MemInv'
<1>1. todo' = W!Calls(kind) /\ used' = ToSet(W!In(kind) \o W!Out) /\ need' = s /\ delivered' = FALSE
  BY DEF W!Begin, W!ToSet, ToSet
<1>2. UNCHANGED <<buffers, freed>>
  BY DEF W!Begin
<1>3. /\ Script(todo') /\ todo' # <<>> /\ Head(todo')[1] = "alloc"
      /\ used' \subseteq W!Buffers /\ ToSet(W!Out) \subseteq used'
      /\ \A u \in used' : \E i \in 1 .. Len(todo') : todo'[i] = <<"alloc", u>>
      /\ \A i \in 1 .. Len(todo') : todo'[i][1] = "upload" => todo'[i][2] \in used'
  BY <1>1, CallsScript
<1>4. ~W!At("deliver")'
  BY <1>3 DEF W!At
<1>5. need' \in 0 .. MaxSize /\ need' > 0
  BY <1>1, LibraryAssumption
<1>6. /\ buffers' \in [W!Buffers -> Buffer] /\ freed' = FALSE
      /\ \A i \in W!Buffers : (buffers'[i].there <=> buffers'[i].size > 0)
                             /\ (buffers'[i].holds => buffers'[i].there)
  BY <1>2 DEF MemInv
<1> QED
  BY <1>1, <1>3, <1>4, <1>5, <1>6 DEF MemInv

\* The next call of a batch names one of the buffers.
LEMMA WhichBuffer ==
  ASSUME MemInv, todo # <<>>
  PROVE  W!Which \in W!Buffers /\ Head(todo) = todo[1] /\ 1 \in 1 .. Len(todo)
<1>1. todo \in Seq(Call) /\ Len(todo) > 0 /\ Head(todo) = todo[1] /\ 1 \in 1 .. Len(todo)
  BY EmptySeq, LenProperties DEF MemInv, Script
<1>2. todo[1] \in Call
  BY <1>1, ElementOfSeq
<1> QED
  BY <1>1, <1>2 DEF Call, W!Which

\* A buffer that is kept.
LEMMA MemKeep == ASSUME MemInv, W!Keep PROVE MemInv'
<1>1. /\ todo # <<>> /\ W!At("alloc") /\ ~W!At("abandon") /\ ~W!At("deliver") /\ ~W!At("clear")
      /\ W!Fits(buffers[W!Which]) /\ W!Continue /\ UNCHANGED <<buffers, delivered, freed>>
  BY DEF W!Keep, W!At
<1>2. /\ buffers' \in [W!Buffers -> Buffer] /\ freed' = FALSE
      /\ \A i \in W!Buffers : (buffers'[i].there <=> buffers'[i].size > 0)
                              /\ (buffers'[i].holds => buffers'[i].there)
  BY <1>1 DEF MemInv
<1> QED
  BY <1>1, <1>2, MemContinue DEF W!Fits

\* A buffer that grows: it is there, as large as the batch needs, and empty.
LEMMA MemGrow == ASSUME MemInv, W!Grow PROVE MemInv'
<1>1. /\ todo # <<>> /\ W!At("alloc") /\ ~W!At("abandon") /\ ~W!At("deliver") /\ ~W!At("clear")
      /\ W!Continue /\ delivered' = delivered
  BY DEF W!Grow, W!At
<1>2. W!Which \in W!Buffers /\ need \in 0 .. MaxSize /\ need > 0 /\ buffers \in [W!Buffers -> Buffer]
  BY <1>1, WhichBuffer DEF MemInv
<1>3. PICK grown : grown = [there |-> TRUE, size |-> need, holds |-> FALSE]
  OBVIOUS
<1>4. grown.there = TRUE /\ grown.size = need /\ grown.holds = FALSE /\ grown \in Buffer
  BY <1>2, <1>3 DEF Buffer
<1>5. buffers' = [buffers EXCEPT ![W!Which] = grown]
  BY <1>3 DEF W!Grow
<1>6. buffers' \in [W!Buffers -> Buffer] /\ buffers'[W!Which] = grown
      /\ \A i \in W!Buffers : i # W!Which => buffers'[i] = buffers[i]
  BY <1>2, <1>4, <1>5
<1>7. freed' = FALSE
  <2>1. buffers[W!Which] \in Buffer
    BY <1>2
  <2> QED
    BY <2>1 DEF W!Grow, W!Wiped, Buffer, MemInv
<1>8. \A i \in W!Buffers : (buffers'[i].there <=> buffers'[i].size > 0)
                           /\ (buffers'[i].holds => buffers'[i].there)
  BY <1>2, <1>4, <1>6 DEF MemInv
<1>9. /\ \A u \in used : W!Fits(buffers[u]) => buffers'[u].there /\ buffers'[u].size >= need
      /\ buffers'[W!Which].there /\ buffers'[W!Which].size >= need
  BY <1>2, <1>4, <1>6 DEF MemInv, W!Fits
<1> QED
  BY <1>1, <1>6, <1>7, <1>8, <1>9, MemContinue

\* A buffer that cannot grow stays as it was, wiped or not, or is gone.
LEMMA MemGrowFails == ASSUME MemInv, W!GrowFails PROVE MemInv'
<1>1. todo # <<>> /\ todo' = <<<<"abandon", 0>>>> /\ UNCHANGED <<need, used, delivered>>
  BY DEF W!GrowFails, W!At
<1>2. W!Which \in W!Buffers /\ buffers \in [W!Buffers -> Buffer]
  BY <1>1, WhichBuffer DEF MemInv
<1>3. PICK b : b = buffers[W!Which]
  OBVIOUS
<1>4. b \in Buffer /\ (b.there <=> b.size > 0) /\ (b.holds => b.there)
  BY <1>2, <1>3 DEF MemInv
<1>5. /\ W!Wiped(b) \in Buffer /\ W!Wiped(b).there = b.there /\ W!Wiped(b).size = b.size
      /\ W!Wiped(b).holds = FALSE
  BY <1>4 DEF Buffer, W!Wiped
<1>6. /\ W!Gone(b) \in Buffer /\ W!Gone(b).there = FALSE /\ W!Gone(b).size = 0
      /\ W!Gone(b).holds = FALSE
  <2>1. 0 \in 0 .. MaxSize
    BY LibraryAssumption
  <2>2. PICK d : d = [b EXCEPT !.there = FALSE, !.holds = FALSE, !.size = 0]
    OBVIOUS
  <2>3. d \in Buffer /\ d.there = FALSE /\ d.size = 0 /\ d.holds = FALSE
    BY <1>4, <2>1, <2>2 DEF Buffer
  <2> QED
    BY <2>2, <2>3 DEF W!Gone
<1>7. PICK left \in {b, W!Wiped(b), W!Gone(b)} : buffers' = [buffers EXCEPT ![W!Which] = left]
  <2>1. \/ \E left \in {buffers[W!Which], W!Wiped(buffers[W!Which])} :
             buffers' = [buffers EXCEPT ![W!Which] = left]
        \/ buffers' = [buffers EXCEPT ![W!Which] = W!Gone(@)]
    BY DEF W!GrowFails
  <2> QED
    BY <2>1, <1>3
<1>8. /\ left \in Buffer /\ (left.there <=> left.size > 0) /\ (left.holds => left.there)
  BY <1>4, <1>5, <1>6, <1>7
<1>9. buffers' \in [W!Buffers -> Buffer] /\ buffers'[W!Which] = left
      /\ \A i \in W!Buffers : i # W!Which => buffers'[i] = buffers[i]
  BY <1>2, <1>7, <1>8
<1>10. freed' = FALSE
  BY <1>3, <1>5 DEF W!GrowFails, MemInv
<1>11. \A i \in W!Buffers : (buffers'[i].there <=> buffers'[i].size > 0)
                            /\ (buffers'[i].holds => buffers'[i].there)
  BY <1>8, <1>9 DEF MemInv
<1> QED
  BY <1>1, <1>9, <1>10, <1>11, MemFails

\* Filled buffers that are there.
LEMMA FilledBuffers ==
  ASSUME MemInv, NEW numbers, \A i \in W!Buffers : i \in numbers => buffers[i].there,
         buffers' = W!Filled(numbers)
  PROVE  /\ buffers' \in [W!Buffers -> Buffer]
         /\ \A i \in W!Buffers : /\ buffers'[i].there = buffers[i].there
                                  /\ buffers'[i].size = buffers[i].size
                                  /\ (buffers'[i].there <=> buffers'[i].size > 0)
                                  /\ (buffers'[i].holds => buffers'[i].there)
<1>1. ASSUME NEW i \in W!Buffers
      PROVE  /\ buffers'[i] \in Buffer
             /\ buffers'[i].there = buffers[i].there /\ buffers'[i].size = buffers[i].size
             /\ buffers'[i].holds => buffers[i].there
  <2>1. PICK b : b = buffers[i]
    OBVIOUS
  <2>2. b \in Buffer /\ (b.holds => b.there)
    BY <2>1 DEF MemInv
  <2>3. PICK c : c = [b EXCEPT !.holds = TRUE]
    OBVIOUS
  <2>4. c \in Buffer /\ c.there = b.there /\ c.size = b.size
    BY <2>2, <2>3 DEF Buffer
  <2>5. buffers'[i] = IF i \in numbers THEN c ELSE b
    BY <2>1, <2>3 DEF W!Filled
  <2> QED
    BY <2>1, <2>2, <2>4, <2>5
<1>2. buffers' \in [W!Buffers -> Buffer]
  BY <1>1 DEF W!Filled
<1> QED
  BY <1>1, <1>2 DEF MemInv

\* An upload and the kernel fill buffers of the batch, all of them there.
LEMMA MemFill ==
  ASSUME MemInv, todo # <<>>, ~W!At("alloc"), ~W!At("abandon"), ~W!At("deliver"), ~W!At("clear"),
         NEW numbers, numbers \subseteq used, buffers' = W!Filled(numbers),
         W!Continue \/ (todo' = <<<<"abandon", 0>>>> /\ UNCHANGED <<need, used>>),
         UNCHANGED <<delivered, freed>>
  PROVE  MemInv'
<1>1. \A u \in used : u \in W!Buffers /\ buffers[u].there
  BY PastAllocs DEF W!Fits, MemInv
<1>2. /\ buffers' \in [W!Buffers -> Buffer]
      /\ \A i \in W!Buffers : /\ buffers'[i].there = buffers[i].there
                               /\ buffers'[i].size = buffers[i].size
                               /\ (buffers'[i].there <=> buffers'[i].size > 0)
                               /\ (buffers'[i].holds => buffers'[i].there)
  BY <1>1, FilledBuffers
<1>3. \A u \in used : W!Fits(buffers[u]) => buffers'[u].there /\ buffers'[u].size >= need
  BY <1>1, <1>2 DEF W!Fits
<1>4. freed' = FALSE
  BY DEF MemInv
<1>5. CASE W!Continue
  BY <1>2, <1>3, <1>4, <1>5, MemContinue
<1>6. CASE todo' = <<<<"abandon", 0>>>> /\ UNCHANGED <<need, used>>
  BY <1>2, <1>4, <1>6, MemFails
<1> QED
  BY <1>5, <1>6

\* An upload writes a buffer of the batch, which is there by then.
LEMMA MemUpload == ASSUME MemInv, W!Upload PROVE MemInv'
<1>1. /\ todo # <<>> /\ ~W!At("alloc") /\ ~W!At("abandon") /\ ~W!At("deliver") /\ ~W!At("clear")
      /\ Head(todo)[1] = "upload"
  BY DEF W!Upload, W!At
<1>2. {W!Which} \subseteq used
  BY <1>1, WhichBuffer DEF MemInv, W!Which
<1> QED
  BY <1>1, <1>2, MemFill DEF W!Upload

\* A kernel writes the two output buffers, which are there by then.
LEMMA MemKernel == ASSUME MemInv, W!Kernel PROVE MemInv'
<1>1. todo # <<>> /\ ~W!At("alloc") /\ ~W!At("abandon") /\ ~W!At("deliver") /\ ~W!At("clear")
  BY DEF W!Kernel, W!At
<1>2. ToSet(W!Out) \subseteq used
  BY <1>1 DEF MemInv
<1>3. buffers' = W!Filled(ToSet(W!Out))
  BY DEF W!Kernel, W!ToSet, ToSet
<1> QED
  BY <1>1, <1>2, <1>3, MemFill DEF W!Kernel

\* A download changes no buffer, whether it fails or not.
LEMMA MemDownload == ASSUME MemInv, W!Download PROVE MemInv'
<1>1. todo # <<>> /\ ~W!At("alloc") /\ ~W!At("abandon") /\ ~W!At("deliver") /\ ~W!At("clear")
  BY DEF W!Download, W!At
<1>2. UNCHANGED <<buffers, delivered, freed>>
  BY DEF W!Download
<1>3. /\ buffers' \in [W!Buffers -> Buffer] /\ freed' = FALSE
      /\ \A i \in W!Buffers : (buffers'[i].there <=> buffers'[i].size > 0)
                             /\ (buffers'[i].holds => buffers'[i].there)
  BY <1>2 DEF MemInv
<1>4. CASE W!Continue
  BY <1>1, <1>2, <1>3, <1>4, MemContinue DEF W!Fits
<1>5. CASE todo' = <<<<"abandon", 0>>>> /\ UNCHANGED <<need, used>>
  BY <1>1, <1>2, <1>3, <1>5, MemFails
<1> QED
  BY <1>4, <1>5 DEF W!Download

\* Clearing empties what is there and is not refused, and touches nothing else.
LEMMA ClearedBuffers ==
  ASSUME MemInv, NEW refused, buffers' = W!Cleared(refused)
  PROVE  /\ buffers' \in [W!Buffers -> Buffer]
         /\ \A i \in W!Buffers : /\ buffers'[i].there = buffers[i].there
                                  /\ buffers'[i].size = buffers[i].size
                                  /\ (buffers'[i].there <=> buffers'[i].size > 0)
                                  /\ (buffers'[i].holds => buffers[i].holds)
                                  /\ (buffers'[i].holds => buffers'[i].there)
                                  /\ (buffers'[i].holds => i \in refused)
<1>1. ASSUME NEW i \in W!Buffers
      PROVE  /\ buffers'[i] \in Buffer
             /\ buffers'[i].there = buffers[i].there /\ buffers'[i].size = buffers[i].size
             /\ (buffers'[i].holds => buffers[i].holds /\ buffers[i].there /\ i \in refused)
  <2>1. PICK b : b = buffers[i]
    OBVIOUS
  <2>2. b \in Buffer /\ (b.holds => b.there)
    BY <2>1 DEF MemInv
  <2>3. PICK c : c = [b EXCEPT !.holds = FALSE]
    OBVIOUS
  <2>4. c \in Buffer /\ c.there = b.there /\ c.size = b.size /\ c.holds = FALSE
    BY <2>2, <2>3 DEF Buffer
  <2>5. buffers'[i] = IF b.there /\ i \notin refused THEN c ELSE b
    BY <2>1, <2>3 DEF W!Cleared, W!Clearable
  <2> QED
    BY <2>1, <2>2, <2>4, <2>5
<1>2. buffers' \in [W!Buffers -> Buffer]
  BY <1>1 DEF W!Cleared
<1> QED
  BY <1>1, <1>2 DEF MemInv

\* A clear empties the buffers, or is refused for some and the batch is given up.
LEMMA MemClear == ASSUME MemInv, W!Clear PROVE MemInv'
<1>1. todo # <<>> /\ ~W!At("alloc") /\ ~W!At("abandon") /\ ~W!At("deliver")
  BY DEF W!Clear, W!At
<1>2. PICK refused \in SUBSET {i \in W!Buffers : W!Clearable(i)} :
        /\ buffers' = W!Cleared(refused)
        /\ IF refused = {} THEN W!Continue
           ELSE todo' = <<<<"abandon", 0>>>> /\ UNCHANGED <<need, used>>
  BY DEF W!Clear
<1>3. /\ buffers' \in [W!Buffers -> Buffer]
      /\ \A i \in W!Buffers : /\ buffers'[i].there = buffers[i].there
                               /\ buffers'[i].size = buffers[i].size
                               /\ (buffers'[i].there <=> buffers'[i].size > 0)
                               /\ (buffers'[i].holds => buffers'[i].there)
                               /\ (buffers'[i].holds => i \in refused)
  BY <1>2, ClearedBuffers
<1>4. UNCHANGED <<delivered, freed>> /\ freed' = FALSE
  BY DEF W!Clear, MemInv
<1>5. CASE refused = {}
  <2>1. W!Continue /\ \A i \in W!Buffers : ~buffers'[i].holds
    BY <1>2, <1>3, <1>5
  <2>2. \A u \in used : W!Fits(buffers[u]) => buffers'[u].there /\ buffers'[u].size >= need
    BY <1>3 DEF W!Fits, MemInv
  <2> QED
    BY <1>1, <1>3, <1>4, <2>1, <2>2, MemContinue
<1>6. CASE refused # {}
  BY <1>1, <1>2, <1>3, <1>4, <1>6, MemFails
<1> QED
  BY <1>5, <1>6

\* The results leave last, when every buffer is clear.
LEMMA MemDeliver == ASSUME MemInv, W!Deliver PROVE MemInv'
<1>1. /\ todo # <<>> /\ Head(todo)[1] = "deliver" /\ W!At("deliver") /\ UNCHANGED <<buffers, freed>>
      /\ delivered' = TRUE /\ todo' = Tail(todo)
  BY DEF W!Deliver, W!At, W!Continue
<1>2. Script(todo') /\ todo' = <<>>
  BY <1>1, ScriptTail DEF MemInv
<1>3. need' = 0 /\ used' = {} /\ 0 \in 0 .. MaxSize
  BY <1>2, LibraryAssumption DEF W!Deliver, W!Continue
<1> QED
  BY <1>1, <1>2, <1>3 DEF MemInv

\* A way out with an error clears what it can and leaves no call.
LEMMA MemAbandon == ASSUME MemInv, W!At("abandon"), W!Abandon PROVE MemInv'
<1>1. PICK refused \in SUBSET W!Buffers : buffers' = W!Cleared(refused)
  BY DEF W!Abandon
<1>2. /\ buffers' \in [W!Buffers -> Buffer]
      /\ \A i \in W!Buffers : (buffers'[i].there <=> buffers'[i].size > 0)
                             /\ (buffers'[i].holds => buffers'[i].there)
  BY <1>1, ClearedBuffers
<1>3. todo' = <<>> /\ need' = 0 /\ used' = {} /\ 0 \in 0 .. MaxSize /\ UNCHANGED <<delivered, freed>>
  BY LibraryAssumption DEF W!Abandon
<1>4. delivered' = FALSE /\ freed' = FALSE
  BY <1>3 DEF MemInv, W!At
<1>5. Script(todo') /\ ~W!At("deliver")'
  BY <1>3 DEF Script, AllocsFirst, LeavesCleared, GivenUpAlone, W!At
<1> QED
  BY <1>2, <1>3, <1>4, <1>5 DEF MemInv

\* A new context has no buffer and no call to make.
LEMMA MemInit == W!Init => MemInv
<1> SUFFICES ASSUME W!Init PROVE MemInv
  OBVIOUS
<1>1. 0 \in 0 .. MaxSize
  BY LibraryAssumption
<1>2. PICK fresh : fresh = [there |-> FALSE, size |-> 0, holds |-> FALSE]
  OBVIOUS
<1>3. fresh \in Buffer /\ fresh.there = FALSE /\ fresh.size = 0 /\ fresh.holds = FALSE
  BY <1>1, <1>2 DEF Buffer
<1>4. buffers = [i \in W!Buffers |-> fresh]
  BY <1>2 DEF W!Init
<1>5. /\ buffers \in [W!Buffers -> Buffer]
      /\ \A i \in W!Buffers : (buffers[i].there <=> buffers[i].size > 0) /\ ~buffers[i].holds
  BY <1>3, <1>4
<1>6. todo = <<>> /\ need = 0 /\ used = {} /\ delivered = FALSE /\ freed = FALSE
  BY DEF W!Init
<1>7. Script(todo) /\ ~W!At("deliver")
  BY <1>6 DEF Script, AllocsFirst, LeavesCleared, GivenUpAlone, W!At
<1> QED
  BY <1>1, <1>5, <1>6, <1>7 DEF MemInv

\* Every step of a context's memory keeps the invariant.
LEMMA MemStep == MemInv /\ [W!Next]_workspaceVars => MemInv'
<1> SUFFICES ASSUME MemInv, [W!Next]_workspaceVars PROVE MemInv'
  OBVIOUS
<1>1. ASSUME NEW kind \in W!Kinds, NEW s \in 1 .. MaxSize, W!Begin(kind, s) PROVE MemInv'
  BY <1>1, MemBegin
<1>2. CASE W!Keep \/ W!Grow \/ W!GrowFails
  BY <1>2, MemKeep, MemGrow, MemGrowFails
<1>3. CASE W!Upload \/ W!Kernel \/ W!Download
  BY <1>3, MemUpload, MemKernel, MemDownload
<1>4. CASE W!Clear \/ W!Deliver
  BY <1>4, MemClear, MemDeliver
<1>5. CASE W!At("abandon") /\ W!Abandon
  BY <1>5, MemAbandon
<1>6. CASE UNCHANGED workspaceVars
  BY <1>6 DEF workspaceVars, MemInv, W!At, W!Fits
<1> QED
  BY <1>1, <1>2, <1>3, <1>4, <1>5, <1>6 DEF W!Next

\* The invariant implies what the run checks.
LEMMA MemImplies == MemInv => MemSafe
<1> SUFFICES ASSUME MemInv PROVE MemSafe
  OBVIOUS
<1>1. W!TypeOK
  BY DEF W!TypeOK, MemInv, Buffer
<1>2. W!KernelFits
  BY PastAllocs DEF W!KernelFits, W!Fits
<1> QED
  BY <1>1, <1>2 DEF MemSafe, W!OutputsAfterClear, W!FreedIsClear, MemInv

\* For every number of size classes, whatever CUDA calls fail: results leave a batch
\* only when no buffer of the context holds data, no memory goes back with data in
\* it, and no kernel runs on a buffer that is missing or too small.
THEOREM MemoryIsSafe == MCSpec => []DeviceMemorySafe
<1>1. MCInit => MemInv
  BY MemInit DEF MCInit
<1>2. MemInv /\ [MCNext]_<<part, vars, treeVars, batchVars, workspaceVars, grantVars>> => MemInv'
  <2> SUFFICES ASSUME MemInv, [MCNext]_<<part, vars, treeVars, batchVars, workspaceVars, grantVars>>
               PROVE  MemInv'
    OBVIOUS
  <2>1. [W!Next]_workspaceVars
    BY DEF MCNext
  <2> QED
    BY <2>1, MemStep
<1>3. MemInv => DeviceMemorySafe
  BY MemImplies DEF DeviceMemorySafe, MemSafe
<1> QED
  BY <1>1, <1>2, <1>3, PTL DEF MCSpec

-------------------------------------------------------------------------------
(* Publications, grants and consumers.  A publication is known by the number *)
(* that is its nonce; everything it hands out is bound to its grant. *)

\* The size of a set is one operator, in ContentGrant as here.
LEMMA GrantCardinality == \A S : G!Cardinality(S) = Cardinality(S)
BY DEF G!Cardinality, Cardinality

\* What publish() returned, bound together as it was made.
Published(p) ==
  /\ p.content \in Contents
  /\ p.grant.issuer = G!Issuer /\ p.grant.principal = Reader
  /\ p.grant.content_id = G!Sha(p.content) /\ p.grant.content_length = MCLength[p.content]
  /\ p.grant.issued_at \in 0 .. MaxTime /\ p.grant.expires_at = p.grant.issued_at + Lifetime
  /\ p.grant.encryption[1] = G!Cipher
  /\ p.ciphertext = G!Sealed(p.aes, p.grant.encryption[2], p.content, G!Metadata(p.grant))
  /\ p.grant.ciphertext_sha256 = G!Sha(p.ciphertext)
  /\ p.signature = G!Signature(p.signing, G!GrantDigest(p.grant))

GrantInv ==
  /\ now \in 0 .. MaxTime
  /\ IsFiniteSet(published) /\ Cardinality(published) <= MaxPublished
  /\ \A p \in published : /\ Published(p)
                          /\ \E n \in 0 .. Cardinality(published) - 1 : p.grant.encryption = <<G!Cipher, n>>
  /\ \A p, q \in published : p.grant.encryption = q.grant.encryption => p = q
  /\ G!GrantProvesContent

GrantSafe == G!TypeOK /\ G!GrantProvesContent /\ G!PublishedIsConsumable

\* A grant that verifies is the one a publication was signed with, and the
\* ciphertext whose hash it holds is the one of that publication.
LEMMA AcceptedIsPublished ==
  ASSUME GrantInv, NEW q \in published, NEW r \in published, NEW grant, NEW principal, NEW expected,
         G!Accepts(grant, q.ciphertext, r.signature, principal, expected)
  PROVE  /\ r.signing = PublisherKey /\ r.aes = ContentKey /\ r.grant = grant
         /\ r.content = q.ciphertext.content
         /\ principal = Reader /\ expected = G!Sha(r.content)
         /\ now \in r.grant.issued_at .. r.grant.issued_at + Lifetime - 1
<1>1. Published(q) /\ Published(r) /\ now \in 0 .. MaxTime
  BY DEF GrantInv
<1>2. G!Signature(r.signing, G!GrantDigest(r.grant)) = G!Signature(PublisherKey, G!GrantDigest(grant))
  BY <1>1 DEF Published, G!Accepts
<1>3. r.signing = PublisherKey /\ G!Sha(r.grant) = G!Sha(grant)
  BY <1>2 DEF G!Signature, G!GrantDigest
<1>4. r.grant = grant
  BY <1>3 DEF G!Sha
<1>5. G!Sha(r.ciphertext) = G!Sha(q.ciphertext)
  BY <1>1, <1>4 DEF Published, G!Accepts
<1>6. r.ciphertext = q.ciphertext
  BY <1>5 DEF G!Sha
<1>7. q.ciphertext = G!Sealed(ContentKey, grant.encryption[2], q.ciphertext.content, G!Metadata(grant))
  BY DEF G!Accepts, G!Opened
<1>8. G!Sealed(r.aes, r.grant.encryption[2], r.content, G!Metadata(r.grant))
       = G!Sealed(ContentKey, grant.encryption[2], q.ciphertext.content, G!Metadata(grant))
  BY <1>1, <1>6, <1>7 DEF Published
<1>9. r.aes = ContentKey /\ r.content = q.ciphertext.content
  BY <1>8 DEF G!Sealed
<1>10. principal = Reader /\ expected = G!Sha(r.content)
  BY <1>1, <1>4 DEF Published, G!Accepts
<1>11. r.grant.issued_at <= now /\ now < r.grant.issued_at + Lifetime
  BY <1>1, <1>4 DEF Published, G!Accepts, G!Current
<1>12. now \in r.grant.issued_at .. r.grant.issued_at + Lifetime - 1
  BY <1>1, <1>11, LibraryAssumption DEF Published
<1> QED
  BY <1>3, <1>4, <1>9, <1>10, <1>12

\* What publish() adds is bound together, with a nonce of its own.
LEMMA GrantPublish ==
  ASSUME GrantInv, NEW content \in Contents, NEW a \in AesKeys, NEW signing \in SigningKeys,
         G!Publish(content, a, signing)
  PROVE  GrantInv'
<1> DEFINE draft == G!Grant(content)
           ciphertext == G!Sealed(a, G!Nonce, content, G!Metadata(draft))
           grant == [draft EXCEPT !.ciphertext_sha256 = G!Sha(ciphertext)]
           new == [content |-> content, aes |-> a, signing |-> signing, grant |-> grant,
                   ciphertext |-> ciphertext, signature |-> G!Signature(signing, G!GrantDigest(grant))]
<1>1. /\ Cardinality(published) < MaxPublished /\ published' = published \cup {new}
      /\ got' = Nothing /\ now' = now
  <2>1. G!Cardinality(published) < MaxPublished /\ G!Cardinality(published) = Cardinality(published)
    BY GrantCardinality DEF G!Publish
  <2>2. published' = published \cup {new} /\ got' = Nothing /\ now' = now
    BY DEF G!Publish
  <2> QED
    BY <2>1, <2>2
<1>2. now \in 0 .. MaxTime /\ IsFiniteSet(published) /\ Cardinality(published) \in Nat
  BY FS_CardinalityType DEF GrantInv
<1>3. /\ grant.issuer = G!Issuer /\ grant.content_id = G!Sha(content)
      /\ grant.content_length = MCLength[content] /\ grant.principal = Reader
      /\ grant.issued_at = now /\ grant.expires_at = now + Lifetime
      /\ grant.encryption = <<G!Cipher, G!Nonce>> /\ grant.ciphertext_sha256 = G!Sha(ciphertext)
  BY DEF G!Grant
<1>4. G!Metadata(grant) = G!Metadata(draft)
  BY DEF G!Metadata, G!Grant
<1>5. PICK p : p = new
  OBVIOUS
<1>6. /\ p.content = content /\ p.aes = a /\ p.signing = signing /\ p.grant = grant
      /\ p.ciphertext = ciphertext /\ p.signature = G!Signature(signing, G!GrantDigest(grant))
  BY <1>5
<1>7. published' = published \cup {p}
  BY <1>1, <1>5
<1> HIDE DEF new
<1>8. ciphertext = G!Sealed(a, G!Nonce, content, G!Metadata(grant))
  BY <1>4
<1> HIDE DEF grant, ciphertext, draft
<1>9. grant.encryption[1] = G!Cipher /\ grant.encryption[2] = G!Nonce
  BY <1>3
<1>10. Published(p)
  BY <1>2, <1>3, <1>6, <1>8, <1>9 DEF Published
<1>11. \A q \in published : q.grant.encryption # p.grant.encryption
  <2> SUFFICES ASSUME NEW q \in published, q.grant.encryption = p.grant.encryption PROVE FALSE
    OBVIOUS
  <2>1. PICK n \in 0 .. Cardinality(published) - 1 : q.grant.encryption = <<G!Cipher, n>>
    BY DEF GrantInv
  <2>2. <<G!Cipher, n>> = <<G!Cipher, G!Nonce>>
    BY <2>1, <1>3, <1>6
  <2>3. n = G!Nonce
    BY ONLY <2>2
  <2>4. n = Cardinality(published)
    BY <2>3, GrantCardinality DEF G!Nonce
  <2> QED
    BY <2>4, <1>2
<1>12. p \notin published
  BY <1>11
<1>13. IsFiniteSet(published') /\ Cardinality(published') = Cardinality(published) + 1
  BY <1>2, <1>7, <1>12, FS_AddElement
<1>14. ASSUME NEW q \in published'
       PROVE  /\ Published(q)'
              /\ \E n \in 0 .. Cardinality(published') - 1 : q.grant.encryption = <<G!Cipher, n>>
  <2>1. CASE q = p
    <3>1. Cardinality(published) \in 0 .. Cardinality(published') - 1
      BY <1>2, <1>13
    <3>2. q.grant.encryption = <<G!Cipher, Cardinality(published)>>
      BY <2>1, <1>3, <1>6, GrantCardinality DEF G!Nonce
    <3>3. Published(q)
      BY <2>1, <1>10
    <3> QED
      BY <3>1, <3>2, <3>3 DEF Published
  <2>2. CASE q \in published
    <3>1. PICK n \in 0 .. Cardinality(published) - 1 : q.grant.encryption = <<G!Cipher, n>>
      BY <2>2 DEF GrantInv
    <3>2. n \in 0 .. Cardinality(published') - 1
      BY <1>2, <1>13
    <3>3. Published(q)
      BY <2>2 DEF GrantInv
    <3> QED
      BY <3>1, <3>2, <3>3 DEF Published
  <2> QED
    BY <1>7, <2>1, <2>2
<1>15. \A q, r \in published' : q.grant.encryption = r.grant.encryption => q = r
  BY <1>7, <1>11 DEF GrantInv
<1>16. Cardinality(published') <= MaxPublished /\ now' \in 0 .. MaxTime
  BY <1>1, <1>2, <1>13, LibraryAssumption
<1>17. G!GrantProvesContent'
  BY <1>1 DEF G!GrantProvesContent
<1> QED
  BY <1>13, <1>14, <1>15, <1>16, <1>17 DEF GrantInv

\* What consume() returns is what the trusted key published.
LEMMA GrantConsume ==
  ASSUME GrantInv, NEW p \in published, NEW q \in published, NEW r \in published,
         NEW principal, NEW expected, G!Consume(p, q, r, principal, expected)
  PROVE  GrantInv'
<1>1. published' = published /\ now' = now
  BY DEF G!Consume
<1>2. PICK grant : got' = [grant |-> grant, principal |-> principal, expected |-> expected, at |-> now,
               content |-> IF G!Accepts(grant, q.ciphertext, r.signature, principal, expected)
                           THEN q.ciphertext.content ELSE Nothing]
  BY DEF G!Consume
<1>3. /\ got'.grant = grant /\ got'.principal = principal /\ got'.expected = expected /\ got'.at = now
      /\ got'.content = IF G!Accepts(grant, q.ciphertext, r.signature, principal, expected)
                        THEN q.ciphertext.content ELSE Nothing
  BY <1>2
<1>4. ASSUME got'.content # Nothing
      PROVE  /\ r.signing = PublisherKey /\ r.aes = ContentKey
             /\ r.grant = got'.grant /\ r.content = got'.content
             /\ got'.principal = Reader /\ got'.expected = G!Sha(r.content)
             /\ got'.at \in r.grant.issued_at .. r.grant.issued_at + Lifetime - 1
  <2>1. G!Accepts(grant, q.ciphertext, r.signature, principal, expected) /\ got'.content = q.ciphertext.content
    BY <1>3, <1>4
  <2>2. /\ r.signing = PublisherKey /\ r.aes = ContentKey /\ r.grant = grant
        /\ r.content = q.ciphertext.content
        /\ principal = Reader /\ expected = G!Sha(r.content)
        /\ now \in r.grant.issued_at .. r.grant.issued_at + Lifetime - 1
    BY ONLY <2>1, GrantInv, AcceptedIsPublished
  <2> QED
    BY ONLY <2>1, <2>2, <1>3
<1>5. G!GrantProvesContent'
  BY <1>1, <1>4 DEF G!GrantProvesContent, G!Sha
<1> QED
  BY <1>1, <1>5 DEF GrantInv, Published

\* Nothing is published yet, and nothing was consumed.
LEMMA GrantInit == G!Init => GrantInv
<1> SUFFICES ASSUME G!Init PROVE GrantInv
  OBVIOUS
<1>1. published = {} /\ now = 0 /\ got = Nothing
  BY DEF G!Init
<1>2. IsFiniteSet(published) /\ Cardinality(published) = 0
  BY <1>1, FS_EmptySet
<1> QED
  BY <1>1, <1>2, LibraryAssumption DEF GrantInv, G!GrantProvesContent

\* Every step of publishers, the clock and consumers keeps the invariant.
LEMMA GrantStep == GrantInv /\ [G!Next]_grantVars => GrantInv'
<1> SUFFICES ASSUME GrantInv, [G!Next]_grantVars PROVE GrantInv'
  OBVIOUS
<1>1. ASSUME NEW content \in Contents, NEW a \in AesKeys, NEW signing \in SigningKeys,
             G!Publish(content, a, signing)
      PROVE  GrantInv'
  BY <1>1, GrantPublish
<1>2. CASE G!Tick
  BY <1>2, LibraryAssumption DEF G!Tick, GrantInv, G!GrantProvesContent, Published
<1>3. ASSUME NEW p \in published, NEW q \in published, NEW r \in published,
             NEW principal \in Principals, NEW content \in Contents,
             G!Consume(p, q, r, principal, G!Sha(content))
      PROVE  GrantInv'
  BY <1>3, GrantConsume
<1>4. CASE UNCHANGED grantVars
  BY <1>4 DEF grantVars, GrantInv, G!GrantProvesContent, Published
<1> QED
  BY <1>1, <1>2, <1>3, <1>4 DEF G!Next

\* What a publication handed out is accepted while its grant runs.
LEMMA PublishedAccepted ==
  ASSUME GrantInv, NEW p \in published, p.signing = PublisherKey, p.aes = ContentKey,
         now \in p.grant.issued_at .. p.grant.issued_at + Lifetime - 1
  PROVE  G!Accepts(p.grant, p.ciphertext, p.signature, Reader, G!Sha(p.content))
<1>1. Published(p) /\ now \in Nat /\ p.content # Nothing
  BY LibraryAssumption DEF GrantInv, Published
<1>2. G!Current(p.grant)
  BY <1>1, LibraryAssumption DEF Published, G!Current
<1>3. p.ciphertext.content = p.content
  BY <1>1 DEF Published, G!Sealed
<1>4. p.ciphertext = G!Sealed(ContentKey, p.grant.encryption[2], p.ciphertext.content, G!Metadata(p.grant))
  BY <1>1, <1>3 DEF Published
<1>5. G!Opened(ContentKey, p.grant.encryption[2], p.ciphertext, G!Metadata(p.grant)) = p.content
  BY <1>3, <1>4 DEF G!Opened
<1> QED
  BY <1>1, <1>2, <1>5 DEF Published, G!Accepts

\* The invariant implies what the run checks of grants.
LEMMA GrantImplies == GrantInv => GrantSafe
<1> SUFFICES ASSUME GrantInv PROVE GrantSafe
  OBVIOUS
<1>1. G!TypeOK
  BY GrantCardinality DEF G!TypeOK, GrantInv
<1>2. G!PublishedIsConsumable
  BY PublishedAccepted DEF G!PublishedIsConsumable
<1> QED
  BY <1>1, <1>2 DEF GrantSafe, GrantInv

\* For all contents, keys and clocks: a consumer accepts nothing but what the trusted
\* key published, within its window and for its reader, whatever mixture of grants,
\* ciphertexts and signatures reaches it; and accepts all of that.
THEOREM GrantsAreExact == MCSpec => []GrantsExact
<1>1. MCInit => GrantInv
  BY GrantInit DEF MCInit
<1>2. GrantInv /\ [MCNext]_<<part, vars, treeVars, batchVars, workspaceVars, grantVars>> => GrantInv'
  <2> SUFFICES ASSUME GrantInv, [MCNext]_<<part, vars, treeVars, batchVars, workspaceVars, grantVars>>
               PROVE  GrantInv'
    OBVIOUS
  <2>1. [G!Next]_grantVars
    BY DEF MCNext
  <2> QED
    BY <2>1, GrantStep
<1>3. GrantInv => GrantsExact
  BY GrantImplies DEF GrantsExact, GrantSafe
<1> QED
  BY <1>1, <1>2, <1>3, PTL DEF MCSpec

-------------------------------------------------------------------------------
(* The tree over the records of an export, and the walk along a proof. *)

\* The powers of two, as sizes of sets of subsets.
LEMMA Powers ==
  /\ 2 ^ 0 = 1
  /\ \A n \in Nat : 2 ^ n \in Nat /\ 2 ^ n > 0 /\ 2 ^ (n + 1) = 2 * 2 ^ n
<1>1. \A n \in Nat : IsFiniteSet(SUBSET (1 .. n)) /\ Cardinality(SUBSET (1 .. n)) = 2 ^ n
  <2> TAKE n \in Nat
  <2>1. IsFiniteSet(1 .. n) /\ Cardinality(1 .. n) = n
    BY FS_Interval
  <2> QED
    BY <2>1, FS_SUBSET
<1>2. 2 ^ 0 = 1
  <2>1. SUBSET (1 .. 0) = {{}}
    OBVIOUS
  <2>2. Cardinality({{}}) = 1
    BY FS_Singleton
  <2> QED
    BY <1>1, <2>1, <2>2
<1>3. ASSUME NEW n \in Nat
      PROVE  2 ^ n \in Nat /\ 2 ^ n > 0 /\ 2 ^ (n + 1) = 2 * 2 ^ n
  <2> DEFINE old == SUBSET (1 .. n)
             new == {t \cup {n + 1} : t \in old}
             add == [t \in old |-> t \cup {n + 1}]
  <2>1. SUBSET (1 .. n + 1) = old \cup new
    <3>1. 1 .. n + 1 = (1 .. n) \cup {n + 1} /\ n + 1 \notin 1 .. n
      OBVIOUS
    <3>2. ASSUME NEW t \in SUBSET (1 .. n + 1) PROVE t \in old \cup new
      <4>1. CASE n + 1 \in t
        <5>1. t \ {n + 1} \in old /\ t = (t \ {n + 1}) \cup {n + 1}
          BY ONLY <3>1, <3>2, <4>1
        <5> QED
          BY <5>1
      <4>2. CASE n + 1 \notin t
        BY <3>1, <3>2, <4>2
      <4> QED
        BY <4>1, <4>2
    <3>3. ASSUME NEW t \in old \cup new PROVE t \in SUBSET (1 .. n + 1)
      BY <3>1, <3>3
    <3> QED
      BY <3>2, <3>3
  <2>2. old \cap new = {}
    <3>1. n + 1 \notin 1 .. n
      OBVIOUS
    <3> QED
      BY <3>1
  <2>3. IsFiniteSet(old) /\ Cardinality(old) \in Nat /\ Cardinality(old) > 0
    <3>1. IsFiniteSet(old) /\ {} \in old
      BY <1>1
    <3> HIDE DEF old
    <3>2. Cardinality(old) \in Nat /\ Cardinality(old) # 0
      BY ONLY <3>1, FS_CardinalityType, FS_EmptySet
    <3> QED
      BY <3>1, <3>2
  <2>4. add \in Surjection(old, new) /\ add \in Injection(old, new)
    <3>1. add \in [old -> new] /\ (\A t \in new : \E s \in old : add[s] = t)
      OBVIOUS
    <3>2. ASSUME NEW a \in old, NEW b \in old, add[a] = add[b] PROVE a = b
      <4>1. n + 1 \notin a /\ n + 1 \notin b /\ a \cup {n + 1} = b \cup {n + 1}
        BY <3>2
      <4> QED
        BY <4>1
    <3> HIDE DEF add, old, new
    <3> QED
      BY <3>1, <3>2 DEF Injection, Surjection, IsInjective
  <2> HIDE DEF add, old, new
  <2>5. IsFiniteSet(new) /\ Cardinality(new) = Cardinality(old)
    BY <2>3, <2>4, FS_Surjection
  <2>6. Cardinality(old \cup new) = Cardinality(old) + Cardinality(new) - Cardinality({})
    BY <2>2, <2>3, <2>5, FS_Union
  <2>7. Cardinality(old) = 2 ^ n
    BY <1>1 DEF old
  <2>8. Cardinality(old \cup new) = 2 ^ (n + 1)
    <3>1. n + 1 \in Nat
      OBVIOUS
    <3> QED
      BY <1>1, <2>1, <3>1
  <2>9. Cardinality({}) = 0
    BY FS_EmptySet
  <2> QED
    BY ONLY <2>3, <2>5, <2>6, <2>7, <2>8, <2>9
<1> QED
  BY <1>2, <1>3

PowersOfTwo == {2 ^ h : h \in Nat}

\* A power of two is one or twice another one.
LEMMA HalfPower ==
  /\ 1 \in PowersOfTwo
  /\ \A p \in PowersOfTwo :
       /\ p \in Nat /\ p > 0
       /\ p # 1 => \E q \in PowersOfTwo : q \in Nat /\ q > 0 /\ p = 2 * q
<1>1. 1 \in PowersOfTwo
  <2>1. 2 ^ 0 = 1 /\ 0 \in Nat
    BY Powers
  <2> QED
    BY <2>1 DEF PowersOfTwo
<1>2. ASSUME NEW p \in PowersOfTwo
      PROVE  /\ p \in Nat /\ p > 0
             /\ p # 1 => \E q \in PowersOfTwo : q \in Nat /\ q > 0 /\ p = 2 * q
  <2>1. PICK h \in Nat : p = 2 ^ h
    BY DEF PowersOfTwo
  <2>2. p \in Nat /\ p > 0
    BY <2>1, Powers
  <2>3. ASSUME p # 1 PROVE \E q \in PowersOfTwo : q \in Nat /\ q > 0 /\ p = 2 * q
    <3>1. h # 0
      BY <2>1, <2>3, Powers
    <3>2. PICK g \in Nat : h = g + 1
      <4>1. h - 1 \in Nat /\ h = (h - 1) + 1
        BY <3>1
      <4> QED
        BY <4>1
    <3>3. 2 ^ g \in Nat /\ 2 ^ g > 0 /\ p = 2 * 2 ^ g
      BY <2>1, <3>2, Powers
    <3>4. 2 ^ g \in PowersOfTwo
      BY DEF PowersOfTwo
    <3> QED
      BY <3>3, <3>4
  <2> QED
    BY <2>2, <2>3
<1> QED
  BY <1>1, <1>2

\* The bits of a number: the least power of two above it.
LEMMA BitLengthIs ==
  ASSUME NEW n \in Nat
  PROVE  /\ BitLength(n) \in Nat /\ n < 2 ^ BitLength(n)
         /\ \A a \in Nat : n < 2 ^ a => BitLength(n) <= a
<1> DEFINE above == {b \in Nat : n < 2 ^ b}
           wrong == {m \in Nat : ~(m < 2 ^ m)}
<1>1. n < 2 ^ n
  <2> SUFFICES ASSUME wrong # {} PROVE FALSE
    OBVIOUS
  <2>1. PICK m \in wrong : \A k \in wrong : m <= k
    <3>1. wrong \subseteq Nat /\ wrong # {}
      OBVIOUS
    <3> HIDE DEF wrong
    <3> QED
      BY <3>1, LeastMember
  <2>2. m \in Nat /\ ~(m < 2 ^ m)
    OBVIOUS
  <2>3. m # 0
    BY <2>2, Powers
  <2>4. PICK k \in Nat : m = k + 1
    <3>1. m - 1 \in Nat /\ m = (m - 1) + 1
      BY <2>2, <2>3
    <3> QED
      BY <3>1
  <2>5. k \notin wrong
    BY <2>1, <2>4
  <2>6. k < 2 ^ k
    BY <2>5
  <2>7. 2 ^ k \in Nat /\ 2 ^ m = 2 * 2 ^ k
    BY <2>4, Powers
  <2> QED
    BY ONLY <2>2, <2>4, <2>6, <2>7
<1>2. PICK b \in above : \A a \in above : b <= a
  <2>1. above \subseteq Nat /\ above # {}
    BY <1>1
  <2> HIDE DEF above
  <2> QED
    BY <2>1, LeastMember
<1>3. b \in 0 .. n /\ n < 2 ^ b /\ \A a \in 0 .. b - 1 : n >= 2 ^ a
  <2>1. b \in Nat /\ n < 2 ^ b /\ b <= n
    BY <1>1, <1>2
  <2>2. ASSUME NEW a \in 0 .. b - 1 PROVE n >= 2 ^ a
    <3>1. a \in Nat /\ 2 ^ a \in Nat /\ a < b
      BY <2>1, Powers
    <3>2. a \notin above
      BY <1>2, <2>1, <3>1
    <3> QED
      BY <3>1, <3>2
  <2> QED
    BY <2>1, <2>2
<1>4. /\ BitLength(n) \in 0 .. n /\ n < 2 ^ BitLength(n)
      /\ \A a \in 0 .. BitLength(n) - 1 : n >= 2 ^ a
  <2> DEFINE Is(c) == n < 2 ^ c /\ \A a \in 0 .. c - 1 : n >= 2 ^ a
  <2>1. \E c \in 0 .. n : Is(c)
    BY <1>3
  <2>2. BitLength(n) = CHOOSE c \in 0 .. n : Is(c)
    BY DEF BitLength
  <2> HIDE DEF Is
  <2>3. BitLength(n) \in 0 .. n /\ Is(BitLength(n))
    BY <2>1, <2>2
  <2> QED
    BY <2>3 DEF Is
<1>5. ASSUME NEW a \in Nat, n < 2 ^ a PROVE BitLength(n) <= a
  <2>1. BitLength(n) \in Nat /\ 2 ^ a \in Nat
    BY <1>4, Powers
  <2>2. ~(a \in 0 .. BitLength(n) - 1)
    BY <1>4, <1>5, <2>1
  <2> QED
    BY <2>1, <2>2
<1> QED
  BY <1>4, <1>5

\* Where a segment splits: at a power of two below its size and not below half of it.
LEMMA SplitIs ==
  ASSUME NEW n \in Nat, n > 1
  PROVE  /\ Split(n) \in PowersOfTwo /\ Split(n) \in Nat /\ Split(n) > 0
         /\ Split(n) < n /\ n <= 2 * Split(n)
         /\ BitLength(n - 1) > 0 /\ Split(n) = 2 ^ (BitLength(n - 1) - 1)
<1> DEFINE bits == BitLength(n - 1)
<1>1. n - 1 \in Nat /\ n - 1 >= 1
  OBVIOUS
<1>2. bits \in Nat /\ n - 1 < 2 ^ bits /\ \A a \in Nat : n - 1 < 2 ^ a => bits <= a
  BY <1>1, BitLengthIs
<1>3. Split(n) = 2 ^ (bits - 1)
  BY DEF Split
<1> HIDE DEF bits
<1>4. bits # 0
  <2>1. 2 ^ 0 = 1
    BY Powers
  <2>2. ASSUME bits = 0 PROVE FALSE
    <3>1. n - 1 < 2 ^ 0
      BY <1>2, <2>2
    <3> QED
      BY <1>1, <2>1, <3>1
  <2> QED
    BY <2>2
<1>5. PICK h \in Nat : bits = h + 1
  <2>1. bits - 1 \in Nat /\ bits = (bits - 1) + 1
    BY <1>2, <1>4
  <2> QED
    BY <2>1
<1>6. bits - 1 = h
  BY <1>5
<1>7. 2 ^ h \in Nat /\ 2 ^ h > 0 /\ 2 ^ bits = 2 * 2 ^ h /\ 2 ^ h \in PowersOfTwo
  BY <1>5, Powers DEF PowersOfTwo
<1>8. ~(n - 1 < 2 ^ h)
  BY <1>2, <1>5
<1>9. Split(n) < n /\ n <= 2 * Split(n)
  BY <1>1, <1>2, <1>3, <1>6, <1>7, <1>8
<1> QED
  BY <1>3, <1>4, <1>5, <1>6, <1>7, <1>9 DEF bits

-------------------------------------------------------------------------------
\* One round of the inner loop, for the function that runs the rounds left.
Raised(up, a, b) == IF a = 0 \/ a % 2 = 1 THEN <<a, b>> ELSE up[<<a \div 2, b \div 2>>]

RaisesTo(up, m) == \A a \in 0 .. m, b \in Nat : up[<<a, b>>] = Raised(up, a, b)

\* The inner loop ends: there is a function that runs it from any position.
LEMMA RaisesUpTo ==
  ASSUME NEW n \in Nat
  PROVE  \E up : RaisesTo(up, n)
<1> DEFINE wrong == {m \in Nat : ~ \E up : RaisesTo(up, m)}
<1> SUFFICES ASSUME wrong # {} PROVE FALSE
  OBVIOUS
<1>1. PICK m \in wrong : \A k \in wrong : m <= k
  <2>1. wrong \subseteq Nat /\ wrong # {}
    OBVIOUS
  <2> HIDE DEF wrong
  <2> QED
    BY <2>1, LeastMember
<1>2. m \in Nat /\ ~ \E up : RaisesTo(up, m)
  OBVIOUS
<1>3. m # 0
  <2> DEFINE id == [e \in Nat \X Nat |-> e]
  <2>1. RaisesTo(id, 0)
    <3>1. ASSUME NEW a \in 0 .. 0, NEW b \in Nat PROVE id[<<a, b>>] = Raised(id, a, b)
      <4>1. a = 0 /\ <<a, b>> \in Nat \X Nat
        OBVIOUS
      <4> QED
        BY <4>1 DEF Raised
    <3> HIDE DEF id
    <3> QED
      BY <3>1 DEF RaisesTo
  <2> HIDE DEF id
  <2> QED
    BY <1>2, <2>1
<1>4. PICK k \in Nat : m = k + 1
  <2>1. m - 1 \in Nat /\ m = (m - 1) + 1
    BY <1>2, <1>3
  <2> QED
    BY <2>1
<1>5. PICK old : RaisesTo(old, k)
  BY <1>1, <1>4
<1> HIDE DEF wrong
<1> DEFINE new == [e \in Nat \X Nat |-> IF e[1] <= k THEN old[e] ELSE Raised(old, e[1], e[2])]
<1>6. \A a, b \in Nat : new[<<a, b>>] = IF a <= k THEN old[<<a, b>>] ELSE Raised(old, a, b)
  OBVIOUS
<1> HIDE DEF new
<1>7. ASSUME NEW a \in 0 .. m, NEW b \in Nat PROVE new[<<a, b>>] = Raised(new, a, b)
  <2>1. a \in Nat /\ a <= k + 1 /\ a \div 2 \in Nat /\ b \div 2 \in Nat
    BY <1>4
  <2>2. a # 0 => a \div 2 <= k
    BY <1>4, <2>1
  <2>3. new[<<a, b>>] = Raised(old, a, b)
    <3>1. CASE a <= k
      <4>1. a \in 0 .. k
        BY <2>1, <3>1
      <4> QED
        BY <1>5, <1>6, <2>1, <3>1, <4>1 DEF RaisesTo
    <3>2. CASE ~(a <= k)
      BY <1>6, <2>1, <3>2
    <3> QED
      BY <3>1, <3>2
  <2>4. a # 0 => new[<<a \div 2, b \div 2>>] = old[<<a \div 2, b \div 2>>]
    BY <1>6, <2>1, <2>2
  <2> QED
    BY <2>3, <2>4 DEF Raised
<1> QED
  BY <1>2, <1>7 DEF RaisesTo

\* The rounds left depend on the position alone.
LEMMA RaisesAlike ==
  ASSUME NEW f, NEW g, NEW n \in Nat, RaisesTo(f, n), RaisesTo(g, n)
  PROVE  \A a \in 0 .. n, b \in Nat : f[<<a, b>>] = g[<<a, b>>]
<1> DEFINE wrong == {a \in 0 .. n : \E b \in Nat : f[<<a, b>>] # g[<<a, b>>]}
<1> SUFFICES ASSUME wrong # {} PROVE FALSE
  OBVIOUS
<1>1. PICK a \in wrong : \A c \in wrong : a <= c
  <2>1. wrong \subseteq Nat /\ wrong # {}
    OBVIOUS
  <2> HIDE DEF wrong
  <2> QED
    BY <2>1, LeastMember
<1>2. PICK b \in Nat : f[<<a, b>>] # g[<<a, b>>]
  OBVIOUS
<1>3. a \in 0 .. n /\ f[<<a, b>>] = Raised(f, a, b) /\ g[<<a, b>>] = Raised(g, a, b)
  BY DEF RaisesTo
<1>4. a # 0
  BY <1>2, <1>3 DEF Raised
<1>5. a \div 2 \in 0 .. n /\ a \div 2 < a /\ b \div 2 \in Nat
  BY <1>3, <1>4
<1>6. a \div 2 \notin wrong
  <2>1. ~(a <= a \div 2)
    BY <1>3, <1>5
  <2> QED
    BY <1>1, <2>1
<1>7. f[<<a \div 2, b \div 2>>] = g[<<a \div 2, b \div 2>>]
  BY <1>5, <1>6
<1> QED
  BY <1>2, <1>3, <1>7 DEF Raised

\* The inner loop, round by round.
LEMMA LiftedIs ==
  ASSUME NEW a \in Nat, NEW b \in Nat
  PROVE  /\ a = 0 \/ a % 2 = 1 => Lifted(a, b) = <<a, b>>
         /\ ~(a = 0 \/ a % 2 = 1) => Lifted(a, b) = Lifted(a \div 2, b \div 2)
<1> DEFINE Loops(up) ==
             up = [edge \in Nat \X Nat |-> IF edge[1] = 0 \/ edge[1] % 2 = 1 THEN edge
                                           ELSE up[<<edge[1] \div 2, edge[2] \div 2>>]]
           run(n) == CHOOSE up : RaisesTo(up, n)
           loop   == [edge \in Nat \X Nat |-> run(edge[1])[edge]]
<1>1. \A n \in Nat : RaisesTo(run(n), n)
  BY RaisesUpTo
<1> HIDE DEF run
<1>2. \A c, d \in Nat : loop[<<c, d>>] = run(c)[<<c, d>>]
  OBVIOUS
<1>3. ASSUME NEW c \in Nat, NEW d \in Nat
      PROVE  loop[<<c, d>>] = IF c = 0 \/ c % 2 = 1 THEN <<c, d>>
                              ELSE loop[<<c \div 2, d \div 2>>]
  <2> HIDE DEF loop
  <2>1. c \div 2 \in Nat /\ d \div 2 \in Nat /\ c \div 2 <= c
    OBVIOUS
  <2>2. loop[<<c, d>>] = Raised(run(c), c, d)
    BY <1>1, <1>2 DEF RaisesTo
  <2>3. RaisesTo(run(c), c \div 2)
    <3>1. 0 .. c \div 2 \subseteq 0 .. c /\ RaisesTo(run(c), c)
      BY <1>1, <2>1
    <3> QED
      BY <3>1 DEF RaisesTo
  <2>4. RaisesTo(run(c \div 2), c \div 2)
    BY <1>1, <2>1
  <2>5. run(c)[<<c \div 2, d \div 2>>] = run(c \div 2)[<<c \div 2, d \div 2>>]
    <3>1. c \div 2 \in 0 .. c \div 2
      BY <2>1
    <3> QED
      BY <2>1, <2>3, <2>4, <3>1, RaisesAlike
  <2>6. loop[<<c \div 2, d \div 2>>] = run(c \div 2)[<<c \div 2, d \div 2>>]
    BY <1>2, <2>1
  <2> QED
    BY <2>2, <2>5, <2>6 DEF Raised
<1>4. Loops(loop)
  <2> DEFINE rhs == [edge \in Nat \X Nat |-> IF edge[1] = 0 \/ edge[1] % 2 = 1 THEN edge
                                             ELSE loop[<<edge[1] \div 2, edge[2] \div 2>>]]
  <2>1. loop = [edge \in Nat \X Nat |-> loop[edge]]
    OBVIOUS
  <2> HIDE DEF loop
  <2>2. \A edge \in Nat \X Nat : loop[edge] = rhs[edge]
    BY <1>3
  <2> QED
    BY <2>1, <2>2
<1> HIDE DEF loop
<1> DEFINE up == CHOOSE up : Loops(up)
<1>5. Loops(up)
  BY <1>4
<1>6. \A c, d \in Nat : Lifted(c, d) = up[<<c, d>>]
  BY DEF Lifted
<1>7. \A c, d \in Nat : up[<<c, d>>] = IF c = 0 \/ c % 2 = 1 THEN <<c, d>>
                                       ELSE up[<<c \div 2, d \div 2>>]
  <2> HIDE DEF up
  <2> QED
    BY <1>5
<1>8. a \div 2 \in Nat /\ b \div 2 \in Nat
  OBVIOUS
<1> HIDE DEF up
<1>9. Lifted(a, b) = up[<<a, b>>] /\ Lifted(a \div 2, b \div 2) = up[<<a \div 2, b \div 2>>]
  BY <1>6, <1>8
<1>10. up[<<a, b>>] = IF a = 0 \/ a % 2 = 1 THEN <<a, b>> ELSE up[<<a \div 2, b \div 2>>]
  BY <1>7
<1> QED
  BY ONLY <1>9, <1>10

-------------------------------------------------------------------------------
\* The lifts that a walk along the right edge takes: a position f below a power of
\* two is lifted to an odd one, with and without that power added to it.
LEMMA LiftsAlike ==
  ASSUME NEW f0 \in Nat, f0 > 0, NEW p0 \in PowersOfTwo, f0 < p0
  PROVE  \E g \in Nat, q \in PowersOfTwo :
           /\ g % 2 = 1 /\ g < q /\ q \in Nat
           /\ Lifted(f0, f0) = <<g, g>> /\ Lifted(f0 + p0, f0 + p0) = <<g + q, g + q>>
<1> DEFINE Good(f, p) == \E g \in Nat, q \in PowersOfTwo :
             /\ g % 2 = 1 /\ g < q /\ q \in Nat
             /\ Lifted(f, f) = <<g, g>> /\ Lifted(f + p, f + p) = <<g + q, g + q>>
           wrong == {f \in Nat : f > 0 /\ \E p \in PowersOfTwo : f < p /\ ~Good(f, p)}
<1> SUFFICES ASSUME wrong # {} PROVE FALSE
  <2>1. wrong = {} => Good(f0, p0)
    <3> HIDE DEF Good
    <3> QED
      OBVIOUS
  <2> QED
    BY <2>1
<1>1. PICK f \in wrong : \A c \in wrong : f <= c
  <2>1. wrong \subseteq Nat /\ wrong # {}
    OBVIOUS
  <2> HIDE DEF wrong
  <2> QED
    BY <2>1, LeastMember
<1>2. PICK p \in PowersOfTwo : f < p /\ ~Good(f, p)
  <2> HIDE DEF Good
  <2> QED
    OBVIOUS
<1>3. f \in Nat /\ f > 0
  OBVIOUS
<1>4. p \in Nat /\ p > 0
  BY HalfPower
<1>5. p # 1
  BY <1>2, <1>3, <1>4
<1>6. PICK q \in PowersOfTwo : q \in Nat /\ q > 0 /\ p = 2 * q
  BY <1>5, HalfPower
<1>7. CASE f % 2 = 1
  <2>1. f + p \in Nat /\ (f + p) % 2 = 1
    BY <1>3, <1>6, <1>7
  <2>2. Lifted(f, f) = <<f, f>> /\ Lifted(f + p, f + p) = <<f + p, f + p>>
    BY <1>3, <1>7, <2>1, LiftedIs
  <2>3. Good(f, p)
    BY <1>2, <1>3, <1>4, <1>7, <2>2
  <2> QED
    BY <1>2, <2>3
<1>8. CASE f % 2 # 1
  <2>1. PICK c \in Nat : c = f \div 2
    BY <1>3
  <2>2. c > 0 /\ c < f /\ c < q /\ (f + p) \div 2 = c + q /\ (f + p) % 2 # 1
        /\ f + p \in Nat /\ f + p # 0
    BY <1>2, <1>3, <1>6, <1>8, <2>1
  <2>3. c \notin wrong
    <3>1. ~(f <= c)
      BY <1>3, <2>1, <2>2
    <3> QED
      BY <1>1, <3>1
  <2>4. Good(c, q)
    <3> HIDE DEF Good
    <3> QED
      BY <2>2, <2>3
  <2>5. Lifted(f, f) = Lifted(c, c) /\ Lifted(f + p, f + p) = Lifted(c + q, c + q)
    <3>1. f # 0
      BY <1>3
    <3>2. Lifted(f, f) = Lifted(f \div 2, f \div 2)
      BY <1>3, <1>8, <3>1, LiftedIs
    <3>3. Lifted(f + p, f + p) = Lifted((f + p) \div 2, (f + p) \div 2)
      BY <2>2, LiftedIs
    <3> QED
      BY <2>1, <2>2, <3>2, <3>3
  <2>6. Good(f, p)
    BY <2>4, <2>5
  <2> QED
    BY <1>2, <2>6
<1> QED
  BY <1>7, <1>8

\* A power of two is lifted to one.
LEMMA LiftsPower ==
  ASSUME NEW p0 \in PowersOfTwo
  PROVE  Lifted(p0, p0) = <<1, 1>>
<1> DEFINE wrong == {p \in Nat : p \in PowersOfTwo /\ Lifted(p, p) # <<1, 1>>}
<1> SUFFICES ASSUME wrong # {} PROVE FALSE
  BY HalfPower
<1>1. PICK p \in wrong : \A c \in wrong : p <= c
  <2>1. wrong \subseteq Nat /\ wrong # {}
    OBVIOUS
  <2> HIDE DEF wrong
  <2> QED
    BY <2>1, LeastMember
<1>2. p \in PowersOfTwo /\ p \in Nat /\ p > 0 /\ Lifted(p, p) # <<1, 1>>
  BY HalfPower
<1>3. CASE p = 1
  <2>1. Lifted(1, 1) = <<1, 1>>
    <3>1. 1 % 2 = 1 /\ 1 \in Nat
      OBVIOUS
    <3> QED
      BY <3>1, LiftedIs
  <2> QED
    BY <1>2, <1>3, <2>1
<1>4. CASE p # 1
  <2>1. PICK q \in PowersOfTwo : q \in Nat /\ q > 0 /\ p = 2 * q
    BY <1>2, <1>4, HalfPower
  <2>2. q < p /\ p % 2 # 1 /\ p \div 2 = q /\ p # 0
    BY <2>1
  <2>3. Lifted(p, p) = Lifted(p \div 2, p \div 2)
    BY <1>2, <2>2, LiftedIs
  <2>4. q \notin wrong
    <3>1. ~(p <= q)
      BY <1>2, <2>1, <2>2
    <3> QED
      BY <1>1, <3>1
  <2>5. Lifted(q, q) = <<1, 1>>
    BY <2>1, <2>4
  <2> QED
    BY <1>2, <2>2, <2>3, <2>5
<1> QED
  BY <1>3, <1>4

\* A walk on its way, and one that has failed.
Live(fn, sn, value)  == [fn |-> fn, sn |-> sn, value |-> value, failed |-> FALSE]
Ended(fn, sn, value) == [fn |-> fn, sn |-> sn, value |-> value, failed |-> TRUE]

\* The start of a walk.
From(record_, index_, n) == Live(index_, n - 1, Leaf(record_))

WalkTo(at, start, path_, n) ==
  at[0] = start /\ \A m \in 1 .. n : at[m] = Climb(at[m - 1], path_[m])

Done(x) == ~x.failed /\ x.sn = 0

Finds(x, root) == Done(x) /\ x.value = root

\* The walk of a claimed proof can be taken to its end.
LEMMA WalkIs ==
  ASSUME NEW n0 \in Nat, NEW start, NEW path_
  PROVE  \E at : /\ at = [m \in 0 .. n0 |-> IF m = 0 THEN start ELSE Climb(at[m - 1], path_[m])]
                 /\ WalkTo(at, start, path_, n0)
<1> DEFINE Walks(at, n) == at = [m \in 0 .. n |-> IF m = 0 THEN start ELSE Climb(at[m - 1], path_[m])]
           wrong == {n \in Nat : ~ \E at : Walks(at, n)}
<1>1. wrong = {}
  <2> SUFFICES ASSUME wrong # {} PROVE FALSE
    OBVIOUS
  <2>1. PICK n \in wrong : \A c \in wrong : n <= c
    <3>1. wrong \subseteq Nat /\ wrong # {}
      OBVIOUS
    <3> HIDE DEF wrong
    <3> QED
      BY <3>1, LeastMember
  <2>2. n \in Nat /\ ~ \E at : Walks(at, n)
    <3> HIDE DEF Walks
    <3> QED
      OBVIOUS
  <2>3. n # 0
    <3> DEFINE one == [m \in 0 .. 0 |-> start]
    <3>1. one = [m \in 0 .. 0 |-> IF m = 0 THEN start ELSE Climb(one[m - 1], path_[m])]
      <4> HIDE DEF Climb
      <4> QED
        OBVIOUS
    <3>2. Walks(one, 0)
      BY <3>1
    <3> HIDE DEF Walks, one
    <3> QED
      BY <2>2, <3>2
  <2>4. PICK k \in Nat : n = k + 1
    <3>1. n - 1 \in Nat /\ n = (n - 1) + 1
      BY <2>2, <2>3
    <3> QED
      BY <3>1
  <2>5. PICK old : Walks(old, k)
    <3> HIDE DEF Walks
    <3> QED
      BY <2>1, <2>4
  <2> DEFINE new == [m \in 0 .. n |-> IF m = n THEN Climb(old[k], path_[n]) ELSE old[m]]
  <2>6. \A m \in 0 .. k : old[m] = IF m = 0 THEN start ELSE Climb(old[m - 1], path_[m])
    BY <2>5
  <2>7. \A m \in 0 .. n : new[m] = IF m = 0 THEN start ELSE Climb(new[m - 1], path_[m])
    <3> TAKE m \in 0 .. n
    <3>1. CASE m = n
      <4>1. m # 0 /\ m - 1 = k /\ k \in 0 .. n /\ k # n
        BY <2>4, <3>1
      <4>2. new[m] = Climb(old[k], path_[n]) /\ new[k] = old[k]
        BY <3>1, <4>1
      <4> QED
        BY <3>1, <4>1, <4>2
    <3>2. CASE m # n
      <4>1. m \in 0 .. k /\ new[m] = old[m]
        BY <2>4, <3>2
      <4>2. m # 0 => m - 1 \in 0 .. n /\ m - 1 # n
        BY <2>4, <4>1
      <4>3. m # 0 => new[m - 1] = old[m - 1]
        BY <4>2
      <4> HIDE DEF new
      <4> QED
        BY <2>6, <4>1, <4>3
    <3> QED
      BY <3>1, <3>2
  <2>8. new = [m \in 0 .. n |-> new[m]]
    OBVIOUS
  <2> HIDE DEF new
  <2>9. new = [m \in 0 .. n |-> IF m = 0 THEN start ELSE Climb(new[m - 1], path_[m])]
    BY <2>7, <2>8
  <2>10. Walks(new, n)
    BY <2>9
  <2> HIDE DEF Walks
  <2> QED
    BY <2>2, <2>10
<1>2. PICK at : Walks(at, n0)
  <2> HIDE DEF Walks
  <2> QED
    BY <1>1
<1>3. WalkTo(at, start, path_, n0)
  <2>1. \A m \in 0 .. n0 : at[m] = IF m = 0 THEN start ELSE Climb(at[m - 1], path_[m])
    BY <1>2
  <2>2. 0 \in 0 .. n0 /\ \A m \in 1 .. n0 : m \in 0 .. n0 /\ m # 0
    OBVIOUS
  <2> QED
    BY <2>1, <2>2 DEF WalkTo
<1> QED
  BY <1>2, <1>3

\* Acceptance, as the end of a walk.
LEMMA IncludedIs ==
  ASSUME NEW record_, NEW index_, NEW size_ \in Nat, NEW path_, NEW root_, Len(path_) \in Nat
  PROVE  \E at : /\ WalkTo(at, From(record_, index_, size_), path_, Len(path_))
                 /\ Included(record_, index_, size_, path_, root_) <=> Finds(at[Len(path_)], root_)
<1> DEFINE start == From(record_, index_, size_)
           Walks(at) == at = [m \in 0 .. Len(path_) |->
                                IF m = 0 THEN start ELSE Climb(at[m - 1], path_[m])]
           walk == CHOOSE at : Walks(at)
<1>1. \E at : Walks(at)
  <2> HIDE DEF start
  <2>1. Len(path_) \in Nat
    OBVIOUS
  <2>2. \E at : /\ at = [m \in 0 .. Len(path_) |->
                          IF m = 0 THEN start ELSE Climb(at[m - 1], path_[m])]
                /\ WalkTo(at, start, path_, Len(path_))
    BY ONLY <2>1, WalkIs
  <2> QED
    BY <2>2
<1>2. Walks(walk)
  <2> HIDE DEF Walks
  <2> QED
    BY <1>1
<1>3. Included(record_, index_, size_, path_, root_)
        <=> Finds(walk[Len(path_)], root_)
  BY DEF Included, Finds, Done, Live, From
<1> HIDE DEF walk
<1>4. WalkTo(walk, start, path_, Len(path_))
  <2> HIDE DEF start
  <2>1. \A m \in 0 .. Len(path_) : walk[m] = IF m = 0 THEN start ELSE Climb(walk[m - 1], path_[m])
    BY <1>2
  <2>2. 0 \in 0 .. Len(path_) /\ \A m \in 1 .. Len(path_) : m \in 0 .. Len(path_) /\ m # 0
    OBVIOUS
  <2> QED
    BY <2>1, <2>2 DEF WalkTo
<1> QED
  BY <1>3, <1>4

Sides == {"left", "right"}

\* The hash of a value with a sibling that is on the other side.
Paired(side, value, sibling) == IF side = "left" THEN Node(value, sibling) ELSE Node(sibling, value)

\* The walk in a tree beside the walk in its half: in the left half the positions
\* agree, in the right one they are a power of two further, and the tree has a level
\* more than its left half.
BesideAt(side, f, n, v, p, whole, half) ==
  /\ f <= n /\ p \in Nat /\ p > 0
  /\ IF side = "left"
     THEN half = Live(f, p - 1, v) /\ f < p /\ whole = Live(f, n, v) /\ p <= n /\ n < 2 * p
     ELSE half = Live(f, n, v) /\ n < p /\ whole = Live(f + p, n + p, v)

Beside(side, whole, half) ==
  \E v : \E f, n \in Nat, p \in PowersOfTwo : BesideAt(side, f, n, v, p, whole, half)

\* Its two cases.
LEMMA BesideIs ==
  ASSUME NEW f \in Nat, NEW n \in Nat, NEW v, NEW p \in PowersOfTwo, NEW whole, NEW half,
         f <= n, p \in Nat, p > 0
  PROVE  /\ half = Live(f, p - 1, v) /\ f < p /\ whole = Live(f, n, v) /\ p <= n /\ n < 2 * p
              => Beside("left", whole, half)
         /\ half = Live(f, n, v) /\ n < p /\ whole = Live(f + p, n + p, v)
              => Beside("right", whole, half)
<1>1. ASSUME half = Live(f, p - 1, v), f < p, whole = Live(f, n, v), p <= n, n < 2 * p
      PROVE  Beside("left", whole, half)
  <2>1. BesideAt("left", f, n, v, p, whole, half)
    BY <1>1 DEF BesideAt
  <2> QED
    BY <2>1 DEF Beside
<1>2. ASSUME half = Live(f, n, v), n < p, whole = Live(f + p, n + p, v)
      PROVE  Beside("right", whole, half)
  <2>1. BesideAt("right", f, n, v, p, whole, half)
    BY <1>2 DEF BesideAt
  <2> QED
    BY <2>1 DEF Beside
<1> QED
  BY <1>1, <1>2

\* The half's walk has failed, and the whole's has, or will at the next sibling.
Over(whole, half) ==
  /\ \E f, n, v : half = Ended(f, n, v)
  /\ \E f, n, v : whole = Ended(f, n, v) \/ (whole = Live(f, n, v) /\ n = 0)

\* The kinds of round: the sibling is on the left,
LEMMA RoundUp ==
  ASSUME NEW f \in Nat, NEW n \in Nat, NEW v, NEW x, x = Live(f, n, v), n # 0, f % 2 = 1 \/ f = n,
         NEW a \in Nat, NEW b \in Nat, Lifted(f, n) = <<a, b>>, NEW sibling
  PROVE  Climb(x, sibling) = Live(a \div 2, b \div 2, Node(sibling, v))
<1>1. x.fn = f /\ x.sn = n /\ x.value = v
  BY DEF Live
<1>2. Lifted(f, n)[1] = a /\ Lifted(f, n)[2] = b
  OBVIOUS
<1>3. Climb(x, sibling) = [x EXCEPT !.fn = a \div 2, !.sn = b \div 2, !.value = Node(sibling, v)]
  BY <1>1, <1>2 DEF Climb
<1>4. PICK c, d : c = a \div 2 /\ d = b \div 2
  OBVIOUS
<1>5. PICK y : y = [x EXCEPT !.fn = c, !.sn = d, !.value = Node(sibling, v)]
  OBVIOUS
<1>6. y = Live(c, d, Node(sibling, v))
  BY ONLY <1>5, x = Live(f, n, v) DEF Live
<1> QED
  BY <1>3, <1>4, <1>5, <1>6

\* the sibling is on the right,
LEMMA RoundAcross ==
  ASSUME NEW f \in Nat, NEW n \in Nat, NEW v, NEW x, x = Live(f, n, v),
         n # 0, ~(f % 2 = 1), f # n, NEW sibling
  PROVE  Climb(x, sibling) = Live(f \div 2, n \div 2, Node(v, sibling))
<1>1. x.fn = f /\ x.sn = n /\ x.value = v
  BY DEF Live
<1>2. Climb(x, sibling) = [x EXCEPT !.fn = f \div 2, !.sn = n \div 2, !.value = Node(v, sibling)]
  BY <1>1 DEF Climb
<1>3. PICK c, d : c = f \div 2 /\ d = n \div 2
  OBVIOUS
<1>4. PICK y : y = [x EXCEPT !.fn = c, !.sn = d, !.value = Node(v, sibling)]
  OBVIOUS
<1>5. y = Live(c, d, Node(v, sibling))
  BY ONLY <1>4, x = Live(f, n, v) DEF Live
<1> QED
  BY <1>2, <1>3, <1>4, <1>5

\* there is no sibling left on any level.
LEMMA RoundOut ==
  ASSUME NEW f, NEW n, NEW v, NEW x, x = Live(f, n, v), n = 0, NEW sibling
  PROVE  Climb(x, sibling) = Ended(f, n, v)
<1>1. x.sn = n
  BY DEF Live
<1>2. Climb(x, sibling) = [x EXCEPT !.failed = TRUE]
  BY <1>1 DEF Climb
<1>3. PICK y : y = [x EXCEPT !.failed = TRUE]
  OBVIOUS
<1>4. y = Ended(f, n, v)
  BY ONLY <1>3, x = Live(f, n, v) DEF Live, Ended
<1> QED
  BY <1>2, <1>3, <1>4

\* A walk fails for good.
LEMMA EndedStays ==
  ASSUME NEW f, NEW n, NEW v, NEW x, x = Ended(f, n, v), NEW sibling
  PROVE  \E a, b, c : Climb(x, sibling) = Ended(a, b, c)
<1>1. CASE x.sn = 0
  <2>1. Climb(x, sibling) = [x EXCEPT !.failed = TRUE]
    BY <1>1 DEF Climb
  <2>2. PICK y : y = [x EXCEPT !.failed = TRUE]
    OBVIOUS
  <2>3. y = Ended(f, n, v)
    BY ONLY <2>2, x = Ended(f, n, v) DEF Ended
  <2> QED
    BY <2>1, <2>2, <2>3
<1>2. CASE x.sn # 0
  <2>1. \E a, b, c : Climb(x, sibling) = [x EXCEPT !.fn = a, !.sn = b, !.value = c]
    BY <1>2 DEF Climb
  <2>2. PICK a, b, c : Climb(x, sibling) = [x EXCEPT !.fn = a, !.sn = b, !.value = c]
    BY <2>1
  <2>3. PICK y : y = [x EXCEPT !.fn = a, !.sn = b, !.value = c]
    OBVIOUS
  <2>4. y = Ended(a, b, c)
    BY ONLY <2>3, x = Ended(f, n, v) DEF Ended
  <2> QED
    BY <2>2, <2>3, <2>4
<1> QED
  BY <1>1, <1>2

\* Once the half's walk is over, the whole's fails with the next sibling.
LEMMA OverStays ==
  ASSUME NEW whole, NEW half, Over(whole, half), NEW sibling
  PROVE  /\ Over(Climb(whole, sibling), Climb(half, sibling))
         /\ Climb(whole, sibling).failed = TRUE
<1>1. \E f, n, v : Climb(half, sibling) = Ended(f, n, v)
  <2>1. PICK f, n, v : half = Ended(f, n, v)
    BY DEF Over
  <2> QED
    BY ONLY <2>1, EndedStays
<1>2. \E f, n, v : Climb(whole, sibling) = Ended(f, n, v)
  <2>1. PICK f, n, v : whole = Ended(f, n, v) \/ (whole = Live(f, n, v) /\ n = 0)
    BY DEF Over
  <2>2. CASE whole = Ended(f, n, v)
    BY ONLY <2>2, EndedStays
  <2>3. CASE whole = Live(f, n, v) /\ n = 0
    BY ONLY <2>3, RoundOut
  <2> QED
    BY <2>1, <2>2, <2>3
<1>3. Climb(whole, sibling).failed = TRUE
  <2>1. PICK f, n, v : Climb(whole, sibling) = Ended(f, n, v)
    BY <1>2
  <2> QED
    BY ONLY <2>1 DEF Ended
<1> QED
  BY <1>1, <1>2, <1>3 DEF Over

\* A round in the left half.
LEMMA LeftRound ==
  ASSUME NEW whole, NEW half, Beside("left", whole, half), NEW sibling
  PROVE  /\ half.failed = FALSE /\ whole.failed = FALSE /\ whole.sn # 0
         /\ half.sn = 0 =>
              /\ Done(Climb(whole, sibling)) /\ Climb(whole, sibling).value = Node(half.value, sibling)
              /\ Over(Climb(whole, sibling), Climb(half, sibling))
         /\ half.sn # 0 => Beside("left", Climb(whole, sibling), Climb(half, sibling))
<1>a. PICK v : \E f, n \in Nat, p \in PowersOfTwo : BesideAt("left", f, n, v, p, whole, half)
  BY DEF Beside
<1>b. PICK f \in Nat, n \in Nat, p \in PowersOfTwo : BesideAt("left", f, n, v, p, whole, half)
  BY <1>a
<1>1. /\ f <= n /\ p \in Nat /\ p > 0
      /\ half = Live(f, p - 1, v) /\ f < p
      /\ whole = Live(f, n, v) /\ p <= n /\ n < 2 * p
  BY <1>b DEF BesideAt
<1>2. PICK k \in Nat : k = p - 1
  BY <1>1
<1>3. half = Live(f, k, v) /\ n # 0
  BY <1>1, <1>2
<1>4. half.failed = FALSE /\ half.sn = k /\ half.value = v
  BY ONLY <1>3 DEF Live
<1>5. whole.failed = FALSE /\ whole.sn = n
  BY ONLY <1>1 DEF Live
<1>6. ASSUME half.sn = 0
      PROVE  /\ Done(Climb(whole, sibling)) /\ Climb(whole, sibling).value = Node(half.value, sibling)
             /\ Over(Climb(whole, sibling), Climb(half, sibling))
  <2>1. k = 0 /\ f = 0 /\ n = 1 /\ ~(f % 2 = 1) /\ f # n /\ f \div 2 = 0 /\ n \div 2 = 0
    BY <1>1, <1>2, <1>4, <1>6
  <2>2. Climb(whole, sibling) = Live(f \div 2, n \div 2, Node(v, sibling))
    BY <1>1, <1>3, <2>1, RoundAcross
  <2>3. Climb(half, sibling) = Ended(f, k, v)
    BY <1>3, <2>1, RoundOut
  <2>4. Climb(whole, sibling) = Live(0, 0, Node(v, sibling))
    BY ONLY <2>1, <2>2
  <2>5. Over(Climb(whole, sibling), Climb(half, sibling))
    BY ONLY <2>3, <2>4 DEF Over
  <2>6. Done(Climb(whole, sibling)) /\ Climb(whole, sibling).value = Node(v, sibling)
    BY ONLY <2>4 DEF Done, Live
  <2> QED
    BY ONLY <1>4, <2>5, <2>6
<1>7. ASSUME half.sn # 0
      PROVE  Beside("left", Climb(whole, sibling), Climb(half, sibling))
  <2>1. p # 1 /\ k # 0
    BY <1>2, <1>4, <1>7
  <2>2. PICK q \in PowersOfTwo : q \in Nat /\ q > 0 /\ p = 2 * q
    BY <2>1, HalfPower
  <2>3. PICK g \in Nat, m \in Nat : g = f \div 2 /\ m = n \div 2
    OBVIOUS
  <2>4. k \div 2 = q - 1 /\ g < q /\ g <= m /\ q <= m /\ m < 2 * q
    BY <1>1, <1>2, <2>2, <2>3
  <2>5. \E w : Climb(half, sibling) = Live(g, q - 1, w) /\ Climb(whole, sibling) = Live(g, m, w)
    <3>1. CASE f % 2 = 1
      <4>1. Lifted(f, k) = <<f, k>> /\ Lifted(f, n) = <<f, n>>
        BY <3>1, LiftedIs
      <4>2. Climb(half, sibling) = Live(f \div 2, k \div 2, Node(sibling, v))
        BY <1>3, <2>1, <3>1, <4>1, RoundUp
      <4>3. Climb(whole, sibling) = Live(f \div 2, n \div 2, Node(sibling, v))
        BY <1>1, <1>3, <3>1, <4>1, RoundUp
      <4> QED
        BY ONLY <2>3, <2>4, <4>2, <4>3
    <3>2. CASE ~(f % 2 = 1)
      <4>1. f # k /\ f # n
        BY <1>1, <1>2, <2>2, <3>2
      <4>2. Climb(half, sibling) = Live(f \div 2, k \div 2, Node(v, sibling))
        BY <1>3, <2>1, <3>2, <4>1, RoundAcross
      <4>3. Climb(whole, sibling) = Live(f \div 2, n \div 2, Node(v, sibling))
        BY <1>1, <1>3, <3>2, <4>1, RoundAcross
      <4> QED
        BY ONLY <2>3, <2>4, <4>2, <4>3
    <3> QED
      BY <3>1, <3>2
  <2>6. PICK w : Climb(half, sibling) = Live(g, q - 1, w) /\ Climb(whole, sibling) = Live(g, m, w)
    BY <2>5
  <2> QED
    BY <2>2, <2>4, <2>6, BesideIs
<1> QED
  BY <1>3, <1>4, <1>5, <1>6, <1>7

\* A round in the right half, where the last position may be lifted.
LEMMA RightRound ==
  ASSUME NEW whole, NEW half, Beside("right", whole, half), NEW sibling
  PROVE  /\ half.failed = FALSE /\ whole.failed = FALSE /\ whole.sn # 0
         /\ half.sn = 0 =>
              /\ Done(Climb(whole, sibling)) /\ Climb(whole, sibling).value = Node(sibling, half.value)
              /\ Over(Climb(whole, sibling), Climb(half, sibling))
         /\ half.sn # 0 => Beside("right", Climb(whole, sibling), Climb(half, sibling))
<1>a. PICK v : \E f, n \in Nat, p \in PowersOfTwo : BesideAt("right", f, n, v, p, whole, half)
  BY DEF Beside
<1>b. PICK f \in Nat, n \in Nat, p \in PowersOfTwo : BesideAt("right", f, n, v, p, whole, half)
  BY <1>a
<1>1. /\ f <= n /\ p \in Nat /\ p > 0
      /\ half = Live(f, n, v) /\ n < p
      /\ whole = Live(f + p, n + p, v)
  BY <1>b DEF BesideAt
<1>2. PICK F \in Nat, N \in Nat : F = f + p /\ N = n + p
  BY <1>1
<1>3. whole = Live(F, N, v) /\ N # 0
  BY <1>1, <1>2
<1>4. /\ half.failed = FALSE /\ half.sn = n /\ half.value = v
      /\ whole.failed = FALSE /\ whole.sn = N
  BY <1>1, <1>3 DEF Live
<1>5. ASSUME half.sn = 0
      PROVE  /\ Done(Climb(whole, sibling)) /\ Climb(whole, sibling).value = Node(sibling, half.value)
             /\ Over(Climb(whole, sibling), Climb(half, sibling))
  <2>1. n = 0 /\ F = p /\ N = p /\ F = N
    BY <1>1, <1>2, <1>4, <1>5
  <2>2. Lifted(F, N) = <<1, 1>>
    BY <1>1, <2>1, LiftsPower
  <2>3. Climb(whole, sibling) = Live(1 \div 2, 1 \div 2, Node(sibling, v))
    BY <1>3, <2>1, <2>2, RoundUp
  <2>4. 1 \div 2 = 0
    OBVIOUS
  <2>5. Climb(half, sibling) = Ended(f, n, v)
    BY <1>1, <2>1, RoundOut
  <2>6. Climb(whole, sibling) = Live(0, 0, Node(sibling, v))
    BY ONLY <2>3, <2>4
  <2>7. Over(Climb(whole, sibling), Climb(half, sibling))
    BY ONLY <2>5, <2>6 DEF Over
  <2>8. Done(Climb(whole, sibling)) /\ Climb(whole, sibling).value = Node(sibling, v)
    BY ONLY <2>6 DEF Done, Live
  <2> QED
    BY ONLY <1>4, <2>7, <2>8
<1>6. ASSUME half.sn # 0
      PROVE  Beside("right", Climb(whole, sibling), Climb(half, sibling))
  <2>1. n # 0 /\ n > 0 /\ p # 1
    <3>1. n # 0
      BY ONLY <1>4, <1>6
    <3> QED
      BY <1>1, <3>1
  <2>2. PICK q \in PowersOfTwo : q \in Nat /\ q > 0 /\ p = 2 * q
    BY <2>1, HalfPower
  <2>3. CASE f % 2 = 1 \/ f # n
    <3>1. PICK g \in Nat, m \in Nat : g = f \div 2 /\ m = n \div 2
      OBVIOUS
    <3>2. F \div 2 = g + q /\ N \div 2 = m + q /\ m < q /\ g <= m
          /\ (F % 2 = 1 <=> f % 2 = 1) /\ (F = N <=> f = n)
      BY <1>1, <1>2, <2>2, <3>1
    <3>3. \E w : Climb(half, sibling) = Live(g, m, w) /\ Climb(whole, sibling) = Live(g + q, m + q, w)
      <4>1. CASE f % 2 = 1
        <5>1. Lifted(f, n) = <<f, n>>
          BY <4>1, LiftedIs
        <5>2. F % 2 = 1
          BY <3>2, <4>1
        <5>3. Lifted(F, N) = <<F, N>>
          BY <5>2, LiftedIs
        <5>4. Climb(half, sibling) = Live(f \div 2, n \div 2, Node(sibling, v))
          BY <1>1, <2>1, <4>1, <5>1, RoundUp
        <5>5. Climb(whole, sibling) = Live(F \div 2, N \div 2, Node(sibling, v))
          BY <1>3, <5>2, <5>3, RoundUp
        <5> QED
          BY ONLY <3>1, <3>2, <5>4, <5>5
      <4>2. CASE ~(f % 2 = 1)
        <5>1. f # n /\ F # N /\ ~(F % 2 = 1)
          BY <2>3, <3>2, <4>2
        <5>2. Climb(half, sibling) = Live(f \div 2, n \div 2, Node(v, sibling))
          BY <1>1, <2>1, <4>2, <5>1, RoundAcross
        <5>3. Climb(whole, sibling) = Live(F \div 2, N \div 2, Node(v, sibling))
          BY <1>3, <5>1, RoundAcross
        <5> QED
          BY ONLY <3>1, <3>2, <5>2, <5>3
      <4> QED
        BY <4>1, <4>2
    <3>4. PICK w : Climb(half, sibling) = Live(g, m, w) /\ Climb(whole, sibling) = Live(g + q, m + q, w)
      BY <3>3
    <3> QED
      BY <2>2, <3>2, <3>4, BesideIs
  <2>4. CASE f = n
    <3>1. f > 0 /\ f < p /\ F = N
      BY <1>1, <1>2, <2>1, <2>4
    <3>2. PICK g \in Nat, r \in PowersOfTwo :
            /\ g % 2 = 1 /\ g < r /\ r \in Nat
            /\ Lifted(f, f) = <<g, g>> /\ Lifted(f + p, f + p) = <<g + r, g + r>>
      BY <3>1, LiftsAlike
    <3>3. PICK s \in PowersOfTwo : s \in Nat /\ s > 0 /\ r = 2 * s
      <4>1. r # 1
        BY <3>2
      <4> QED
        BY <4>1, HalfPower
    <3>4. PICK c \in Nat, top \in Nat : c = g \div 2 /\ top = g + r
      BY <3>2
    <3>5. top \div 2 = c + s /\ c < s
      BY <3>2, <3>3, <3>4
    <3>6. Lifted(f, n) = <<g, g>> /\ Lifted(F, N) = <<top, top>>
      BY ONLY <1>2, <2>4, <3>1, <3>2, <3>4
    <3>7. Climb(half, sibling) = Live(g \div 2, g \div 2, Node(sibling, v))
      BY <1>1, <2>1, <2>4, <3>6, RoundUp
    <3>8. Climb(whole, sibling) = Live(top \div 2, top \div 2, Node(sibling, v))
      BY <1>3, <3>1, <3>6, RoundUp
    <3>9. PICK w : w = Node(sibling, v)
      OBVIOUS
    <3>10. Climb(half, sibling) = Live(c, c, w) /\ Climb(whole, sibling) = Live(c + s, c + s, w)
      BY ONLY <3>4, <3>5, <3>7, <3>8, <3>9
    <3> QED
      BY <3>3, <3>5, <3>10, BesideIs
  <2> QED
    BY <2>3, <2>4
<1> QED
  BY <1>3, <1>4, <1>5, <1>6

\* A round in either half.
LEMMA Round ==
  ASSUME NEW side \in Sides, NEW whole, NEW half, Beside(side, whole, half), NEW sibling
  PROVE  /\ half.failed = FALSE /\ whole.failed = FALSE /\ whole.sn # 0
         /\ half.sn = 0 =>
              /\ Finds(Climb(whole, sibling), Paired(side, half.value, sibling))
              /\ Over(Climb(whole, sibling), Climb(half, sibling))
         /\ half.sn # 0 => Beside(side, Climb(whole, sibling), Climb(half, sibling))
<1>1. CASE side = "left"
  <2>1. Beside("left", whole, half) /\ Paired(side, half.value, sibling) = Node(half.value, sibling)
    BY <1>1 DEF Paired
  <2> QED
    BY ONLY <1>1, <2>1, LeftRound DEF Finds
<1>2. CASE side = "right"
  <2>1. Beside("right", whole, half) /\ Paired(side, half.value, sibling) = Node(sibling, half.value)
    BY <1>2 DEF Paired
  <2> QED
    BY ONLY <1>2, <2>1, RightRound DEF Finds
<1> QED
  BY <1>1, <1>2 DEF Sides

\* A walk in a tree ends well just when the walk in the half does with all siblings
\* but the last, which is then hashed onto what that one found.
LEMMA WalkInHalf ==
  ASSUME NEW side \in Sides, NEW whole, NEW half, NEW path_, NEW n \in Nat,
         \A m \in 1 .. n : whole[m] = Climb(whole[m - 1], path_[m]),
         \A m \in 1 .. n - 1 : half[m] = Climb(half[m - 1], path_[m]),
         Beside(side, whole[0], half[0])
  PROVE  /\ Done(whole[n]) <=> n > 0 /\ Done(half[n - 1])
         /\ Done(whole[n]) => whole[n].value = Paired(side, half[n - 1].value, path_[n])
<1> DEFINE Coupled(m) == Beside(side, whole[m], half[m]) \/ Over(whole[m], half[m])
           wrong == {m \in 0 .. n - 1 : ~Coupled(m)}
<1>1. wrong = {}
  <2> SUFFICES ASSUME wrong # {} PROVE FALSE
    OBVIOUS
  <2>1. PICK m \in wrong : \A c \in wrong : m <= c
    <3>1. wrong \subseteq Nat /\ wrong # {}
      OBVIOUS
    <3> HIDE DEF wrong
    <3> QED
      BY <3>1, LeastMember
  <2>2. m \in 0 .. n - 1 /\ ~Coupled(m)
    <3> HIDE DEF Coupled
    <3> QED
      OBVIOUS
  <2>3. m # 0
    BY <2>2
  <2>4. PICK k \in 0 .. n - 1 : m = k + 1
    <3>1. m - 1 \in 0 .. n - 1 /\ m = (m - 1) + 1
      BY <2>2, <2>3
    <3> QED
      BY <3>1
  <2>5. Coupled(k)
    <3> HIDE DEF Coupled
    <3> QED
      BY <2>1, <2>4
  <2>6. whole[m] = Climb(whole[k], path_[m]) /\ half[m] = Climb(half[k], path_[m])
    <3>1. m \in 1 .. n /\ m \in 1 .. n - 1 /\ m - 1 = k
      BY <2>2, <2>3, <2>4
    <3> QED
      BY <3>1
  <2>7. PICK w, h, s : w = whole[k] /\ h = half[k] /\ s = path_[m]
    OBVIOUS
  <2>8. Beside(side, w, h) \/ Over(w, h)
    BY <2>5, <2>7
  <2>9. Beside(side, Climb(w, s), Climb(h, s)) \/ Over(Climb(w, s), Climb(h, s))
    <3>1. CASE Beside(side, w, h)
      BY <3>1, Round
    <3>2. CASE Over(w, h)
      BY <3>2, OverStays
    <3> QED
      BY <2>8, <3>1, <3>2
  <2>10. Coupled(m)
    BY <2>6, <2>7, <2>9
  <2> QED
    BY <2>2, <2>10
<1>2. CASE n = 0
  <2>1. whole[0].sn # 0
    BY Round
  <2> QED
    BY <1>2, <2>1 DEF Done
<1>3. CASE n # 0
  <2>1. PICK k \in Nat : k = n - 1 /\ k \in 0 .. n - 1 /\ n \in 1 .. n /\ n > 0
    <3>1. n - 1 \in Nat /\ n - 1 \in 0 .. n - 1 /\ n \in 1 .. n /\ n > 0
      BY <1>3
    <3> QED
      BY <3>1
  <2>2. Coupled(k)
    <3> HIDE DEF Coupled
    <3> QED
      BY <1>1, <2>1
  <2>3. whole[n] = Climb(whole[k], path_[n])
    BY <2>1
  <2>4. CASE Beside(side, whole[k], half[k]) /\ half[k].sn = 0
    <3>1. PICK w, h, s : w = whole[k] /\ h = half[k] /\ s = path_[n]
      OBVIOUS
    <3>2. Beside(side, w, h) /\ h.sn = 0
      BY <2>4, <3>1
    <3>3. h.failed = FALSE /\ Done(Climb(w, s)) /\ Climb(w, s).value = Paired(side, h.value, s)
      <4>1. h.failed = FALSE /\ Finds(Climb(w, s), Paired(side, h.value, s))
        BY ONLY <3>2, side \in Sides, Round
      <4> QED
        BY <4>1 DEF Finds
    <3>4. Done(whole[n]) /\ whole[n].value = Paired(side, half[k].value, path_[n])
      BY <2>3, <3>1, <3>3
    <3>5. Done(half[k])
      BY <3>1, <3>2, <3>3 DEF Done
    <3> QED
      BY ONLY <2>1, <3>4, <3>5
  <2>5. CASE Beside(side, whole[k], half[k]) /\ half[k].sn # 0
    <3>1. Beside(side, whole[n], Climb(half[k], path_[n]))
      BY <2>3, <2>5, Round
    <3>2. PICK w, h : w = whole[n] /\ h = Climb(half[k], path_[n])
      OBVIOUS
    <3>3. Beside(side, w, h) => w.sn # 0
      BY ONLY side \in Sides, Round
    <3>4. whole[n].sn # 0
      BY <3>1, <3>2, <3>3
    <3> QED
      BY ONLY <2>1, <2>5, <3>4 DEF Done
  <2>6. CASE Over(whole[k], half[k])
    <3>1. whole[n].failed = TRUE
      <4>1. PICK w, h, s : w = whole[k] /\ h = half[k] /\ s = path_[n]
        OBVIOUS
      <4>2. Climb(w, s).failed = TRUE
        BY ONLY <2>6, <4>1, OverStays
      <4> QED
        BY <2>3, <4>1, <4>2
    <3>2. half[k].failed = TRUE
      BY <2>6 DEF Over, Ended
    <3> QED
      BY ONLY <2>1, <3>1, <3>2 DEF Done
  <2> QED
    BY <2>2, <2>4, <2>5, <2>6
<1> QED
  BY <1>2, <1>3

\* build(start, size), given what it returns for smaller segments.
Piece(build, records_, n, start) ==
  IF n = 1 THEN Single(records_, start)
  ELSE Joined(build[Split(n)][start], build[n - Split(n)][start + Split(n)])

Builds(build, records_, n) ==
  build = [m \in 1 .. n |-> [start \in Nat |-> Piece(build, records_, m, start)]]

\* Both parts of a segment are segments, and shorter.
LEMMA SplitSmaller ==
  ASSUME NEW n \in Nat, n > 1
  PROVE  /\ Split(n) \in 1 .. n - 1 /\ n - Split(n) \in 1 .. n - 1
         /\ Split(n) \in Nat /\ n - Split(n) \in Nat /\ n - Split(n) <= Split(n)
<1>1. PICK k \in Nat : k = Split(n) /\ k > 0 /\ k < n /\ n <= 2 * k
  BY SplitIs
<1>2. k \in 1 .. n - 1 /\ n - k \in 1 .. n - 1 /\ n - k \in Nat /\ n - k <= k
  BY <1>1
<1> QED
  BY <1>1, <1>2

\* What a segment is made of, is the same with any function that agrees on the shorter ones.
LEMMA PieceAlike ==
  ASSUME NEW f, NEW g, NEW records_, NEW n \in Nat, n > 0, \A m \in 1 .. n - 1 : f[m] = g[m]
  PROVE  \A start \in Nat : Piece(f, records_, n, start) = Piece(g, records_, n, start)
<1>1. CASE n = 1
  BY <1>1 DEF Piece
<1>2. CASE n # 1
  <2>1. Split(n) \in 1 .. n - 1 /\ n - Split(n) \in 1 .. n - 1
    BY <1>2, SplitSmaller
  <2>2. f[Split(n)] = g[Split(n)] /\ f[n - Split(n)] = g[n - Split(n)]
    BY <2>1
  <2> QED
    BY <1>2, <2>2 DEF Piece
<1> QED
  BY <1>1, <1>2

\* The recursion of build ends.
LEMMA BuildsUpTo ==
  ASSUME NEW records_, NEW n0 \in Nat
  PROVE  \E build : Builds(build, records_, n0)
<1> DEFINE wrong == {n \in Nat : ~ \E build : Builds(build, records_, n)}
<1> SUFFICES ASSUME wrong # {} PROVE FALSE
  OBVIOUS
<1>1. PICK n \in wrong : \A c \in wrong : n <= c
  <2>1. wrong \subseteq Nat /\ wrong # {}
    OBVIOUS
  <2> HIDE DEF wrong
  <2> QED
    BY <2>1, LeastMember
<1>2. n \in Nat /\ ~ \E build : Builds(build, records_, n)
  OBVIOUS
<1>3. n # 0
  <2>1. ASSUME n = 0 PROVE FALSE
    <3> DEFINE none == [m \in 1 .. 0 |-> [start \in Nat |-> Piece(<<>>, records_, m, start)]]
    <3>1. 1 .. 0 = {}
      OBVIOUS
    <3>2. \A m \in 1 .. 0 : none[m] = [start \in Nat |-> Piece(none, records_, m, start)]
      BY <3>1
    <3>3. none = [m \in 1 .. 0 |-> none[m]]
      OBVIOUS
    <3> HIDE DEF none
    <3>4. none = [m \in 1 .. 0 |-> [start \in Nat |-> Piece(none, records_, m, start)]]
      BY <3>2, <3>3
    <3>5. Builds(none, records_, 0)
      BY ONLY <3>4 DEF Builds
    <3> QED
      BY <1>2, <2>1, <3>5
  <2> QED
    BY <2>1
<1>4. PICK k \in Nat : n = k + 1
  <2>1. n - 1 \in Nat /\ n = (n - 1) + 1
    BY <1>2, <1>3
  <2> QED
    BY <2>1
<1>5. PICK old : Builds(old, records_, k)
  BY <1>1, <1>4
<1> HIDE DEF wrong
<1> DEFINE last == [start \in Nat |-> Piece(old, records_, n, start)]
           new  == [m \in 1 .. n |-> IF m = n THEN last ELSE old[m]]
<1>6. new = [m \in 1 .. n |-> new[m]] /\ \A m \in 1 .. n : new[m] = IF m = n THEN last ELSE old[m]
  <2> HIDE DEF last
  <2> QED
    OBVIOUS
<1> HIDE DEF new
<1>7. \A m \in 1 .. k : m \in 1 .. n /\ new[m] = old[m]
  BY <1>4, <1>6
<1>8. ASSUME NEW m \in 1 .. n
      PROVE  new[m] = [start \in Nat |-> Piece(new, records_, m, start)]
  <2>1. m \in Nat /\ m > 0 /\ \A c \in 1 .. m - 1 : c \in 1 .. k
    BY <1>4
  <2>2. \A c \in 1 .. m - 1 : old[c] = new[c]
    BY <1>7, <2>1
  <2>3. \A start \in Nat : Piece(old, records_, m, start) = Piece(new, records_, m, start)
    BY ONLY <2>1, <2>2, PieceAlike
  <2>4. new[m] = [start \in Nat |-> Piece(old, records_, m, start)]
    <3>1. CASE m = n
      BY <1>6, <3>1
    <3>2. CASE m # n
      <4>1. m \in 1 .. k
        BY <1>4, <3>2
      <4>2. old[m] = [start \in Nat |-> Piece(old, records_, m, start)]
        BY <1>5, <4>1 DEF Builds
      <4> QED
        BY <1>7, <4>1, <4>2
    <3> QED
      BY <3>1, <3>2
  <2> QED
    BY <2>3, <2>4
<1>9. Builds(new, records_, n)
  BY ONLY <1>6, <1>8 DEF Builds
<1> QED
  BY <1>2, <1>9

\* The tree is the last of its segments.
LEMMA TreeIs ==
  ASSUME NEW records_, Len(records_) \in Nat, Len(records_) > 0
  PROVE  \E build :
           /\ Tree(records_) = build[Len(records_)][0]
           /\ \A m \in 1 .. Len(records_), start \in Nat :
                build[m][start] = Piece(build, records_, m, start)
<1> DEFINE build == CHOOSE f : Builds(f, records_, Len(records_))
<1>1. Builds(build, records_, Len(records_))
  BY BuildsUpTo
<1>2. Tree(records_) = build[Len(records_)][0]
  BY DEF Tree, Builds, Piece
<1> HIDE DEF build
<1>3. \A m \in 1 .. Len(records_), start \in Nat :
        build[m][start] = Piece(build, records_, m, start)
  <2> TAKE m \in 1 .. Len(records_), start \in Nat
  <2>1. build[m] = [s \in Nat |-> Piece(build, records_, m, s)]
    BY <1>1 DEF Builds
  <2> QED
    BY ONLY <2>1, start \in Nat
<1> QED
  BY <1>2, <1>3

-------------------------------------------------------------------------------
IsSeq(p) == \E T : p \in Seq(T)

\* One more sibling at the end of a path.
LEMMA OneMore ==
  ASSUME NEW p, IsSeq(p), NEW x
  PROVE  /\ IsSeq(Append(p, x)) /\ Len(p) \in Nat /\ Len(Append(p, x)) = Len(p) + 1
         /\ \A i \in 1 .. Len(p) : Append(p, x)[i] = p[i]
         /\ Append(p, x)[Len(p) + 1] = x
<1>1. PICK T : p \in Seq(T)
  BY DEF IsSeq
<1>2. p \in Seq(T \cup {x}) /\ x \in T \cup {x}
  BY <1>1, SeqMonotonic
<1>3. PICK S : S = T \cup {x}
  OBVIOUS
<1>4. p \in Seq(S) /\ x \in S
  BY <1>2, <1>3
<1>5. Append(p, x) \in Seq(S) /\ Len(Append(p, x)) = Len(p) + 1
      /\ (\A i \in 1 .. Len(p) : Append(p, x)[i] = p[i]) /\ Append(p, x)[Len(p) + 1] = x
  BY <1>4, AppendProperties
<1>6. Len(p) \in Nat
  BY <1>4, LenProperties
<1> QED
  BY <1>5, <1>6 DEF IsSeq

\* What build returns for a segment: a path for each of its positions, no longer
\* than the bits of the last one.
Shaped(segment, n, start) ==
  /\ DOMAIN segment.paths = start .. start + n - 1
  /\ \A i \in start .. start + n - 1 :
       IsSeq(segment.paths[i]) /\ Len(segment.paths[i]) <= BitLength(n - 1)

\* The path of a position, from the path in its part of the segment.
Joins(segment, left, right, n, k, start) ==
  /\ segment.root = Node(left.root, right.root)
  /\ DOMAIN segment.paths = start .. start + n - 1
  /\ \A i \in 0 .. k - 1 : segment.paths[start + i] = Append(left.paths[start + i], right.root)
  /\ \A i \in k .. n - 1 : segment.paths[start + i] = Append(right.paths[start + i], left.root)

\* A segment joins its parts.
LEMMA JoinedIs ==
  ASSUME NEW n \in Nat, NEW k \in Nat, k > 0, k < n, NEW start \in Nat, NEW left, NEW right,
         DOMAIN left.paths = start .. start + k - 1,
         DOMAIN right.paths = start + k .. start + n - 1
  PROVE  Joins(Joined(left, right), left, right, n, k, start)
<1> DEFINE paths == [i \in DOMAIN left.paths \cup DOMAIN right.paths |->
                       IF i \in DOMAIN left.paths THEN Append(left.paths[i], right.root)
                       ELSE Append(right.paths[i], left.root)]
<1>1. Joined(left, right).root = Node(left.root, right.root) /\ Joined(left, right).paths = paths
  BY DEF Joined
<1>2. (start .. start + k - 1) \cup (start + k .. start + n - 1) = start .. start + n - 1
  OBVIOUS
<1>3. /\ DOMAIN paths = start .. start + n - 1
      /\ \A i \in start .. start + n - 1 :
           paths[i] = IF i \in start .. start + k - 1 THEN Append(left.paths[i], right.root)
                      ELSE Append(right.paths[i], left.root)
  BY <1>2
<1> HIDE DEF paths
<1>4. \A i \in 0 .. k - 1 : start + i \in start .. start + n - 1 /\ start + i \in start .. start + k - 1
  OBVIOUS
<1>5. \A i \in k .. n - 1 : start + i \in start .. start + n - 1 /\ ~(start + i \in start .. start + k - 1)
  OBVIOUS
<1>6. \A i \in 0 .. k - 1 : paths[start + i] = Append(left.paths[start + i], right.root)
  BY <1>3, <1>4
<1>7. \A i \in k .. n - 1 : paths[start + i] = Append(right.paths[start + i], left.root)
  BY <1>3, <1>5
<1> QED
  BY <1>1, <1>3, <1>6, <1>7 DEF Joins

\* Every segment has its shape.
LEMMA SegmentsShaped ==
  ASSUME NEW build, NEW records_, NEW n0 \in Nat,
         \A m \in 1 .. n0, start \in Nat : build[m][start] = Piece(build, records_, m, start)
  PROVE  \A m \in 1 .. n0, start \in Nat : Shaped(build[m][start], m, start)
<1> DEFINE wrong == {m \in 1 .. n0 : ~ \A start \in Nat : Shaped(build[m][start], m, start)}
<1> SUFFICES ASSUME wrong # {} PROVE FALSE
  OBVIOUS
<1>1. PICK m \in wrong : \A c \in wrong : m <= c
  <2>1. wrong \subseteq Nat /\ wrong # {}
    OBVIOUS
  <2> HIDE DEF wrong
  <2> QED
    BY <2>1, LeastMember
<1>2. PICK start \in Nat : ~Shaped(build[m][start], m, start)
  OBVIOUS
<1>3. m \in 1 .. n0 /\ m \in Nat /\ m > 0
  OBVIOUS
<1>4. \A c \in 1 .. n0 : c < m => \A s \in Nat : Shaped(build[c][s], c, s)
  <2> TAKE c \in 1 .. n0
  <2> HAVE c < m
  <2>1. c \notin wrong
    BY <1>1, <1>3
  <2> QED
    BY <2>1
<1> HIDE DEF wrong
<1>5. PICK segment : segment = build[m][start]
  OBVIOUS
<1>6. segment = Piece(build, records_, m, start)
  BY <1>3, <1>5
<1>7. CASE m = 1
  <2>1. segment = Single(records_, start)
    BY <1>6, <1>7 DEF Piece
  <2>2. segment.paths = [i \in {start} |-> <<>>]
    BY <2>1 DEF Single
  <2>3. start .. start + m - 1 = {start}
    BY <1>7
  <2>4. IsSeq(<<>>) /\ Len(<<>>) = 0
    BY EmptySeq DEF IsSeq
  <2>5. BitLength(m - 1) \in Nat
    BY <1>3, BitLengthIs
  <2>6. Shaped(segment, m, start)
    BY <2>2, <2>3, <2>4, <2>5 DEF Shaped
  <2> QED
    BY <1>2, <1>5, <2>6
<1>8. CASE m # 1
  <2>1. m > 1
    BY <1>3, <1>8
  <2>2. PICK k \in Nat : k = Split(m)
    BY <1>3, <2>1, SplitSmaller
  <2>3. PICK r \in Nat : r = m - k /\ r > 0 /\ k > 0 /\ k < m /\ r < m /\ r <= k
    BY <1>3, <2>1, <2>2, SplitSmaller
  <2>4. PICK left, right : left = build[k][start] /\ right = build[r][start + k]
    OBVIOUS
  <2>5. segment = Joined(left, right)
    BY <1>6, <1>8, <2>2, <2>3, <2>4 DEF Piece
  <2>6. Shaped(left, k, start)
    <3>1. k \in 1 .. n0
      BY <1>3, <2>3
    <3> QED
      BY <1>4, <2>3, <2>4, <3>1
  <2>7. Shaped(right, r, start + k)
    <3>1. r \in 1 .. n0 /\ start + k \in Nat
      BY <1>3, <2>3
    <3> QED
      BY <1>4, <2>3, <2>4, <3>1
  <2>8. start + k + r - 1 = start + m - 1
    BY <1>3, <2>3
  <2>9. DOMAIN left.paths = start .. start + k - 1 /\ DOMAIN right.paths = start + k .. start + m - 1
    BY <2>6, <2>7, <2>8 DEF Shaped
  <2>10. /\ DOMAIN segment.paths = start .. start + m - 1
         /\ \A i \in 0 .. k - 1 : segment.paths[start + i] = Append(left.paths[start + i], right.root)
         /\ \A i \in k .. m - 1 : segment.paths[start + i] = Append(right.paths[start + i], left.root)
    <3>1. k \in Nat /\ start \in Nat /\ m \in Nat /\ k > 0 /\ k < m
      BY <1>3, <2>3
    <3>2. Joins(Joined(left, right), left, right, m, k, start)
      BY ONLY <2>9, <3>1, JoinedIs
    <3> QED
      BY <2>5, <3>2 DEF Joins
  <2>11. PICK bits \in Nat : /\ bits = BitLength(m - 1) /\ bits > 0 /\ k = 2 ^ (bits - 1)
    BY <1>3, <2>1, <2>2, SplitIs, BitLengthIs
  <2>12. PICK h \in Nat : bits = h + 1 /\ k = 2 ^ h
    <3>1. bits - 1 \in Nat /\ bits = (bits - 1) + 1
      BY <2>11
    <3> QED
      BY <2>11, <3>1
  <2>13. BitLength(k - 1) <= h /\ BitLength(k - 1) \in Nat
    <3>1. k - 1 \in Nat /\ k - 1 < 2 ^ h
      BY <2>3, <2>12
    <3> QED
      BY <3>1, BitLengthIs
  <2>14. BitLength(r - 1) <= h /\ BitLength(r - 1) \in Nat
    <3>1. r - 1 \in Nat /\ r - 1 < 2 ^ h
      BY <2>3, <2>12
    <3> QED
      BY <3>1, BitLengthIs
  <2>15. ASSUME NEW j \in start .. start + m - 1
         PROVE  IsSeq(segment.paths[j]) /\ Len(segment.paths[j]) <= bits
    <3>1. PICK i \in 0 .. m - 1 : j = start + i
      <4>1. j - start \in 0 .. m - 1 /\ j = start + (j - start)
        BY <1>3
      <4> QED
        BY <4>1
    <3>2. CASE i < k
      <4>1. i \in 0 .. k - 1 /\ j \in start .. start + k - 1
        BY <3>1, <3>2
      <4>2. segment.paths[j] = Append(left.paths[j], right.root)
        BY <2>10, <3>1, <4>1
      <4>3. IsSeq(left.paths[j]) /\ Len(left.paths[j]) <= BitLength(k - 1)
        BY <2>6, <4>1 DEF Shaped
      <4>4. IsSeq(segment.paths[j]) /\ Len(left.paths[j]) \in Nat
            /\ Len(segment.paths[j]) = Len(left.paths[j]) + 1
        BY <4>2, <4>3, OneMore
      <4> QED
        BY <2>12, <2>13, <4>3, <4>4
    <3>3. CASE ~(i < k)
      <4>1. i \in k .. m - 1 /\ j \in start + k .. start + k + r - 1
        BY <1>3, <2>3, <3>1, <3>3
      <4>2. segment.paths[j] = Append(right.paths[j], left.root)
        BY <2>10, <3>1, <4>1
      <4>3. IsSeq(right.paths[j]) /\ Len(right.paths[j]) <= BitLength(r - 1)
        BY <2>7, <4>1 DEF Shaped
      <4>4. IsSeq(segment.paths[j]) /\ Len(right.paths[j]) \in Nat
            /\ Len(segment.paths[j]) = Len(right.paths[j]) + 1
        BY <4>2, <4>3, OneMore
      <4> QED
        BY <2>12, <2>14, <4>3, <4>4
    <3> QED
      BY <3>2, <3>3
  <2>16. Shaped(segment, m, start)
    BY <2>10, <2>11, <2>15 DEF Shaped
  <2> QED
    BY <1>2, <1>5, <2>16
<1> QED
  BY <1>7, <1>8

-------------------------------------------------------------------------------
\* A claimed proof is the path: as long, and with the same siblings.
Matches(claim, n, p) == n = Len(p) /\ \A j \in 1 .. n : claim[j] = p[j]

\* A walk from a position of a segment ends with its root just when it started from
\* the record there and took the path there.
ExactAt(segment, records_, n, start) ==
  \A i \in 0 .. n - 1, length \in Nat : \A record_, claim, at :
    WalkTo(at, From(record_, i, n), claim, length) =>
      (Done(at[length]) /\ at[length].value = segment.root
         <=> record_ = records_[start + i + 1] /\ Matches(claim, length, segment.paths[start + i]))

\* One record is proved by no sibling.
LEMMA SingleExact ==
  ASSUME NEW records_, NEW start \in Nat
  PROVE  ExactAt(Single(records_, start), records_, 1, start)
<1> SUFFICES ASSUME NEW i \in 0 .. 0, NEW length \in Nat, NEW record_, NEW claim, NEW at,
                    WalkTo(at, From(record_, i, 1), claim, length)
             PROVE  Done(at[length]) /\ at[length].value = Single(records_, start).root
                      <=> record_ = records_[start + i + 1]
                          /\ Matches(claim, length, Single(records_, start).paths[start + i])
  BY DEF ExactAt
<1>1. i = 0 /\ start + i = start /\ start + i + 1 = start + 1
  OBVIOUS
<1>2. /\ Single(records_, start).root = Leaf(records_[start + 1])
      /\ Single(records_, start).paths[start] = <<>>
  BY DEF Single
<1>3. at[0] = Live(0, 0, Leaf(record_)) /\ \A m \in 1 .. length : at[m] = Climb(at[m - 1], claim[m])
  <2>1. at[0] = From(record_, i, 1) /\ \A m \in 1 .. length : at[m] = Climb(at[m - 1], claim[m])
    BY DEF WalkTo
  <2> QED
    BY <1>1, <2>1 DEF From
<1>4. Len(<<>>) = 0
  BY EmptySeq
<1>5. CASE length = 0
  <2>1. Done(at[length]) /\ at[length].value = Leaf(record_)
    BY <1>3, <1>5 DEF Done, Live
  <2>2. Matches(claim, length, <<>>)
    BY <1>4, <1>5 DEF Matches
  <2>3. Leaf(record_) = Leaf(records_[start + 1]) <=> record_ = records_[start + 1]
    BY DEF Leaf
  <2> QED
    BY <1>1, <1>2, <2>1, <2>2, <2>3
<1>6. CASE length # 0
  <2>1. ~Matches(claim, length, <<>>)
    BY <1>4, <1>6 DEF Matches
  <2>2. at[length].failed = TRUE
    <3> DEFINE wrong == {m \in 1 .. length : ~ \E a, b, c : at[m] = Ended(a, b, c)}
    <3>1. wrong = {}
      <4> SUFFICES ASSUME wrong # {} PROVE FALSE
        OBVIOUS
      <4>1. PICK m \in wrong : \A c \in wrong : m <= c
        <5>1. wrong \subseteq Nat /\ wrong # {}
          OBVIOUS
        <5> HIDE DEF wrong
        <5> QED
          BY <5>1, LeastMember
      <4>2. m \in 1 .. length /\ at[m] = Climb(at[m - 1], claim[m])
        BY <1>3
      <4>3. CASE m = 1
        <5>1. at[m - 1] = Live(0, 0, Leaf(record_))
          BY <1>3, <4>3
        <5>2. Climb(at[m - 1], claim[m]) = Ended(0, 0, Leaf(record_))
          BY <5>1, RoundOut
        <5> QED
          BY <4>2, <5>2
      <4>4. CASE m # 1
        <5>1. m - 1 \in 1 .. length /\ ~(m <= m - 1)
          BY <4>2, <4>4
        <5>2. m - 1 \notin wrong
          BY <4>1, <5>1
        <5>3. PICK a, b, c : at[m - 1] = Ended(a, b, c)
          BY <5>1, <5>2
        <5>4. \E x, y, z : Climb(at[m - 1], claim[m]) = Ended(x, y, z)
          BY ONLY <5>3, EndedStays
        <5> QED
          BY <4>2, <5>4
      <4> QED
        BY <4>3, <4>4
    <3>2. length \in 1 .. length
      BY <1>6
    <3>3. PICK a, b, c : at[length] = Ended(a, b, c)
      BY <3>1, <3>2
    <3> QED
      BY ONLY <3>3 DEF Ended
  <2>3. ~Done(at[length])
    BY <2>2 DEF Done
  <2> QED
    BY <1>1, <1>2, <2>1, <2>3
<1> QED
  BY <1>5, <1>6

\* A part of a segment takes all siblings of a claim but the last.
LEMMA MatchesOneMore ==
  ASSUME NEW p, IsSeq(p), NEW x, NEW claim, NEW n \in Nat
  PROVE  Matches(claim, n, Append(p, x))
           <=> n > 0 /\ Matches(claim, n - 1, p) /\ claim[n] = x
<1>1. PICK q : q = Append(p, x)
  OBVIOUS
<1>2. PICK k \in Nat : k = Len(p)
  BY OneMore
<1>3. Len(q) = k + 1 /\ (\A i \in 1 .. k : q[i] = p[i]) /\ q[k + 1] = x
  BY <1>1, <1>2, OneMore
<1>4. ASSUME Matches(claim, n, q) PROVE n > 0 /\ Matches(claim, n - 1, p) /\ claim[n] = x
  <2>1. n = k + 1 /\ \A j \in 1 .. n : claim[j] = q[j]
    BY <1>3, <1>4 DEF Matches
  <2>2. n \in 1 .. n /\ n - 1 = k /\ \A j \in 1 .. n - 1 : j \in 1 .. n /\ j \in 1 .. k
    BY <2>1
  <2>3. \A j \in 1 .. n - 1 : claim[j] = p[j]
    BY <1>3, <2>1, <2>2
  <2> QED
    BY <1>2, <1>3, <2>1, <2>2, <2>3 DEF Matches
<1>5. ASSUME n > 0, Matches(claim, n - 1, p), claim[n] = x PROVE Matches(claim, n, q)
  <2>1. n - 1 = k /\ n = k + 1 /\ \A j \in 1 .. k : claim[j] = p[j]
    BY <1>2, <1>5 DEF Matches
  <2>2. ASSUME NEW j \in 1 .. n PROVE claim[j] = q[j]
    <3>1. CASE j = n
      BY <1>3, <1>5, <2>1, <3>1
    <3>2. CASE j # n
      <4>1. j \in 1 .. k
        BY <2>1, <3>2
      <4> QED
        BY <1>3, <2>1, <4>1
    <3> QED
      BY <3>1, <3>2
  <2> QED
    BY <1>3, <2>1, <2>2 DEF Matches
<1> QED
  BY <1>1, <1>4, <1>5

\* A hash of two is that of both.
LEMMA PairedIs ==
  ASSUME NEW a, NEW b, NEW c, NEW d
  PROVE  Node(a, b) = Node(c, d) <=> a = c /\ b = d
BY DEF Node

\* A walk from a position of the left part.
LEMMA LeftExact ==
  ASSUME NEW n \in Nat, NEW k \in PowersOfTwo, k \in Nat, k > 0, k < n, n <= 2 * k,
         NEW start \in Nat, NEW records_, NEW left, NEW right, NEW segment,
         Joins(segment, left, right, n, k, start),
         Shaped(left, k, start), ExactAt(left, records_, k, start),
         NEW i \in 0 .. k - 1, NEW length \in Nat, NEW record_, NEW claim, NEW at,
         WalkTo(at, From(record_, i, n), claim, length)
  PROVE  Done(at[length]) /\ at[length].value = segment.root
           <=> record_ = records_[start + i + 1] /\ Matches(claim, length, segment.paths[start + i])
<1>1. PICK half : WalkTo(half, From(record_, i, k), claim, length)
  BY WalkIs
<1>2. Beside("left", at[0], half[0])
  <2>1. at[0] = Live(i, n - 1, Leaf(record_)) /\ half[0] = Live(i, k - 1, Leaf(record_))
    BY <1>1 DEF WalkTo, From
  <2>2. i \in Nat /\ n - 1 \in Nat /\ i <= n - 1 /\ i < k /\ k <= n - 1 /\ n - 1 < 2 * k
    OBVIOUS
  <2> QED
    BY <2>1, <2>2, BesideIs
<1>3. /\ \A m \in 1 .. length : at[m] = Climb(at[m - 1], claim[m])
      /\ \A m \in 1 .. length : half[m] = Climb(half[m - 1], claim[m])
      /\ \A m \in 1 .. length - 1 : half[m] = Climb(half[m - 1], claim[m])
  BY <1>1 DEF WalkTo
<1>4. /\ Done(at[length]) <=> length > 0 /\ Done(half[length - 1])
      /\ Done(at[length]) => at[length].value = Paired("left", half[length - 1].value, claim[length])
  <2>1. "left" \in Sides
    BY DEF Sides
  <2> QED
    BY ONLY <1>2, <1>3, <2>1, length \in Nat, WalkInHalf
<1>5. PICK found, last : found = half[length - 1].value /\ last = claim[length]
  OBVIOUS
<1>6. /\ segment.root = Node(left.root, right.root)
      /\ segment.paths[start + i] = Append(left.paths[start + i], right.root)
  BY DEF Joins
<1>7. PICK p : p = left.paths[start + i] /\ IsSeq(p)
  <2>1. start + i \in start .. start + k - 1
    OBVIOUS
  <2> QED
    BY <2>1 DEF Shaped
<1>8. Matches(claim, length, segment.paths[start + i])
        <=> length > 0 /\ Matches(claim, length - 1, p) /\ last = right.root
  BY <1>5, <1>6, <1>7, MatchesOneMore
<1>9. length > 0 =>
        (Done(half[length - 1]) /\ found = left.root
           <=> record_ = records_[start + i + 1] /\ Matches(claim, length - 1, p))
  <2> HAVE length > 0
  <2>1. PICK less \in Nat : less = length - 1
    OBVIOUS
  <2>2. WalkTo(half, From(record_, i, k), claim, less)
    <3>1. \A m \in 1 .. less : m \in 1 .. length
      BY <2>1
    <3> QED
      BY <1>1, <3>1 DEF WalkTo
  <2>3. Done(half[less]) /\ half[less].value = left.root
          <=> record_ = records_[start + i + 1] /\ Matches(claim, less, left.paths[start + i])
    BY <2>2 DEF ExactAt
  <2> QED
    BY <1>5, <1>7, <2>1, <2>3
<1>10. Paired("left", found, last) = Node(left.root, right.root) <=> found = left.root /\ last = right.root
  BY PairedIs DEF Paired
<1> QED
  BY ONLY <1>4, <1>5, <1>6, <1>8, <1>9, <1>10

\* A walk from a position of the right part.
LEMMA RightExact ==
  ASSUME NEW n \in Nat, NEW k \in PowersOfTwo, k \in Nat, k > 0, k < n, n <= 2 * k,
         NEW start \in Nat, NEW records_, NEW left, NEW right, NEW segment,
         Joins(segment, left, right, n, k, start),
         NEW r \in Nat, NEW s \in Nat, r = n - k, s = start + k,
         Shaped(right, r, s), ExactAt(right, records_, r, s),
         NEW i \in k .. n - 1, NEW length \in Nat, NEW record_, NEW claim, NEW at,
         WalkTo(at, From(record_, i, n), claim, length)
  PROVE  Done(at[length]) /\ at[length].value = segment.root
           <=> record_ = records_[start + i + 1] /\ Matches(claim, length, segment.paths[start + i])
<1>0. PICK c \in Nat :
        /\ c = i - k /\ r = n - k /\ s = start + k /\ c \in 0 .. r - 1
        /\ i = c + k /\ s + c = start + i /\ s + c + 1 = start + i + 1
  <2>1. /\ i - k \in Nat /\ i - k \in 0 .. r - 1
        /\ i = (i - k) + k /\ s + (i - k) = start + i
        /\ s + (i - k) + 1 = start + i + 1
    OBVIOUS
  <2> QED
    BY <2>1
<1>1. PICK half : WalkTo(half, From(record_, c, r), claim, length)
  BY WalkIs
<1>2. Beside("right", at[0], half[0])
  <2>1. PICK m \in Nat : m = r - 1
    BY <1>0
  <2>2. at[0] = Live(c + k, m + k, Leaf(record_)) /\ half[0] = Live(c, m, Leaf(record_))
    <3>1. at[0] = Live(i, n - 1, Leaf(record_)) /\ half[0] = Live(c, r - 1, Leaf(record_))
      BY <1>1 DEF WalkTo, From
    <3>2. n - 1 = m + k
      BY <1>0, <2>1
    <3> QED
      BY <1>0, <2>1, <3>1, <3>2
  <2>3. c <= m /\ m < k
    BY <1>0, <2>1
  <2> QED
    BY <2>2, <2>3, BesideIs
<1>3. /\ \A m \in 1 .. length : at[m] = Climb(at[m - 1], claim[m])
      /\ \A m \in 1 .. length : half[m] = Climb(half[m - 1], claim[m])
      /\ \A m \in 1 .. length - 1 : half[m] = Climb(half[m - 1], claim[m])
  BY <1>1 DEF WalkTo
<1>4. /\ Done(at[length]) <=> length > 0 /\ Done(half[length - 1])
      /\ Done(at[length]) => at[length].value = Paired("right", half[length - 1].value, claim[length])
  <2>1. "right" \in Sides
    BY DEF Sides
  <2> QED
    BY ONLY <1>2, <1>3, <2>1, length \in Nat, WalkInHalf
<1>5. PICK found, last : found = half[length - 1].value /\ last = claim[length]
  OBVIOUS
<1>6. /\ segment.root = Node(left.root, right.root)
      /\ segment.paths[start + i] = Append(right.paths[start + i], left.root)
  BY DEF Joins
<1>7. PICK p : p = right.paths[start + i] /\ IsSeq(p)
  <2>1. start + i \in s .. s + r - 1
    OBVIOUS
  <2> QED
    BY <2>1 DEF Shaped
<1>8. Matches(claim, length, segment.paths[start + i])
        <=> length > 0 /\ Matches(claim, length - 1, p) /\ last = left.root
  BY <1>5, <1>6, <1>7, MatchesOneMore
<1>9. length > 0 =>
        (Done(half[length - 1]) /\ found = right.root
           <=> record_ = records_[start + i + 1] /\ Matches(claim, length - 1, p))
  <2> HAVE length > 0
  <2>1. PICK less \in Nat : less = length - 1
    OBVIOUS
  <2>2. WalkTo(half, From(record_, c, r), claim, less)
    <3>1. \A m \in 1 .. less : m \in 1 .. length
      BY <2>1
    <3> QED
      BY <1>1, <3>1 DEF WalkTo
  <2>3. Done(half[less]) /\ half[less].value = right.root
          <=> record_ = records_[s + c + 1] /\ Matches(claim, less, right.paths[s + c])
    BY <1>0, <2>2 DEF ExactAt
  <2> QED
    BY <1>0, <1>5, <1>7, <2>1, <2>3
<1>10. Paired("right", found, last) = Node(left.root, right.root) <=> last = left.root /\ found = right.root
  BY PairedIs DEF Paired
<1> QED
  BY ONLY <1>4, <1>5, <1>6, <1>8, <1>9, <1>10

\* Walks are exact in every segment.
LEMMA SegmentsExact ==
  ASSUME NEW build, NEW records_, NEW n0 \in Nat,
         \A m \in 1 .. n0, start \in Nat : build[m][start] = Piece(build, records_, m, start)
  PROVE  \A m \in 1 .. n0, start \in Nat : ExactAt(build[m][start], records_, m, start)
<1> DEFINE wrong == {m \in 1 .. n0 : ~ \A start \in Nat : ExactAt(build[m][start], records_, m, start)}
<1> SUFFICES ASSUME wrong # {} PROVE FALSE
  OBVIOUS
<1>1. PICK m \in wrong : \A c \in wrong : m <= c
  <2>1. wrong \subseteq Nat /\ wrong # {}
    OBVIOUS
  <2> HIDE DEF wrong
  <2> QED
    BY <2>1, LeastMember
<1>2. PICK start \in Nat : ~ExactAt(build[m][start], records_, m, start)
  OBVIOUS
<1>3. m \in 1 .. n0 /\ m \in Nat /\ m > 0
  OBVIOUS
<1>4. \A c \in 1 .. n0 : c < m => \A s \in Nat : ExactAt(build[c][s], records_, c, s)
  <2> TAKE c \in 1 .. n0
  <2> HAVE c < m
  <2>1. c \notin wrong
    BY <1>1, <1>3
  <2> QED
    BY <2>1
<1> HIDE DEF wrong
<1>5. PICK segment : segment = build[m][start]
  OBVIOUS
<1>6. segment = Piece(build, records_, m, start)
  BY <1>3, <1>5
<1>7. CASE m = 1
  <2>1. segment = Single(records_, start)
    BY <1>6, <1>7 DEF Piece
  <2> QED
    BY <1>2, <1>5, <1>7, <2>1, SingleExact
<1>8. CASE m # 1
  <2>1. m > 1
    BY <1>3, <1>8
  <2>2. PICK k \in PowersOfTwo : k = Split(m) /\ k \in Nat /\ k > 0 /\ k < m /\ m <= 2 * k
    BY <1>3, <2>1, SplitIs
  <2>3. PICK r \in Nat : r = m - k /\ r > 0 /\ r < m
    <3>1. m - k \in Nat /\ m - k > 0 /\ m - k < m
      BY <1>3, <2>2
    <3> QED
      BY <3>1
  <2>4. PICK left, right : left = build[k][start] /\ right = build[r][start + k]
    OBVIOUS
  <2>5. segment = Joined(left, right)
    BY <1>6, <1>8, <2>2, <2>3, <2>4 DEF Piece
  <2>6. k \in 1 .. n0 /\ r \in 1 .. n0 /\ start + k \in Nat
    BY <1>3, <2>2, <2>3
  <2>7. Shaped(left, k, start) /\ Shaped(right, r, start + k)
    <3>1. \A c \in 1 .. n0, s \in Nat : Shaped(build[c][s], c, s)
      BY SegmentsShaped
    <3> QED
      BY <2>4, <2>6, <3>1
  <2>8. ExactAt(left, records_, k, start) /\ ExactAt(right, records_, r, start + k)
    BY <1>4, <2>2, <2>3, <2>4, <2>6
  <2>9. Joins(segment, left, right, m, k, start)
    <3>1. start + k + r - 1 = start + m - 1
      BY <1>3, <2>2, <2>3
    <3>2. DOMAIN left.paths = start .. start + k - 1 /\ DOMAIN right.paths = start + k .. start + m - 1
      BY <2>7, <3>1 DEF Shaped
    <3>3. k \in Nat /\ start \in Nat /\ m \in Nat /\ k > 0 /\ k < m
      BY <1>3, <2>2
    <3>4. Joins(Joined(left, right), left, right, m, k, start)
      BY ONLY <3>2, <3>3, JoinedIs
    <3> QED
      BY <2>5, <3>4
  <2>10. ExactAt(segment, records_, m, start)
    <3> SUFFICES ASSUME NEW i \in 0 .. m - 1, NEW length \in Nat, NEW record_, NEW claim, NEW at,
                        WalkTo(at, From(record_, i, m), claim, length)
                 PROVE  Done(at[length]) /\ at[length].value = segment.root
                          <=> record_ = records_[start + i + 1]
                              /\ Matches(claim, length, segment.paths[start + i])
      BY DEF ExactAt
    <3>1. CASE i < k
      <4>1. i \in 0 .. k - 1
        BY <1>3, <2>2, <3>1
      <4> QED
        BY <1>3, <2>2, <2>7, <2>8, <2>9, <4>1, LeftExact
    <3>2. CASE ~(i < k)
      <4>1. i \in k .. m - 1
        BY <1>3, <2>2, <3>2
      <4>2. PICK s \in Nat : s = start + k
        BY <2>6
      <4>3. Shaped(right, r, s) /\ ExactAt(right, records_, r, s)
        BY <2>7, <2>8, <4>2
      <4> QED
        BY <1>3, <2>2, <2>3, <2>9, <4>1, <4>2, <4>3, RightExact
    <3> QED
      BY <3>1, <3>2
  <2> QED
    BY <1>2, <1>5, <2>10
<1> QED
  BY <1>7, <1>8

\* What _included accepts is what _tree wrote, for an export of any size: the record
\* at that place, with its path and with no other.
THEOREM InclusionIsExact ==
  ASSUME NEW S, NEW records_ \in Seq(S), records_ # <<>>,
         NEW i \in 0 .. Len(records_) - 1, NEW record_, NEW T, NEW path_ \in Seq(T)
  PROVE  /\ DOMAIN Tree(records_).paths = 0 .. Len(records_) - 1
         /\ IsSeq(Tree(records_).paths[i])
         /\ Len(Tree(records_).paths[i]) <= BitLength(Len(records_) - 1)
         /\ Included(record_, i, Len(records_), path_, Tree(records_).root)
              <=> record_ = records_[i + 1] /\ path_ = Tree(records_).paths[i]
<1>1. PICK n \in Nat : n = Len(records_) /\ n > 0
  BY EmptySeq, LenProperties
<1>2. PICK tree : tree = Tree(records_)
  OBVIOUS
<1>3. PICK build : /\ tree = build[n][0]
                   /\ \A m \in 1 .. n, start \in Nat :
                        build[m][start] = Piece(build, records_, m, start)
  BY <1>1, <1>2, TreeIs
<1>4. Shaped(tree, n, 0) /\ ExactAt(tree, records_, n, 0)
  <2>1. \A m \in 1 .. n, start \in Nat : Shaped(build[m][start], m, start)
    BY <1>3, SegmentsShaped
  <2>2. \A m \in 1 .. n, start \in Nat : ExactAt(build[m][start], records_, m, start)
    BY <1>3, SegmentsExact
  <2>3. n \in 1 .. n /\ 0 \in Nat
    BY <1>1
  <2> QED
    BY <1>3, <2>1, <2>2, <2>3
<1>5. DOMAIN tree.paths = 0 .. n - 1 /\ IsSeq(tree.paths[i]) /\ Len(tree.paths[i]) <= BitLength(n - 1)
  <2>1. 0 .. 0 + n - 1 = 0 .. n - 1 /\ i \in 0 .. 0 + n - 1
    BY <1>1
  <2> QED
    BY <1>4, <2>1 DEF Shaped
<1>6. PICK length \in Nat : length = Len(path_)
  BY LenProperties
<1>7. PICK at : /\ WalkTo(at, From(record_, i, n), path_, length)
                /\ Included(record_, i, n, path_, tree.root)
                     <=> Done(at[length]) /\ at[length].value = tree.root
  <2>1. PICK root : root = tree.root
    OBVIOUS
  <2>2. Len(path_) \in Nat
    BY <1>6
  <2>3. \E at : /\ WalkTo(at, From(record_, i, n), path_, Len(path_))
                /\ Included(record_, i, n, path_, root) <=> Finds(at[Len(path_)], root)
    BY <2>2, IncludedIs
  <2>4. PICK at : /\ WalkTo(at, From(record_, i, n), path_, length)
                  /\ Included(record_, i, n, path_, root) <=> Finds(at[length], root)
    BY <1>6, <2>3
  <2> QED
    BY <2>1, <2>4 DEF Finds
<1>8. Included(record_, i, n, path_, tree.root)
        <=> record_ = records_[i + 1] /\ Matches(path_, length, tree.paths[i])
  <2>1. 0 + i = i /\ 0 + i + 1 = i + 1 /\ i \in 0 .. n - 1
    BY <1>1
  <2>2. Done(at[length]) /\ at[length].value = tree.root
          <=> record_ = records_[0 + i + 1] /\ Matches(path_, length, tree.paths[0 + i])
    BY <1>4, <1>7, <2>1 DEF ExactAt
  <2> QED
    BY <1>7, <2>1, <2>2
<1>9. Matches(path_, length, tree.paths[i]) <=> path_ = tree.paths[i]
  <2>1. PICK p : p = tree.paths[i] /\ IsSeq(p)
    BY <1>5
  <2>2. PICK U : p \in Seq(U)
    BY <2>1 DEF IsSeq
  <2>3. PICK V : p \in Seq(V) /\ path_ \in Seq(V)
    <3>1. p \in Seq(U \cup T) /\ path_ \in Seq(U \cup T)
      BY <2>2, SeqMonotonic
    <3> QED
      BY <3>1
  <2>4. ASSUME Matches(path_, length, p) PROVE path_ = p
    <3>1. Len(path_) = Len(p) /\ \A j \in 1 .. Len(path_) : path_[j] = p[j]
      BY <1>6, <2>4 DEF Matches
    <3> QED
      BY ONLY <2>3, <3>1, SeqEqual
  <2>5. ASSUME path_ = p PROVE Matches(path_, length, p)
    BY <1>6, <2>5 DEF Matches
  <2> QED
    BY <2>1, <2>4, <2>5
<1> QED
  BY <1>1, <1>2, <1>5, <1>8, <1>9

\* A proof of any of up to 4096 records (MAX_BATCH, 2 ^ 12) is short enough for verify(),
\* which answers False to one of more than 12 siblings (MAX_PROOF_NODES).
THEOREM ProofsFit ==
  ASSUME NEW S, NEW records_ \in Seq(S), records_ # <<>>, Len(records_) <= 2 ^ 12,
         NEW i \in 0 .. Len(records_) - 1
  PROVE  Len(Tree(records_).paths[i]) <= 12
<1>1. PICK n \in Nat : n = Len(records_) /\ n > 0
  BY EmptySeq, LenProperties
<1>2. <<>> \in Seq(S)
  BY EmptySeq
<1>3. Len(Tree(records_).paths[i]) <= BitLength(n - 1) /\ IsSeq(Tree(records_).paths[i])
  BY <1>1, <1>2, InclusionIsExact
<1>4. PICK k \in Nat, limit \in Nat : k = n - 1 /\ limit = 2 ^ 12 /\ k < limit
  <2>1. n - 1 \in Nat /\ 2 ^ 12 \in Nat /\ n <= 2 ^ 12
    BY <1>1, Powers
  <2> QED
    BY <2>1
<1>5. BitLength(k) \in Nat /\ BitLength(k) <= 12
  BY <1>4, BitLengthIs
<1>6. Len(Tree(records_).paths[i]) \in Nat
  BY <1>3, LenProperties DEF IsSeq
<1> QED
  BY <1>3, <1>4, <1>5, <1>6

-------------------------------------------------------------------------------
(* The claims about a tree. *)

\* The invariant of the claims: a size and a position of a tree, and a sequence.
TreeInv ==
  part = "tree" =>
    size \in Sizes /\ index \in 0 .. size - 1 /\ path \in Seq(Hashes[size])

\* An export is the records of its size.
LEMMA ExportIs ==
  ASSUME NEW n \in Sizes
  PROVE  /\ n \in Nat /\ n > 0
         /\ Export(n) \in Seq({r1, r2, r3, r4, r5, r6}) /\ Len(Export(n)) = n /\ Export(n) # <<>>
<1> DEFINE all == <<r1, r2, r3, r4, r5, r6>>
<1>1. n \in 1 .. 6
  BY TreeClaimsAssumption
<1>2. \A i \in 1 .. 6 : all[i] \in {r1, r2, r3, r4, r5, r6}
  OBVIOUS
<1>3. PICK s : s = SubSeq(all, 1, n)
  OBVIOUS
<1> HIDE DEF all
<1>4. s \in Seq({r1, r2, r3, r4, r5, r6}) /\ Len(s) = n
  <2>1. n \in Int /\ 1 \in Int /\ 1 <= n /\ n - 1 + 1 = n
    BY <1>1
  <2>2. \A i \in 1 .. n : all[i] \in {r1, r2, r3, r4, r5, r6}
    BY ONLY <1>1, <1>2
  <2>3. /\ SubSeq(all, 1, n) \in Seq({r1, r2, r3, r4, r5, r6})
        /\ Len(SubSeq(all, 1, n)) = IF 1 <= n THEN n - 1 + 1 ELSE 0
    BY ONLY <2>1, <2>2, SubSeqProperties
  <2> QED
    BY ONLY <1>3, <2>1, <2>3
<1>5. s # <<>>
  BY <1>1, <1>4
<1>6. Export(n) = s
  BY <1>3 DEF Export, all
<1> QED
  BY <1>1, <1>4, <1>5, <1>6

\* Claims grow by hashes of their tree.
LEMMA TreeAlways == MCSpec => []TreeInv
<1>1. MCInit => TreeInv
  BY DEF MCInit, ClaimInit, TreeInv
<1>2. TreeInv /\ [MCNext]_<<part, vars, treeVars, batchVars, workspaceVars, grantVars>> => TreeInv'
  <2> SUFFICES ASSUME TreeInv, [MCNext]_<<part, vars, treeVars, batchVars, workspaceVars, grantVars>>,
                      part' = "tree"
               PROVE  TreeInv'
    BY DEF TreeInv
  <2>1. part = "tree" /\ (ClaimNext \/ UNCHANGED treeVars)
    BY DEF MCNext
  <2>2. size \in Sizes /\ index \in 0 .. size - 1 /\ path \in Seq(Hashes[size])
    BY <2>1 DEF TreeInv
  <2>3. size' = size /\ index' = index
    BY <2>1 DEF ClaimNext, treeVars
  <2>4. path' \in Seq(Hashes[size])
    <3>1. CASE ClaimNext
      <4>1. PICK h \in Hashes[size] : path' = Append(path, h)
        BY <3>1 DEF ClaimNext
      <4> QED
        BY <2>2, <4>1, AppendProperties
    <3>2. CASE UNCHANGED treeVars
      BY <2>2, <3>2 DEF treeVars
    <3> QED
      BY <2>1, <3>1, <3>2
  <2>5. Hashes' = Hashes
    BY DEF Hashes, Trees, Export
  <2> QED
    BY <2>2, <2>3, <2>4, <2>5 DEF TreeInv
<1> QED
  BY <1>1, <1>2, PTL DEF MCSpec

\* The only claim that is accepted is what the tree wrote.
LEMMA ClaimsExact == ASSUME TreeInv, part = "tree" PROVE InclusionExact
<1>1. PICK n \in Sizes : /\ n = size
                         /\ \E j \in 0 .. n - 1, q \in Seq(Hashes[n]) : j = index /\ q = path
  BY DEF TreeInv
<1>2. PICK i \in 0 .. n - 1, p \in Seq(Hashes[n]) : i = index /\ p = path
  BY <1>1
<1>3. PICK export : export = Export(n)
  OBVIOUS
<1>4. export \in Seq({r1, r2, r3, r4, r5, r6}) /\ Len(export) = n /\ export # <<>>
  BY <1>3, ExportIs
<1>5. Included(record, i, n, p, Tree(export).root)
        => record = export[i + 1] /\ p = Tree(export).paths[i]
  BY <1>4, InclusionIsExact
<1>6. Trees[size] = Tree(export)
  BY <1>1, <1>3 DEF Trees
<1> QED
  BY <1>1, <1>2, <1>3, <1>5, <1>6 DEF InclusionExact

\* Every path of a tree is accepted.
LEMMA GenuineExact == GenuineProofsAccepted
<1> SUFFICES ASSUME NEW n \in WholeSizes, NEW i \in 0 .. n - 1
             PROVE  LET tree == Tree([j \in 1 .. n |-> j])
                    IN /\ Included(i + 1, i, n, tree.paths[i], tree.root)
                       /\ Len(tree.paths[i]) <= BitLength(n - 1)
  BY DEF GenuineProofsAccepted
<1>1. PICK numbers : numbers = [j \in 1 .. n |-> j]
  OBVIOUS
<1>2. n \in Nat /\ n > 0
  BY TreeClaimsAssumption
<1>3. numbers \in Seq(Nat) /\ Len(numbers) = n /\ numbers # <<>> /\ numbers[i + 1] = i + 1
  <2>1. numbers \in [1 .. n -> Nat]
    BY <1>1, <1>2
  <2>2. numbers \in Seq(Nat) /\ Len(numbers) = n
    BY <1>2, <2>1, SeqDef
  <2>3. i + 1 \in 1 .. n
    BY <1>2
  <2> QED
    BY <1>1, <1>2, <2>2, <2>3
<1>4. IsSeq(Tree(numbers).paths[i]) /\ Len(Tree(numbers).paths[i]) <= BitLength(n - 1)
  BY <1>3, EmptySeq, InclusionIsExact
<1>5. PICK T : Tree(numbers).paths[i] \in Seq(T)
  BY <1>4 DEF IsSeq
<1>6. Included(i + 1, i, n, Tree(numbers).paths[i], Tree(numbers).root)
  BY <1>3, <1>5, InclusionIsExact
<1> QED
  BY <1>1, <1>4, <1>6

-------------------------------------------------------------------------------
(* Sealed exports, and a consumer's cache and manifest.  Every sealed token is *)
(* the signature of its own key over its own header and payload. *)

\* A sequence is one over its members.
LEMMA OverMembers == ASSUME NEW S, NEW s \in Seq(S) PROVE s \in Seq(ToSet(s))
<1>1. s \in [1 .. Len(s) -> S] /\ DOMAIN s = 1 .. Len(s) /\ Len(s) \in Nat
  BY LenProperties
<1>2. s \in [1 .. Len(s) -> ToSet(s)]
  BY <1>1 DEF ToSet
<1> QED
  BY <1>1, <1>2, SeqDef

\* Of what a callback returns for one input, only the right signature passes.
LEMMA OneToken ==
  ASSUME NEW k, NEW input, NEW out \in Outputs(k, <<input>>), Signed(<<input>>, out),
         NEW token \in ToSet(Tokens(<<input>>, out))
  PROVE  token = [input |-> input, signature |-> Signature(k, input, "low")]
<1> DEFINE good == Signature(k, input, "low")
           right == [i \in 1 .. 1 |-> good]
<1>1. Len(<<input>>) = 1 /\ <<input>>[1] = input
  OBVIOUS
<1>2. Len(out) = 1 /\ \A i \in DOMAIN out : out[i].form = "low"
  BY <1>1 DEF Signed, WellFormed
<1>3. [i \in 1 .. 1 |-> Signature(k, <<input>>[i], "low")] = right
  BY <1>1
<1>4. \/ out = right \/ out = SubSeq(right, 1, 0) \/ out = [i \in 1 .. 1 |-> right[1 + 1 - i]]
      \/ \E i \in 1 .. 1, form \in {"high", "cut"} : out = [right EXCEPT ![i].form = form]
  BY <1>1, <1>3 DEF Outputs
<1>5. right \in Seq({good}) /\ Len(right) = 1 /\ right[1] = good
  BY SeqDef
<1>6. out # SubSeq(right, 1, 0)
  <2>1. PICK none : none = SubSeq(right, 1, 0)
    OBVIOUS
  <2>2. Len(none) = 0
    BY <2>1, SubSeqEmpty
  <2> QED
    BY ONLY <2>1, <2>2, <1>2
<1>7. ASSUME NEW i \in 1 .. 1, NEW form \in {"high", "cut"}, out = [right EXCEPT ![i].form = form]
      PROVE  FALSE
  <2>1. i = 1 /\ DOMAIN out = 1 .. 1
    BY <1>7
  <2>2. out[1] = [good EXCEPT !.form = form]
    BY <1>5, <1>7, <2>1
  <2>3. out[1].form = form
    BY <2>2 DEF Signature
  <2>4. out[1].form = "low"
    BY <2>1, <1>2
  <2> QED
    BY <2>3, <2>4
<1>8. out[1] = good
  BY <1>4, <1>5, <1>6, <1>7
<1>9. Tokens(<<input>>, out) = [i \in 1 .. 1 |-> [input |-> <<input>>[i], signature |-> out[i]]]
  BY <1>2 DEF Tokens
<1>10. PICK i \in 1 .. 1 : token = [input |-> <<input>>[i], signature |-> out[i]]
  BY <1>9 DEF ToSet
<1> QED
  BY <1>1, <1>8, <1>10

\* What is on record of an export that was sealed.
SealedRight(x) ==
  /\ x.export \in Exports
  /\ \E context \in Contexts : x.token.input.payload \in Payloads(x.export, context)
  /\ x.token = [input |-> x.token.input, signature |-> Signature(x.key, x.token.input, "low")]

\* The manifest that is open is one the pinned key sealed.
HandleSealed ==
  handle # Nothing =>
    \E x \in sealed : /\ Trusted(x)
                      /\ handle = [i \in DOMAIN x.export |-> Sha(x.export[i])]

\* An entry of the cache is what its token's verification made.
GoodEntry(entry) == RootTrusted(entry.token) /\ entry.answer = Answer(entry.token)

CacheInv ==
  /\ cache \in Seq(ToSet(cache)) /\ Len(cache) <= CacheSize
  /\ \A i, j \in 1 .. Len(cache) : cache[i].token = cache[j].token => i = j
  /\ \A i \in 1 .. Len(cache) : GoodEntry(cache[i])

RecordsInv ==
  /\ IsFiniteSet(sealed) /\ Cardinality(sealed) <= MaxSealed
  /\ \A x \in sealed : SealedRight(x)
  /\ CacheInv /\ HandleSealed /\ BatchesAreWhole

\* Sealing an export.
LEMMA RecordsSeal ==
  ASSUME RecordsInv, NEW k \in Keys, NEW kid \in KeyIds, NEW context \in Contexts, NEW export \in Exports,
         Seal(k, kid, context, export)
  PROVE  RecordsInv'
<1>1. Cardinality(sealed) < MaxSealed /\ UNCHANGED <<batches, cache, handle>>
  BY DEF Seal
<1>2. PICK payload \in Payloads(export, context) :
        \E out \in Outputs(k, <<Input(kid, payload)>>) :
          /\ Signed(<<Input(kid, payload)>>, out)
          /\ \E token \in ToSet(Tokens(<<Input(kid, payload)>>, out)) :
               sealed' = sealed \cup {[export |-> export, key |-> k, token |-> token]}
  BY DEF Seal
<1>3. PICK input : input = Input(kid, payload)
  OBVIOUS
<1>4. PICK token : /\ token = [input |-> input, signature |-> Signature(k, input, "low")]
                   /\ sealed' = sealed \cup {[export |-> export, key |-> k, token |-> token]}
  BY <1>2, <1>3, OneToken
<1>5. PICK x : x = [export |-> export, key |-> k, token |-> token]
  OBVIOUS
<1>6. /\ x.export = export /\ x.key = k /\ x.token = token
      /\ token.input = input /\ token.signature = Signature(k, input, "low") /\ input.payload = payload
  BY <1>3, <1>4, <1>5 DEF Input
<1>7. SealedRight(x) /\ sealed' = sealed \cup {x}
  BY <1>4, <1>5, <1>6 DEF SealedRight
<1>8. IsFiniteSet(sealed') /\ Cardinality(sealed') <= MaxSealed
  <2>1. IsFiniteSet(sealed) /\ Cardinality(sealed) \in Nat /\ MaxSealed \in Nat
    BY FS_CardinalityType, SealedRecordsAssumption DEF RecordsInv
  <2>2. IsFiniteSet(sealed') /\ (Cardinality(sealed') = Cardinality(sealed) \/ Cardinality(sealed') = Cardinality(sealed) + 1)
    BY <1>7, <2>1, FS_AddElement
  <2> QED
    BY <1>1, <2>1, <2>2
<1>9. \A y \in sealed' : SealedRight(y)
  BY <1>7 DEF RecordsInv
<1>10. CacheInv'
  BY <1>1 DEF RecordsInv, CacheInv, GoodEntry, RootTrusted, Answer
<1>11. HandleSealed' /\ BatchesAreWhole'
  BY <1>1, <1>7 DEF RecordsInv, HandleSealed, BatchesAreWhole, Trusted
<1> QED
  BY <1>8, <1>9, <1>10, <1>11 DEF RecordsInv, SealedRight

\* Signing a batch: the whole batch or nothing.
LEMMA RecordsBatch ==
  ASSUME RecordsInv, NEW k \in Keys, NEW kid \in KeyIds, SignBatch(k, kid)
  PROVE  RecordsInv'
<1> DEFINE inputs == <<Input(kid, "first"), Input(kid, "second")>>
<1>1. UNCHANGED <<sealed, cache, handle>>
  BY DEF SignBatch
<1>2. PICK out \in Outputs(k, inputs) :
        Signed(inputs, out) /\ batches' = {[inputs |-> inputs, tokens |-> Tokens(inputs, out)]}
  BY DEF SignBatch
<1>3. Len(inputs) = 2 /\ DOMAIN inputs = 1 .. 2
  OBVIOUS
<1> HIDE DEF inputs
<1>4. Len(out) = 2 /\ \A i \in DOMAIN out : WellFormed(out[i])
  BY <1>2, <1>3 DEF Signed
<1>5. 1 .. 2 \subseteq DOMAIN out
  <2>1. PICK n \in Nat : n = Len(inputs) /\ n = 2
    BY <1>3
  <2>2. PICK right : right = [i \in 1 .. n |-> Signature(k, inputs[i], "low")]
    OBVIOUS
  <2>3. \/ out = right \/ out = SubSeq(right, 1, n - 1) \/ out = [i \in 1 .. n |-> right[n + 1 - i]]
        \/ \E i \in 1 .. n, form \in {"high", "cut"} : out = [right EXCEPT ![i].form = form]
    BY <2>1, <2>2 DEF Outputs
  <2>4. out # SubSeq(right, 1, n - 1)
    <3>1. \A i \in 1 .. n - 1 : right[i] \in {right[1]}
      BY <2>1
    <3>2. Len(SubSeq(right, 1, n - 1)) = 1
      BY <3>1, <2>1, SubSeqProperties
    <3> QED
      BY <3>2, <1>4
  <2> QED
    BY <2>1, <2>2, <2>3, <2>4
<1>6. PICK tokens : tokens = Tokens(inputs, out)
  OBVIOUS
<1>7. tokens = [i \in 1 .. 2 |-> [input |-> inputs[i], signature |-> out[i]]]
  BY <1>4, <1>6 DEF Tokens
<1>8. Len(tokens) = 2 /\ \A i \in 1 .. 2 : tokens[i].input = inputs[i] /\ WellFormed(tokens[i].signature)
  BY <1>4, <1>5, <1>7
<1>9. BatchesAreWhole'
  <2> SUFFICES ASSUME NEW batch \in batches'
               PROVE  /\ Len(batch.tokens) = Len(batch.inputs)
                      /\ \A i \in DOMAIN batch.inputs :
                           batch.tokens[i].input = batch.inputs[i] /\ WellFormed(batch.tokens[i].signature)
    BY DEF BatchesAreWhole
  <2>1. batch.inputs = inputs /\ batch.tokens = tokens
    BY <1>2, <1>6
  <2> QED
    BY <2>1, <1>3, <1>8
<1>10. CacheInv' /\ HandleSealed' /\ \A x \in sealed' : SealedRight(x)
  BY <1>1 DEF RecordsInv, CacheInv, GoodEntry, RootTrusted, Answer, HandleSealed, Trusted
<1> QED
  BY <1>1, <1>9, <1>10 DEF RecordsInv, SealedRight

\* Moving the i-th of a sequence to its end: every other place holds what this or the
\* next one held.
LEMMA MovedToEnd ==
  ASSUME NEW S, NEW s \in Seq(S), NEW i \in 1 .. Len(s)
  PROVE  LET t == Append(RemoveAt(s, i), s[i])
         IN /\ t \in Seq(S) /\ Len(t) = Len(s)
            /\ \A j \in 1 .. Len(s) :
                 t[j] = IF j < i THEN s[j] ELSE IF j < Len(s) THEN s[j + 1] ELSE s[i]
<1> DEFINE a == SubSeq(s, 1, i - 1)
           b == SubSeq(s, i + 1, Len(s))
           t == Append(RemoveAt(s, i), s[i])
<1>1. PICK n \in Nat : n = Len(s) /\ i \in 1 .. n
  BY LenProperties
<1>2. \A j \in 1 .. n : s[j] \in S
  BY <1>1, ElementOfSeq
<1>3. /\ a \in Seq(S) /\ Len(a) = i - 1 /\ \A j \in 1 .. i - 1 : a[j] = s[j]
  <2>1. \A j \in 1 .. i - 1 : s[j] \in S
    BY <1>1, <1>2
  <2>2. i - 1 \in Int /\ 1 \in Int
    BY <1>1
  <2>3. /\ a \in Seq(S) /\ Len(a) = IF 1 <= i - 1 THEN (i - 1) - 1 + 1 ELSE 0
        /\ \A j \in 1 .. (i - 1) - 1 + 1 : a[j] = s[1 + j - 1]
    BY <2>1, <2>2, SubSeqProperties
  <2> QED
    BY <2>3, <1>1
<1>4. /\ b \in Seq(S) /\ Len(b) = n - i /\ \A j \in 1 .. n - i : b[j] = s[i + j]
  <2>1. \A j \in i + 1 .. n : s[j] \in S
    BY <1>1, <1>2
  <2>2. i + 1 \in Int /\ n \in Int
    BY <1>1
  <2>3. /\ b \in Seq(S) /\ Len(b) = IF i + 1 <= n THEN n - (i + 1) + 1 ELSE 0
        /\ \A j \in 1 .. n - (i + 1) + 1 : b[j] = s[(i + 1) + j - 1]
    BY <1>1, <2>1, <2>2, SubSeqProperties
  <2> QED
    BY <2>3, <1>1
<1>5. t = Append(a \o b, s[i])
  BY DEF RemoveAt
<1> HIDE DEF a, b, t
<1>6. i - 1 \in Nat /\ n - i \in Nat /\ (i - 1) + (n - i) = n - 1
  BY <1>1
<1>7. PICK c : c = a \o b
  OBVIOUS
<1>8. /\ c \in Seq(S) /\ Len(c) = (i - 1) + (n - i)
      /\ \A j \in 1 .. i - 1 : c[j] = a[j]
      /\ \A j \in 1 .. n - i : c[(i - 1) + j] = b[j]
  <2>1. PICK p \in Seq(S), q \in Seq(S) : p = a /\ q = b
    BY <1>3, <1>4
  <2>2. /\ p \o q \in Seq(S) /\ Len(p \o q) = Len(p) + Len(q)
        /\ \A j \in 1 .. Len(p) : (p \o q)[j] = p[j]
        /\ \A j \in 1 .. Len(q) : (p \o q)[Len(p) + j] = q[j]
    BY LenProperties, Concatenated
  <2>3. Len(p) = i - 1 /\ Len(q) = n - i
    BY <2>1, <1>3, <1>4
  <2> QED
    BY <2>1, <2>2, <2>3, <1>7
<1>9. PICK last \in S : last = s[i]
  BY <1>1, <1>2
<1>10. /\ t \in Seq(S) /\ Len(t) = Len(c) + 1
       /\ \A j \in 1 .. Len(c) : t[j] = c[j]
       /\ t[Len(c) + 1] = last
  <2>1. t = Append(c, last) /\ c \in Seq(S) /\ last \in S
    BY <1>5, <1>7, <1>8, <1>9
  <2> QED
    BY ONLY <2>1, AppendProperties
<1>11. Len(c) = n - 1 /\ Len(t) = n
  BY <1>1, <1>6, <1>8, <1>10
<1>12. ASSUME NEW j \in 1 .. n
       PROVE  t[j] = IF j < i THEN s[j] ELSE IF j < n THEN s[j + 1] ELSE s[i]
  <2>1. CASE j < i
    <3>1. j \in 1 .. i - 1 /\ j \in 1 .. Len(c)
      BY <1>1, <1>11, <2>1
    <3> QED
      BY <2>1, <3>1, <1>3, <1>8, <1>10
  <2>2. CASE j >= i /\ j < n
    <3>1. PICK k \in Int : k = j - (i - 1)
      BY <1>1
    <3>2. k \in 1 .. n - i /\ (i - 1) + k = j /\ i + k = j + 1 /\ j \in 1 .. Len(c)
      BY <1>1, <1>11, <2>2, <3>1
    <3>3. c[j] = b[k] /\ b[k] = s[j + 1]
      BY <3>2, <1>4, <1>8
    <3> QED
      BY <2>2, <3>2, <3>3, <1>1, <1>10
  <2>3. CASE j = n
    BY <2>3, <1>1, <1>9, <1>10, <1>11
  <2> QED
    BY <2>1, <2>2, <2>3, <1>1
<1> QED
  BY <1>1, <1>10, <1>11, <1>12 DEF t

\* A hit moves an entry, a verified token is inserted and the oldest dropped.
LEMMA CacheLookUp ==
  ASSUME CacheInv, NEW token, LookUp(token)
  PROVE  CacheInv'
<1>1. PICK n \in Nat : n = Len(cache)
  BY LenProperties DEF CacheInv
<1>2. /\ cache \in Seq(ToSet(cache)) /\ n <= CacheSize /\ DOMAIN cache = 1 .. n
      /\ CacheSize \in Nat \ {0}
  BY <1>1, LenProperties, SealedRecordsAssumption DEF CacheInv
<1>3. CASE Hit(token)
  <2>1. PICK i \in 1 .. n : cache[i].token = token /\ cache' = Touched(i)
    BY <1>2, <1>3 DEF LookUp
  <2>2. /\ cache' \in Seq(ToSet(cache)) /\ Len(cache') = n
        /\ \A j \in 1 .. n :
             cache'[j] = IF j < i THEN cache[j] ELSE IF j < n THEN cache[j + 1] ELSE cache[i]
    BY <1>1, <1>2, <2>1, MovedToEnd DEF Touched
  <2>3. cache' \in Seq(ToSet(cache'))
    BY <2>2, OverMembers
  <2> DEFINE from(j) == IF j < i THEN j ELSE IF j < n THEN j + 1 ELSE i
  <2>4. \A j \in 1 .. n : from(j) \in 1 .. n
    BY ONLY n \in Nat, i \in 1 .. n
  <2>5. \A j, k \in 1 .. n : from(j) = from(k) => j = k
    BY ONLY n \in Nat, i \in 1 .. n
  <2>6. \A j \in 1 .. n : cache'[j] = cache[from(j)]
    BY ONLY <2>2
  <2>7. /\ \A j \in 1 .. n : from(j) \in 1 .. n /\ cache'[j] = cache[from(j)]
        /\ \A j, k \in 1 .. n : from(j) = from(k) => j = k
    BY <2>4, <2>5, <2>6
  <2> HIDE DEF from
  <2>8. \A j, k \in 1 .. n : cache'[j].token = cache'[k].token => j = k
    BY <1>1, <2>7 DEF CacheInv
  <2>9. \A j \in 1 .. n : GoodEntry(cache'[j])
    BY <1>1, <2>7 DEF CacheInv
  <2> QED
    BY <1>2, <2>2, <2>3, <2>8, <2>9 DEF CacheInv, GoodEntry, RootTrusted, Answer
<1>4. CASE ~Hit(token)
  <2>1. RootTrusted(token) /\ cache' = Kept(Inserted(token))
    BY <1>4 DEF LookUp
  <2>2. PICK new : new = [token |-> token, answer |-> Answer(token)]
    OBVIOUS
  <2>3. new.token = token /\ new.answer = Answer(token)
    BY <2>2
  <2>4. PICK longer : longer = Append(cache, new)
    OBVIOUS
  <2> DEFINE S == ToSet(cache) \cup {new}
  <2>5. cache \in Seq(S) /\ new \in S
    <3>1. cache \in [1 .. n -> ToSet(cache)]
      BY <1>1, <1>2, LenProperties
    <3>2. cache \in [1 .. n -> S]
      BY <3>1
    <3> QED
      BY <3>2, SeqDef
  <2>6. /\ longer \in Seq(S) /\ Len(longer) = n + 1 /\ longer[n + 1] = new
        /\ \A i \in 1 .. n : longer[i] = cache[i]
    BY <1>1, <2>4, <2>5, AppendProperties
  <2> HIDE DEF S
  <2>7. \A i \in 1 .. n : cache[i].token # token
    BY <1>2, <1>4 DEF Hit, Cached
  <2>8. \A i \in 1 .. n + 1 : (i \in 1 .. n /\ longer[i] = cache[i]) \/ (i = n + 1 /\ longer[i] = new)
    BY <2>6
  <2>9. \A i, j \in 1 .. n + 1 : longer[i].token = longer[j].token => i = j
    BY <1>1, <2>3, <2>7, <2>8 DEF CacheInv
  <2>10. \A i \in 1 .. n + 1 : GoodEntry(longer[i])
    BY <1>1, <2>1, <2>3, <2>8 DEF CacheInv, GoodEntry
  <2>11. cache' = IF n + 1 > CacheSize THEN Tail(longer) ELSE longer
    BY <2>1, <2>2, <2>4, <2>6 DEF Kept, Inserted
  <2>12. CASE n + 1 > CacheSize
    <3>1. longer # <<>>
      BY <2>6, EmptySeq
    <3>2. /\ cache' \in Seq(S) /\ Len(cache') = n
          /\ \A i \in 1 .. n : cache'[i] = longer[i + 1] /\ i + 1 \in 1 .. n + 1
      BY <2>6, <2>11, <2>12, <3>1, HeadTailProperties
    <3>3. cache' \in Seq(ToSet(cache'))
      BY <3>2, OverMembers
    <3>4. \A i, j \in 1 .. n : cache'[i].token = cache'[j].token => i = j
      <4> SUFFICES ASSUME NEW i \in 1 .. n, NEW j \in 1 .. n, cache'[i].token = cache'[j].token
                   PROVE  i = j
        OBVIOUS
      <4>1. i + 1 = j + 1
        BY <3>2, <2>9
      <4> QED
        BY <4>1
    <3>5. \A i \in 1 .. n : GoodEntry(cache'[i])
      BY <3>2, <2>10
    <3> QED
      BY <1>2, <3>2, <3>3, <3>4, <3>5 DEF CacheInv, GoodEntry, RootTrusted, Answer
  <2>13. CASE ~(n + 1 > CacheSize)
    <3>1. cache' = longer /\ Len(cache') <= CacheSize
      BY <1>2, <2>6, <2>11, <2>13
    <3>2. cache' \in Seq(ToSet(cache'))
      BY <3>1, <2>6, OverMembers
    <3> QED
      BY <3>1, <3>2, <2>6, <2>9, <2>10 DEF CacheInv, GoodEntry, RootTrusted, Answer
  <2> QED
    BY <2>12, <2>13
<1> QED
  BY <1>3, <1>4

\* A token that verifies, whatever parts it was put together from, is one that the
\* pinned key sealed.
LEMMA VerifiedWasSealed ==
  ASSUME RecordsInv, NEW token \in Wire, Verifies(token, Pinned.key)
  PROVE  \E y \in sealed : y.key = Pinned.key /\ y.token = token
<1>1. PICK x \in sealed, y \in sealed, form \in {"low", "high"} :
        token = [input |-> x.token.input, signature |-> [y.token.signature EXCEPT !.form = form]]
  BY DEF Wire
<1>2. token.input = x.token.input /\ token.signature = [y.token.signature EXCEPT !.form = form]
  BY <1>1
<1>3. y.token = [input |-> y.token.input, signature |-> Signature(y.key, y.token.input, "low")]
  BY DEF RecordsInv, SealedRight
<1>4. y.token.signature = Signature(y.key, y.token.input, "low")
  BY <1>3
<1>5. /\ token.signature.key = y.key /\ token.signature.over = y.token.input
      /\ token.signature.form = form
  BY <1>2, <1>4 DEF Signature
<1>6. y.key = Pinned.key /\ token.input = y.token.input /\ form = "low"
  BY <1>5 DEF Verifies, WellFormed
<1>7. token.signature = y.token.signature
  BY <1>2, <1>4, <1>6 DEF Signature
<1>8. token = [input |-> y.token.input, signature |-> Signature(y.key, y.token.input, "low")]
  BY <1>1, <1>2, <1>4, <1>6, <1>7
<1> QED
  BY <1>3, <1>6, <1>8

\* open_manifest returns a handle only for what the pinned key sealed.
LEMMA RecordsOpen ==
  ASSUME RecordsInv, NEW token \in Wire, Open(token)
  PROVE  RecordsInv'
<1>1. UNCHANGED <<sealed, batches, cache>>
  BY DEF Open
<1>2. ASSUME ListTrusted(token)
      PROVE  \E y \in sealed : Trusted(y) /\ token.input.payload.hashes = [i \in DOMAIN y.export |-> Sha(y.export[i])]
  <2>1. PICK y \in sealed : y.key = Pinned.key /\ y.token = token
    BY <1>2, VerifiedWasSealed DEF ListTrusted
  <2>2. Trusted(y)
    BY <2>1, <1>2 DEF Trusted, ListTrusted
  <2>3. PICK context \in Contexts : y.token.input.payload \in Payloads(y.export, context)
    BY DEF RecordsInv, SealedRight
  <2>4. token.input.payload.profile = "manifest"
    BY <1>2 DEF ListTrusted
  <2>5. RootPayload(y.export, context).profile = "receipt"
    BY DEF RootPayload
  <2>6. token.input.payload = ListPayload(y.export, context)
    BY <2>1, <2>3, <2>4, <2>5 DEF Payloads
  <2>7. token.input.payload.hashes = [i \in DOMAIN y.export |-> Sha(y.export[i])]
    BY <2>6 DEF ListPayload
  <2> QED
    BY <2>2, <2>7
<1>3. HandleSealed'
  BY <1>1, <1>2 DEF Open, HandleSealed, Trusted
<1>4. CacheInv' /\ BatchesAreWhole'
  BY <1>1 DEF RecordsInv, CacheInv, GoodEntry, RootTrusted, Answer, BatchesAreWhole
<1> QED
  BY <1>1, <1>3, <1>4 DEF RecordsInv, SealedRight

\* Nothing is sealed, cached or open yet.
LEMMA RecordsInit == Init => RecordsInv
<1> SUFFICES ASSUME Init PROVE RecordsInv
  OBVIOUS
<1>1. sealed = {} /\ batches = {} /\ cache = <<>> /\ handle = Nothing
  BY DEF Init
<1>2. IsFiniteSet(sealed) /\ Cardinality(sealed) = 0
  BY <1>1, FS_EmptySet
<1>3. cache \in Seq(ToSet(cache)) /\ Len(cache) = 0
  BY <1>1
<1>4. CacheInv
  BY <1>3, SealedRecordsAssumption DEF CacheInv
<1> QED
  BY <1>1, <1>2, <1>4, SealedRecordsAssumption DEF RecordsInv, HandleSealed, BatchesAreWhole

\* Every step of issuers and the consumer keeps the invariant.
LEMMA RecordsStep == RecordsInv /\ [Next]_vars => RecordsInv'
<1> SUFFICES ASSUME RecordsInv, [Next]_vars PROVE RecordsInv'
  OBVIOUS
<1>1. ASSUME NEW k \in Keys, NEW kid \in KeyIds, NEW context \in Contexts, NEW export \in Exports,
             Seal(k, kid, context, export)
      PROVE  RecordsInv'
  BY <1>1, RecordsSeal
<1>2. ASSUME NEW k \in Keys, NEW kid \in KeyIds, SignBatch(k, kid) PROVE RecordsInv'
  BY <1>2, RecordsBatch
<1>3. ASSUME NEW token \in Wire, LookUp(token) PROVE RecordsInv'
  <2>1. CacheInv' /\ UNCHANGED <<sealed, batches, handle>>
    BY <1>3, CacheLookUp DEF RecordsInv, LookUp
  <2>2. HandleSealed' /\ BatchesAreWhole'
    BY <2>1 DEF RecordsInv, HandleSealed, BatchesAreWhole, Trusted
  <2> QED
    BY <2>1, <2>2 DEF RecordsInv, SealedRight
<1>4. ASSUME NEW token \in Wire, Open(token) PROVE RecordsInv'
  BY <1>4, RecordsOpen
<1>5. CASE UNCHANGED vars
  BY <1>5 DEF vars, RecordsInv, SealedRight, CacheInv, GoodEntry, RootTrusted, Answer, HandleSealed, Trusted, BatchesAreWhole
<1> QED
  BY <1>1, <1>2, <1>3, <1>4, <1>5 DEF Next

\* Two exports of one number of records whose hashes agree are the same.
LEMMA ExportAcceptedIs ==
  ASSUME NEW x, x.export \in Seq(ToSet(x.export)), NEW S, NEW export \in Seq(S),
         handle = [i \in DOMAIN x.export |-> Sha(x.export[i])], ExportAccepted(export)
  PROVE  x.export = export
<1>1. PICK e : e = x.export
  OBVIOUS
<1>2. PICK n \in Nat : n = Len(e) /\ e \in [1 .. n -> ToSet(e)] /\ DOMAIN e = 1 .. n
  BY <1>1, LenProperties
<1>3. handle = [i \in 1 .. n |-> Sha(e[i])] /\ Len(handle) = n
  BY <1>1, <1>2
<1>4. Len(export) = n /\ export \in [1 .. n -> S] /\ DOMAIN export = 1 .. n
  BY <1>3, LenProperties DEF ExportAccepted
<1>5. ASSUME NEW i \in 1 .. n PROVE e[i] = export[i]
  <2>1. RecordAccepted(export[i], i - 1)
    BY <1>4 DEF ExportAccepted
  <2>2. handle[i] = Sha(export[i])
    BY <2>1 DEF RecordAccepted
  <2>3. Sha(e[i]) = Sha(export[i])
    BY <2>2, <1>3
  <2> QED
    BY <2>3 DEF Sha
<1> QED
  BY <1>1, <1>2, <1>4, <1>5

\* The cache answers what the verification it skips would have answered.
LEMMA RecordsImply == RecordsInv => CacheTransparent /\ ManifestProvesExport /\ BatchesAreWhole
<1> SUFFICES ASSUME RecordsInv PROVE CacheTransparent /\ ManifestProvesExport
  BY DEF RecordsInv
<1>1. DOMAIN cache = 1 .. Len(cache)
  BY LenProperties DEF RecordsInv, CacheInv
<1>2. handle # Nothing => \E export \in Exports : DOMAIN handle = DOMAIN export
  BY DEF RecordsInv, HandleSealed, SealedRight
<1>3. CacheTransparent
  BY <1>1, <1>2 DEF CacheTransparent, TypeOK, RecordsInv, CacheInv, GoodEntry, Manifests, Hit, Cached
<1>4. ManifestProvesExport
  <2> SUFFICES ASSUME handle # Nothing,
                      NEW export \in Exports \cup {SubSeq(e, 1, Len(e) - 1) : e \in Exports},
                      ExportAccepted(export)
               PROVE  \E x \in sealed : Trusted(x) /\ x.export = export
    BY DEF ManifestProvesExport
  <2>1. PICK x \in sealed : Trusted(x) /\ handle = [i \in DOMAIN x.export |-> Sha(x.export[i])]
    BY DEF RecordsInv, HandleSealed
  <2>2. x.export \in Seq(ToSet(x.export))
    BY SealedRecordsAssumption DEF RecordsInv, SealedRight
  <2>3. PICK S : export \in Seq(S)
    <3>1. CASE export \in Exports
      BY <3>1, SealedRecordsAssumption
    <3>2. ASSUME NEW e \in Exports, export = SubSeq(e, 1, Len(e) - 1) PROVE export \in Seq(ToSet(e))
      <4>1. e \in Seq(ToSet(e)) /\ Len(e) \in Nat
        BY LenProperties, SealedRecordsAssumption
      <4>2. \A i \in 1 .. Len(e) - 1 : e[i] \in ToSet(e)
        BY <4>1, ElementOfSeq
      <4> QED
        BY <3>2, <4>1, <4>2, SubSeqProperties
    <3> QED
      BY <3>1, <3>2
  <2> QED
    BY <2>1, <2>2, <2>3, ExportAcceptedIs
<1> QED
  BY <1>3, <1>4

\* The invariant holds of every run.
LEMMA RecordsAlways == MCSpec => []RecordsInv
<1>1. MCInit => RecordsInv
  BY RecordsInit DEF MCInit
<1>2. RecordsInv /\ [MCNext]_<<part, vars, treeVars, batchVars, workspaceVars, grantVars>> => RecordsInv'
  <2> SUFFICES ASSUME RecordsInv, [MCNext]_<<part, vars, treeVars, batchVars, workspaceVars, grantVars>>
               PROVE  RecordsInv'
    OBVIOUS
  <2>1. [Next]_vars
    BY DEF MCNext
  <2> QED
    BY <2>1, RecordsStep
<1> QED
  BY <1>1, <1>2, PTL DEF MCSpec

\* For all keys, exports and cache sizes: a root that is found in the cache is one
\* that the verification would accept, and the cache keeps to its bound.
THEOREM CacheIsTransparent == MCSpec => []CacheTransparent
<1>1. RecordsInv => CacheTransparent
  BY RecordsImply
<1> QED
  BY <1>1, RecordsAlways, PTL

\* The tree of an export has a sequence of siblings for each of its positions.
LEMMA PathsOfExport ==
  ASSUME NEW export \in Exports
  PROVE  /\ export \in Seq(ToSet(export)) /\ Len(export) \in Nat /\ export # <<>>
         /\ DOMAIN Tree(export).paths = 0 .. Len(export) - 1
         /\ \A i \in 0 .. Len(export) - 1 : IsSeq(Tree(export).paths[i])
<1>1. export \in Seq(ToSet(export)) /\ Len(export) > 0
  BY SealedRecordsAssumption
<1>2. Len(export) \in Nat /\ export # <<>>
  BY <1>1, LenProperties, EmptySeq
<1>3. <<>> \in Seq(Nat)
  BY EmptySeq
<1>4. ASSUME NEW i \in 0 .. Len(export) - 1
      PROVE  /\ DOMAIN Tree(export).paths = 0 .. Len(export) - 1
             /\ IsSeq(Tree(export).paths[i])
  BY <1>1, <1>2, <1>3, InclusionIsExact
<1>5. 0 \in 0 .. Len(export) - 1
  BY <1>1, <1>2
<1> QED
  BY <1>1, <1>2, <1>4, <1>5

\* No path of an export proves another record than the one at its place of a tree.
LEMMA TreesAreSound == TreeSound
<1> SUFFICES ASSUME NEW export \in Exports, NEW record_ \in Records, NEW index_ \in Indexes,
                    NEW path_ \in Paths, index_ < Len(export),
                    Included(record_, index_, Len(export), path_, Tree(export).root)
             PROVE  export[index_ + 1] = record_
  BY DEF TreeSound
<1>1. PICK other \in Exports : \E i \in DOMAIN Tree(other).paths : path_ = Tree(other).paths[i]
  BY DEF Paths
<1>2. PICK T : path_ \in Seq(T)
  <2>1. PICK paths : paths = Tree(other).paths
    OBVIOUS
  <2>2. DOMAIN paths = 0 .. Len(other) - 1 /\ \A i \in 0 .. Len(other) - 1 : IsSeq(paths[i])
    BY <2>1, PathsOfExport
  <2>3. \E i \in DOMAIN paths : path_ = paths[i]
    BY <1>1, <2>1
  <2>4. IsSeq(path_)
    BY ONLY <2>2, <2>3
  <2> QED
    BY <2>4 DEF IsSeq
<1>3. index_ \in 0 .. Len(export) - 1
  <2>1. index_ \in Nat
    BY PathsOfExport DEF Indexes
  <2> QED
    BY <2>1, PathsOfExport
<1> QED
  BY <1>2, <1>3, PathsOfExport, InclusionIsExact

\* What the pinned key sealed in the pinned context is answered, from the cache or not.
LEMMA SealedAnswered ==
  ASSUME RecordsInv, NEW x \in sealed, Trusted(x), x.token.input.payload.profile = "receipt",
         x.token.signature = Signature(x.key, x.token.input, "low")
  PROVE  Answer(x.token) \in Manifests(x.token)
<1>1. PICK token : token = x.token
  OBVIOUS
<1>2. RootTrusted(token)
  BY <1>1 DEF Trusted, RootTrusted, Verifies, WellFormed, Signature
<1>3. CASE Hit(token)
  <2>1. token \in Wire
    <3>1. token = [input |-> token.input, signature |-> token.signature]
      BY <1>1 DEF RecordsInv, SealedRight
    <3>2. PICK s : s = token.signature
      OBVIOUS
    <3>3. s = [s EXCEPT !.form = "low"]
      BY <1>1, <3>2 DEF Signature
    <3> DEFINE made(a, b, form) ==
                 [input |-> a.token.input, signature |-> [b.token.signature EXCEPT !.form = form]]
    <3>4. token = made(x, x, "low")
      BY <1>1, <3>1, <3>2, <3>3
    <3>5. Wire = {made(a, b, form) : a \in sealed, b \in sealed, form \in {"low", "high"}}
      BY DEF Wire
    <3> HIDE DEF made
    <3> QED
      BY <3>4, <3>5
  <2>2. Manifests(token) = {Answer(token)}
    BY <1>3, <2>1, RecordsImply DEF CacheTransparent
  <2> QED
    BY <1>1, <2>2
<1>4. CASE ~Hit(token)
  BY <1>1, <1>2, <1>4 DEF Manifests
<1> QED
  BY <1>3, <1>4

\* Every receipt of an export that the pinned key sealed is accepted.
LEMMA ReceiptsAccepted == ASSUME RecordsInv PROVE SealedReceiptsAccepted
<1> SUFFICES ASSUME NEW x \in sealed, Trusted(x), x.token.input.payload.profile = "receipt",
                    x.token.signature = Signature(x.key, x.token.input, "low"),
                    NEW i \in 0 .. Len(x.export) - 1
             PROVE  ReceiptAccepted(x.export[i + 1], i, i, Tree(x.export).paths[i], x.token)
  BY DEF SealedReceiptsAccepted
<1>1. PICK export \in Exports : export = x.export
  BY DEF RecordsInv, SealedRight
<1>2. x.token.input.payload = RootPayload(export, Pinned.context)
  <2>1. PICK context \in Contexts : x.token.input.payload \in Payloads(x.export, context)
    BY DEF RecordsInv, SealedRight
  <2>2. ListPayload(x.export, context).profile = "manifest"
    BY DEF ListPayload
  <2>3. x.token.input.payload = RootPayload(x.export, context)
    BY <2>1, <2>2 DEF Payloads
  <2>4. context = Pinned.context
    BY <2>3 DEF RootPayload, Trusted
  <2> QED
    BY <1>1, <2>3, <2>4
<1>3. PICK answer : answer = Answer(x.token)
  OBVIOUS
<1>4. answer \in Manifests(x.token)
  BY <1>3, SealedAnswered
<1>5. answer.count = Len(export) /\ answer.root = Tree(export).root
  BY <1>2, <1>3 DEF Answer, RootPayload
<1>6. PICK T : Tree(export).paths[i] \in Seq(T)
  BY <1>1, PathsOfExport DEF IsSeq
<1>7. Included(export[i + 1], i, Len(export), Tree(export).paths[i], Tree(export).root)
  BY <1>1, <1>6, PathsOfExport, InclusionIsExact
<1>8. i < Len(export)
  BY <1>1, PathsOfExport
<1> QED
  BY <1>1, <1>4, <1>5, <1>7, <1>8 DEF ReceiptAccepted

\* For all exports, keys, sizes and claims: of a tree over any records, the inclusion
\* check accepts every record at its place with the siblings that the tree wrote, and
\* nothing else; and so does a consumer of the receipts that the pinned key sealed.
THEOREM ProofsAreExact == MCSpec => []ProofsExact
<1>1. TreeInv /\ RecordsInv => ProofsExact
  BY ClaimsExact, GenuineExact, TreesAreSound, ReceiptsAccepted DEF ProofsExact
<1> QED
  BY <1>1, TreeAlways, RecordsAlways, PTL

\* A receipt that is accepted is for a record of an export the pinned key sealed.
LEMMA ReceiptSealed ==
  ASSUME RecordsInv, NEW token \in Wire, NEW record_ \in Records, NEW index_ \in Indexes,
         NEW path_ \in Paths, ReceiptAccepted(record_, index_, index_, path_, token)
  PROVE  \E x \in sealed : /\ Trusted(x) /\ x.token = token
                          /\ index_ < Len(x.export) /\ x.export[index_ + 1] = record_
<1>1. RootTrusted(token) /\ Manifests(token) = {Answer(token)}
  <2>1. PICK manifest : manifest \in Manifests(token)
    BY DEF ReceiptAccepted
  <2>2. CASE Hit(token)
    BY <2>2, RecordsImply DEF CacheTransparent
  <2>3. CASE ~Hit(token)
    BY <2>1, <2>3 DEF Manifests
  <2> QED
    BY <2>2, <2>3
<1>2. PICK x \in sealed : x.key = Pinned.key /\ x.token = token
  BY <1>1, VerifiedWasSealed DEF RootTrusted
<1>3. Trusted(x)
  BY <1>1, <1>2 DEF Trusted, RootTrusted
<1>4. PICK context \in Contexts : token.input.payload \in Payloads(x.export, context)
  BY <1>2 DEF RecordsInv, SealedRight
<1>5. token.input.payload = RootPayload(x.export, context)
  <2>1. ListPayload(x.export, context).profile = "manifest" /\ token.input.payload.profile = "receipt"
    BY <1>1 DEF ListPayload, RootTrusted
  <2> QED
    BY <1>4, <2>1 DEF Payloads
<1>6. token.input.payload.count = Len(x.export) /\ token.input.payload.root = Tree(x.export).root
  BY <1>5 DEF RootPayload
<1>7. /\ index_ < Len(x.export)
      /\ Included(record_, index_, Len(x.export), path_, Tree(x.export).root)
  BY <1>1, <1>6 DEF ReceiptAccepted, Answer
<1>8. x.export[index_ + 1] = record_
  BY <1>7, TreesAreSound DEF TreeSound, RecordsInv, SealedRight
<1> QED
  BY <1>2, <1>3, <1>7, <1>8

\* For all keys, exports, cache sizes and mixtures of tokens: an accepted receipt proves
\* its record at its position of an export the pinned key sealed, an opened manifest its
\* export, and batches are signed as a whole.
THEOREM AcceptedSealed == MCSpec => []AcceptedWasSealed
<1>1. RecordsInv => AcceptedWasSealed
  BY RecordsImply, ReceiptSealed DEF AcceptedWasSealed, ReceiptProvesRecord
<1> QED
  BY <1>1, RecordsAlways, PTL

-------------------------------------------------------------------------------
(* The shapes of batches. *)

\* What a record of a batch is: byte strings with sizes, and, in a text that was
\* sealed, a plain text with one.
Shape(r) ==
  /\ r = [nonce |-> r.nonce, data |-> r.data, aad |-> r.aad]
  /\ r.nonce.size \in Nat /\ r.data.size \in Nat /\ r.aad.size \in Nat
  /\ Len(r.data.of) = 5 => r.data.of[5].size \in Nat

\* The invariant: what there is in a batch, and a scalar as the key.
BatchInv ==
  /\ records \in Seq(B!Inputs \cup {B!Simple})
  /\ key.of \in Nat

\* Every record that a batch is grown by has that shape.
LEMMA Shapes == \A r \in B!Inputs \cup {B!Simple} : Shape(r)
<1>1. ASSUME NEW r \in B!Record PROVE Shape(r) /\ \A k : Shape([r EXCEPT !.data = B!Sealed(k, r)])
  <2>1. PICK a \in {B!Bytes(12, 1), B!Bytes(12, 2)}, d \in B!Plain, c \in {B!Bytes(n, "aad") : n \in AadSizes} :
          r = [nonce |-> a, data |-> d, aad |-> c]
    BY <1>1 DEF B!Record
  <2>2. a.size \in Nat /\ c.size \in Nat
    BY <2>1, LibraryAssumption DEF B!Bytes
  <2>3. d.size \in Nat /\ d.of = <<"plain">>
    BY <2>1, LibraryAssumption DEF B!Plain, B!Bytes
  <2>4. Shape(r)
    BY <2>1, <2>2, <2>3 DEF Shape
  <2>5. ASSUME NEW k PROVE Shape([r EXCEPT !.data = B!Sealed(k, r)])
    <3>1. PICK e : e = B!Sealed(k, r)
      OBVIOUS
    <3>2. e.size = d.size + 16 /\ e.of = <<"sealed", k, a, c, d>>
      BY <3>1, <2>1 DEF B!Sealed, B!Bytes, B!Tag
    <3>3. e.size \in Nat /\ e.of[5].size \in Nat
      BY <3>2, <2>3
    <3>4. PICK x : x = [r EXCEPT !.data = e]
      OBVIOUS
    <3>5. x = [nonce |-> a, data |-> e, aad |-> c]
      BY <3>4, <2>1
    <3>6. Shape(x)
      BY <3>5, <3>3, <2>2 DEF Shape
    <3> QED
      BY <3>1, <3>4, <3>6
  <2> QED
    BY <2>4, <2>5
<1>2. PICK a, d, c : B!Simple = [nonce |-> a, data |-> d, aad |-> c] /\ a = B!Bytes(12, 3)
                     /\ d = B!Bytes(0, <<"plain">>) /\ c = B!Bytes(0, "aad")
  BY DEF B!Simple
<1>3. a.size = 12 /\ d.size = 0 /\ d.of = <<"plain">> /\ c.size = 0
  BY <1>2 DEF B!Bytes
<1>4. Shape(B!Simple)
  BY <1>2, <1>3 DEF Shape
<1>5. ASSUME NEW r \in B!Record PROVE Shape([B!Simple EXCEPT !.data = B!Sealed(B!Bytes(32, 1), r)])
  <2>1. PICK e : e = B!Sealed(B!Bytes(32, 1), r)
    OBVIOUS
  <2>2. e.size = r.data.size + 16 /\ e.of[5] = r.data
    BY <2>1 DEF B!Sealed, B!Bytes, B!Tag
  <2>3. r.data.size \in Nat
    BY <1>1 DEF Shape
  <2>4. PICK x : x = [B!Simple EXCEPT !.data = e]
    OBVIOUS
  <2>5. x = [nonce |-> a, data |-> e, aad |-> c]
    BY <1>2, <2>4
  <2>6. Shape(x)
    BY <2>2, <2>3, <2>5, <1>3 DEF Shape
  <2> QED
    BY <2>1, <2>4, <2>6
<1>6. Shape([B!Simple EXCEPT !.data.size = B!Tag - 1])
  <2>1. PICK e : e = [d EXCEPT !.size = 15]
    OBVIOUS
  <2>2. e.size = 15 /\ e.of = <<"plain">>
    BY <1>2, <2>1 DEF B!Bytes
  <2>3. PICK x : x = [B!Simple EXCEPT !.data.size = B!Tag - 1]
    OBVIOUS
  <2>4. x = [nonce |-> a, data |-> e, aad |-> c]
    BY <1>2, <2>1, <2>3 DEF B!Tag
  <2>5. Shape(x)
    BY <2>2, <2>4, <1>3 DEF Shape
  <2> QED
    BY <2>3, <2>5
<1>7. Shape([B!Simple EXCEPT !.nonce.size = 11])
  <2>1. PICK e : e = [a EXCEPT !.size = 11]
    OBVIOUS
  <2>2. e.size = 11
    BY <1>2, <2>1 DEF B!Bytes
  <2>3. PICK x : x = [B!Simple EXCEPT !.nonce.size = 11]
    OBVIOUS
  <2>4. x = [nonce |-> e, data |-> d, aad |-> c]
    BY <1>2, <2>1, <2>3
  <2>5. Shape(x)
    BY <2>2, <2>4, <1>3 DEF Shape
  <2> QED
    BY <2>3, <2>5
<1> QED
  BY <1>1, <1>4, <1>5, <1>6, <1>7 DEF B!Inputs

\* A sum of BatchShapes is a total.
LEMMA SumIsTotal == ASSUME NEW f, NEW n, f = [i \in 1 .. n |-> f[i]] PROVE B!Sum(f) = Total(f, 1 .. n)
<1>1. DOMAIN f = 1 .. n
  OBVIOUS
<1> QED
  BY <1>1 DEF B!Sum, B!Total, Total, B!Tallies, Tallies, B!Cardinality, Cardinality

\* What a batch needs of the device, record by record.
Works(rs, opening) == [k \in 1 .. Len(rs) |-> B!WorkOf(rs[k], opening)]

\* What the engine has packed after a prefix of the batch is the work of that prefix.
LEMMA PackedIsWork ==
  ASSUME NEW S, NEW rs \in Seq(S), \A k \in 1 .. Len(rs) : Shape(rs[k]), NEW opening \in BOOLEAN,
         NEW i \in 1 .. Len(rs), \A k \in 1 .. i : opening => rs[k].data.size >= B!Tag
  PROVE  LET packed == SubSeq(rs, 1, i)
         IN B!Sum(B!Each(packed, B!InputSize)) + B!Sum(B!Each(packed, LAMBDA x : B!OutputSize(x, opening)))
              + B!Sum(B!Each(packed, LAMBDA x : x.aad.size)) = Total(Works(rs, opening), 1 .. i)
<1>1. Len(rs) \in Nat /\ i \in Nat
  BY LenProperties
<1>2. PICK packed : packed = SubSeq(rs, 1, i)
  OBVIOUS
<1>3. Len(packed) = i /\ \A k \in 1 .. i : packed[k] = rs[k]
  <2>1. \A k \in 1 .. i : rs[k] \in S
    BY <1>1, ElementOfSeq
  <2> QED
    BY <1>1, <1>2, <2>1, SubSeqProperties
<1>4. PICK a : a = [k \in 1 .. i |-> rs[k].data.size]
  OBVIOUS
<1>5. PICK b : b = [k \in 1 .. i |-> B!OutputSize(rs[k], opening)]
  OBVIOUS
<1>6. PICK c : c = [k \in 1 .. i |-> rs[k].aad.size]
  OBVIOUS
<1>7. PICK ab : ab = [k \in 1 .. i |-> a[k] + b[k]]
  OBVIOUS
<1>8. B!Each(packed, B!InputSize) = a
  BY <1>3, <1>4 DEF B!Each, B!InputSize
<1>9. B!Each(packed, LAMBDA x : B!OutputSize(x, opening)) = b
  BY <1>3, <1>5 DEF B!Each
<1>10. B!Each(packed, LAMBDA x : x.aad.size) = c
  BY <1>3, <1>6 DEF B!Each
<1>11. ASSUME NEW k \in 1 .. i
       PROVE  /\ a[k] \in Nat /\ b[k] \in Nat /\ c[k] \in Nat
              /\ ab[k] = a[k] + b[k] /\ Works(rs, opening)[k] = ab[k] + c[k]
  <2>1. k \in 1 .. Len(rs) /\ Shape(rs[k]) /\ (opening => rs[k].data.size >= 16)
    BY <1>1 DEF B!Tag
  <2>2. rs[k].data.size \in Nat /\ rs[k].aad.size \in Nat
    BY <2>1 DEF Shape
  <2>3. a[k] = rs[k].data.size /\ c[k] = rs[k].aad.size /\ b[k] = B!OutputSize(rs[k], opening)
        /\ ab[k] = a[k] + b[k] /\ Works(rs, opening)[k] = B!WorkOf(rs[k], opening)
    BY <1>4, <1>5, <1>6, <1>7, <2>1 DEF Works
  <2> QED
    BY <2>1, <2>2, <2>3 DEF B!OutputSize, B!WorkOf, B!PayloadSize, B!Tag
<1>12. Summable(a, 1 .. i) /\ Summable(b, 1 .. i) /\ Summable(c, 1 .. i) /\ Summable(ab, 1 .. i)
  <2>1. \A k \in 1 .. i : a[k] \in Nat /\ b[k] \in Nat /\ c[k] \in Nat /\ ab[k] \in Nat
    <3>1. \A k \in 1 .. i : a[k] \in Nat /\ b[k] \in Nat /\ c[k] \in Nat /\ ab[k] = a[k] + b[k]
      BY ONLY <1>11
    <3> QED
      BY ONLY <3>1
  <2> QED
    BY ONLY <2>1 DEF Summable
<1>13. Total(ab, 1 .. i) = Total(a, 1 .. i) + Total(b, 1 .. i)
  BY <1>1, <1>11, <1>12, TotalPlus
<1>14. Total(Works(rs, opening), 1 .. i) = Total(ab, 1 .. i) + Total(c, 1 .. i)
  BY <1>1, <1>11, <1>12, TotalPlus
<1>15. B!Sum(a) = Total(a, 1 .. i) /\ B!Sum(b) = Total(b, 1 .. i) /\ B!Sum(c) = Total(c, 1 .. i)
  BY <1>4, <1>5, <1>6, SumIsTotal
<1> QED
  BY <1>2, <1>8, <1>9, <1>10, <1>13, <1>14, <1>15

\* The bindings and the engine accept the same batches of records.
LEMMA RecordsNative ==
  ASSUME NEW S, NEW rs \in Seq(S), \A k \in 1 .. Len(rs) : Shape(rs[k]), NEW opening \in BOOLEAN,
         NEW secret, secret.size = 32, \A k \in 1 .. Len(rs) : rs[k].nonce.size = 12
  PROVE  B!Records(secret, rs, opening) <=> B!NativeAead(rs, opening)
<1>1. Len(rs) \in Nat
  BY LenProperties
<1>2. PICK w : w = Works(rs, opening)
  OBVIOUS
<1>3. B!Sum(B!Each(rs, LAMBDA r : B!WorkOf(r, opening))) = Total(w, 1 .. Len(rs))
  <2>1. B!Each(rs, LAMBDA r : B!WorkOf(r, opening)) = w /\ w = [k \in 1 .. Len(rs) |-> w[k]]
    BY <1>2 DEF B!Each, Works
  <2> QED
    BY <2>1, SumIsTotal
<1>4. ASSUME NEW i \in 1 .. Len(rs)
      PROVE  B!PayloadSize(rs[i], opening) \in 0 .. MaxPayload
               <=> (opening => rs[i].data.size >= B!Tag) /\ B!PayloadSize(rs[i], opening) <= MaxPayload
  <2>1. PICK m \in Nat : m = rs[i].data.size
    BY DEF Shape
  <2>2. MaxPayload \in Nat
    BY LibraryAssumption
  <2>3. B!PayloadSize(rs[i], opening) = m - (IF opening THEN 16 ELSE 0) /\ B!Tag = 16
    BY <2>1 DEF B!PayloadSize, B!Tag
  <2>4. CASE opening
    BY ONLY <2>1, <2>2, <2>3, <2>4
  <2>5. CASE ~opening
    BY ONLY <2>1, <2>2, <2>3, <2>5
  <2> QED
    BY <2>4, <2>5
<1>5. ASSUME \A i \in 1 .. Len(rs) : opening => rs[i].data.size >= B!Tag
      PROVE  Summable(w, 1 .. Len(rs))
  <2> SUFFICES ASSUME NEW i \in 1 .. Len(rs) PROVE w[i] \in Nat
    BY DEF Summable
  <2>1. w[i] = B!WorkOf(rs[i], opening) /\ Shape(rs[i]) /\ (opening => rs[i].data.size >= 16)
    BY <1>2, <1>5 DEF Works, B!Tag
  <2> QED
    BY <2>1 DEF Shape, B!WorkOf, B!PayloadSize, B!Tag
<1>6. ASSUME B!Records(secret, rs, opening) PROVE B!NativeAead(rs, opening)
  <2>1. /\ Len(rs) <= MaxBatch
        /\ \A i \in 1 .. Len(rs) : /\ rs[i].aad.size <= MaxAad
                                   /\ B!PayloadSize(rs[i], opening) \in 0 .. MaxPayload
                                   /\ opening \/ \A j \in 1 .. i - 1 : rs[j].nonce # rs[i].nonce
        /\ Total(w, 1 .. Len(rs)) <= MaxWork
    BY <1>3, <1>6 DEF B!Records, B!BatchOk
  <2>2. \A i \in 1 .. Len(rs) : /\ opening => rs[i].data.size >= B!Tag
                                /\ B!PayloadSize(rs[i], opening) <= MaxPayload
    BY <1>4, <2>1
  <2>3. ASSUME NEW i \in 1 .. Len(rs)
        PROVE  LET packed == SubSeq(rs, 1, i)
               IN B!Sum(B!Each(packed, B!InputSize)) + B!Sum(B!Each(packed, LAMBDA x : B!OutputSize(x, opening)))
                    + B!Sum(B!Each(packed, LAMBDA x : x.aad.size)) <= MaxWork
    <3>1. 1 .. i \subseteq 1 .. Len(rs) /\ IsFiniteSet(1 .. Len(rs)) /\ Summable(w, 1 .. Len(rs))
      <4>1. Summable(w, 1 .. Len(rs))
        BY <1>5, <2>2
      <4>2. IsFiniteSet(1 .. Len(rs))
        BY <1>1, FS_Interval
      <4> QED
        BY <1>1, <4>1, <4>2
    <3>2. IsFiniteSet(1 .. i) /\ Summable(w, 1 .. i)
      BY <3>1, FS_Subset DEF Summable
    <3>3. Total(w, 1 .. i) <= Total(w, 1 .. Len(rs))
      BY <3>1, TotalPart
    <3>4. Total(w, 1 .. i) \in Nat /\ Total(w, 1 .. Len(rs)) \in Nat
      BY <3>1, <3>2, TotalType
    <3>5. Total(w, 1 .. i) <= MaxWork
      BY <2>1, <3>3, <3>4, LibraryAssumption
    <3>6. \A k \in 1 .. i : opening => rs[k].data.size >= B!Tag
      BY <3>1, <2>2
    <3> QED
      BY <1>2, <3>5, <3>6, PackedIsWork
  <2> QED
    BY <2>1, <2>2, <2>3 DEF B!NativeAead
<1>7. ASSUME B!NativeAead(rs, opening) PROVE B!Records(secret, rs, opening)
  <2>1. /\ Len(rs) <= MaxBatch
        /\ \A i \in 1 .. Len(rs) : /\ opening => rs[i].data.size >= B!Tag
                                   /\ B!PayloadSize(rs[i], opening) <= MaxPayload
                                   /\ rs[i].aad.size <= MaxAad
                                   /\ opening \/ \A j \in 1 .. i - 1 : rs[j].nonce # rs[i].nonce
    BY <1>7 DEF B!NativeAead
  <2>2. Total(w, 1 .. Len(rs)) <= MaxWork
    <3>1. CASE Len(rs) = 0
      <4>1. 1 .. Len(rs) = {}
        BY <3>1
      <4> QED
        BY <4>1, TotalEmpty, LibraryAssumption
    <3>2. CASE Len(rs) # 0
      <4>1. PICK i \in 1 .. Len(rs) : i = Len(rs)
        BY <1>1, <3>2
      <4>2. \A k \in 1 .. i : opening => rs[k].data.size >= B!Tag
        BY <2>1, <4>1
      <4>3. LET packed == SubSeq(rs, 1, i)
            IN B!Sum(B!Each(packed, B!InputSize)) + B!Sum(B!Each(packed, LAMBDA x : B!OutputSize(x, opening)))
                 + B!Sum(B!Each(packed, LAMBDA x : x.aad.size)) <= MaxWork
        BY <1>7 DEF B!NativeAead
      <4> QED
        BY <1>2, <4>1, <4>2, <4>3, PackedIsWork
    <3> QED
      BY <3>1, <3>2
  <2> QED
    BY <1>3, <1>4, <2>1, <2>2 DEF B!Records, B!BatchOk
<1> QED
  BY <1>6, <1>7

\* The bindings and the engine accept the same batches of messages.
LEMMA MessagesNative ==
  ASSUME NEW S, NEW ms \in Seq(S), \A k \in 1 .. Len(ms) : ms[k].size \in Nat
  PROVE  B!Messages(ms) <=> B!NativeHash(ms)
<1>1. Len(ms) \in Nat
  BY LenProperties
<1>2. PICK w : w = [k \in 1 .. Len(ms) |-> ms[k].size]
  OBVIOUS
<1>3. B!Sum(B!Each(ms, LAMBDA x : x.size)) = Total(w, 1 .. Len(ms))
  <2>1. B!Each(ms, LAMBDA x : x.size) = w /\ w = [k \in 1 .. Len(ms) |-> w[k]]
    BY <1>2 DEF B!Each
  <2> QED
    BY <2>1, SumIsTotal
<1>4. ASSUME NEW i \in 1 .. Len(ms)
      PROVE  B!Sum(B!Each(SubSeq(ms, 1, i), LAMBDA x : x.size)) = Total(w, 1 .. i)
  <2>1. PICK packed : packed = SubSeq(ms, 1, i)
    OBVIOUS
  <2>2. Len(packed) = i /\ \A k \in 1 .. i : packed[k] = ms[k]
    <3>1. \A k \in 1 .. i : ms[k] \in S
      BY <1>1, ElementOfSeq
    <3> QED
      BY <1>1, <2>1, <3>1, SubSeqProperties
  <2>3. PICK a : a = [k \in 1 .. i |-> ms[k].size]
    OBVIOUS
  <2>4. B!Each(packed, LAMBDA x : x.size) = a
    BY <2>2, <2>3 DEF B!Each
  <2>5. \A k \in 1 .. i : a[k] = w[k]
    BY <1>1, <1>2, <2>3
  <2>6. Total(a, 1 .. i) = Total(w, 1 .. i)
    BY <2>5, TotalSame
  <2>7. B!Sum(a) = Total(a, 1 .. i)
    BY <2>3, SumIsTotal
  <2> QED
    BY <2>1, <2>4, <2>6, <2>7
<1>5. Summable(w, 1 .. Len(ms)) /\ IsFiniteSet(1 .. Len(ms))
  <2>1. IsFiniteSet(1 .. Len(ms))
    BY <1>1, FS_Interval
  <2> QED
    BY <2>1, <1>2 DEF Summable
<1>6. ASSUME NEW i \in 1 .. Len(ms)
      PROVE  Total(w, 1 .. i) \in Nat /\ Total(w, 1 .. Len(ms)) \in Nat /\ Total(w, 1 .. i) <= Total(w, 1 .. Len(ms))
  <2>1. 1 .. i \subseteq 1 .. Len(ms)
    BY <1>1
  <2>2. IsFiniteSet(1 .. i) /\ Summable(w, 1 .. i)
    BY <1>5, <2>1, FS_Subset DEF Summable
  <2> QED
    BY <1>5, <2>1, <2>2, TotalPart, TotalType
<1>7. ASSUME B!Messages(ms), NEW i \in 1 .. Len(ms)
      PROVE  B!Sum(B!Each(SubSeq(ms, 1, i), LAMBDA x : x.size)) + 32 * Len(ms) <= MaxWork
  <2>1. Total(w, 1 .. Len(ms)) + 32 * Len(ms) <= MaxWork
    BY <1>3, <1>7 DEF B!Messages
  <2> QED
    BY <1>1, <1>4, <1>6, <2>1, LibraryAssumption
<1>8. ASSUME B!NativeHash(ms)
      PROVE  Total(w, 1 .. Len(ms)) + 32 * Len(ms) <= MaxWork
  <2>1. CASE Len(ms) = 0
    <3>1. 1 .. Len(ms) = {}
      BY <2>1
    <3>2. Total(w, 1 .. Len(ms)) = 0
      BY <3>1, TotalEmpty
    <3> QED
      BY <2>1, <3>2, LibraryAssumption
  <2>2. CASE Len(ms) # 0
    <3>1. PICK i \in 1 .. Len(ms) : i = Len(ms)
      BY <1>1, <2>2
    <3>2. B!Sum(B!Each(SubSeq(ms, 1, i), LAMBDA x : x.size)) + 32 * Len(ms) <= MaxWork
      BY <1>8 DEF B!NativeHash
    <3> QED
      BY <1>4, <3>1, <3>2
  <2> QED
    BY <2>1, <2>2
<1> QED
  BY <1>3, <1>7, <1>8 DEF B!Messages, B!NativeHash, B!BatchOk

\* Both take the smaller of s and its complement.
LEMMA LowS ==
  ASSUME NEW s \in 1 .. Order - 1
  PROVE  B!RawSignature(s) = B!EngineLowS(s) /\ B!RawSignature(s) \in Nat /\ 2 * B!RawSignature(s) <= Order
<1>1. Order \in Nat
  BY LibraryAssumption
<1> QED
  BY <1>1 DEF B!RawSignature, B!EngineLowS

\* A key and digests that the bindings accept are signed alike.
LEMMA SignedAlike ==
  ASSUME NEW secret, secret.of \in Nat, NEW ds, Len(ds) \in Nat, Len(ds) = 0 => ds = <<>>,
         \A i \in 1 .. Len(ds) : ds[i].of \in Nat
  PROVE  /\ B!Digests(secret, ds) => B!NativeSign(secret, ds)
         /\ B!CudaSign(secret, ds) = B!CpuSign(secret, ds)
         /\ \A i \in 1 .. Len(B!CudaSign(secret, ds).out) : 2 * B!CudaSign(secret, ds).out[i] <= Order
<1>1. Order \in Nat /\ Order > 1
  BY LibraryAssumption
<1>2. B!Digests(secret, ds) => B!NativeSign(secret, ds)
  BY <1>1, LibraryAssumption DEF B!Digests, B!NativeSign, B!BatchOk
<1>3. ASSUME NEW i \in 1 .. Len(ds) PROVE B!EcdsaS(secret, ds[i]) \in 1 .. Order - 1
  <2>1. PICK m \in Nat : m = secret.of + ds[i].of
    OBVIOUS
  <2>2. PICK n \in Nat \ {0} : n = Order - 1
    BY <1>1
  <2>3. m % n \in 0 .. n - 1
    OBVIOUS
  <2> QED
    BY <2>1, <2>2, <2>3 DEF B!EcdsaS
<1>4. PICK raw : raw = [i \in 1 .. Len(ds) |-> B!RawSignature(B!EcdsaS(secret, ds[i]))]
  OBVIOUS
<1>5. B!Each(ds, LAMBDA d : B!RawSignature(B!EcdsaS(secret, d))) = raw
  BY <1>4 DEF B!Each
<1>6. B!Each(ds, LAMBDA d : B!EngineLowS(B!EcdsaS(secret, d))) = raw
  BY <1>3, <1>4, LowS DEF B!Each
<1>7. ds = <<>> => raw = <<>>
  BY <1>4
<1>8. Len(raw) = Len(ds)
  BY <1>4
<1>9. CASE B!Digests(secret, ds)
  <2>1. B!CpuSign(secret, ds) = B!Listed(raw)
    BY <1>5, <1>9 DEF B!CpuSign
  <2>2. B!CudaSign(secret, ds) = B!Listed(raw)
    BY <1>2, <1>6, <1>7, <1>9 DEF B!CudaSign
  <2>3. \A i \in 1 .. Len(raw) : 2 * raw[i] <= Order
    BY <1>3, <1>4, <1>8, LowS
  <2>4. B!CudaSign(secret, ds).out = raw
    BY <2>2 DEF B!Listed
  <2> QED
    BY <1>2, <2>1, <2>2, <2>3, <2>4
<1>10. CASE ~B!Digests(secret, ds)
  <2>1. B!CpuSign(secret, ds) = B!Refused /\ B!CudaSign(secret, ds) = B!Refused
    BY <1>10 DEF B!CpuSign, B!CudaSign
  <2>2. B!CudaSign(secret, ds).out = <<>>
    BY <2>1 DEF B!Refused
  <2>3. Len(B!CudaSign(secret, ds).out) = 0
    BY <2>2
  <2> QED
    BY <1>2, <2>1, <2>3
<1> QED
  BY <1>9, <1>10

\* What the CUDA backend lists when nothing is refused.
Fetched(secret, rs, opening) ==
  [i \in 1 .. Len(rs) |->
     B!Answered(B!DeviceItem(secret, rs[i], opening),
                rs[i].data.size + (IF opening THEN -16 ELSE 16), opening)]

\* A batch that both accept, with no item in error, is listed.
LEMMA CudaLists ==
  ASSUME NEW secret, NEW rs, NEW opening \in BOOLEAN, B!Records(secret, rs, opening),
         B!NativeAead(rs, opening),
         \A i \in 1 .. Len(rs) : B!DeviceItem(secret, rs[i], opening).status \in {0, 3}
  PROVE  B!CudaAead(secret, rs, opening) = B!Listed(Fetched(secret, rs, opening))
<1>1. B!Each(rs, LAMBDA r : B!Answered(B!DeviceItem(secret, r, opening),
                                       r.data.size + (IF opening THEN -16 ELSE 16), opening))
        = Fetched(secret, rs, opening)
  BY DEF B!Each, Fetched
<1>2. rs = <<>> => Fetched(secret, rs, opening) = <<>>
  BY DEF Fetched
<1>3. ~(\E i \in 1 .. Len(rs) : B!DeviceItem(secret, rs[i], opening).status \notin {0, 3})
  OBVIOUS
<1>4. CASE rs = <<>>
  BY <1>2, <1>4 DEF B!CudaAead
<1>5. CASE rs # <<>>
  <2> HIDE DEF Fetched
  <2> QED
    BY <1>1, <1>3, <1>5 DEF B!CudaAead
<1> QED
  BY <1>4, <1>5

\* Both backends seal alike.
LEMMA SealedAlike ==
  ASSUME NEW S, NEW rs \in Seq(S), \A k \in 1 .. Len(rs) : Shape(rs[k]), NEW secret
  PROVE  B!CudaAead(secret, rs, FALSE) = B!CpuSeal(secret, rs)
<1>1. CASE ~B!Records(secret, rs, FALSE)
  BY <1>1 DEF B!CudaAead, B!CpuSeal
<1>2. CASE B!Records(secret, rs, FALSE)
  <2>1. PICK out : out = [i \in 1 .. Len(rs) |-> B!Sealed(secret, rs[i])]
    OBVIOUS
  <2>2. B!CpuSeal(secret, rs) = B!Listed(out)
    BY <1>2, <2>1 DEF B!CpuSeal, B!Each
  <2>3. B!NativeAead(rs, FALSE)
    BY <1>2, RecordsNative DEF B!Records
  <2>5. ASSUME NEW i \in 1 .. Len(rs)
        PROVE  /\ B!DeviceItem(secret, rs[i], FALSE).status = 0
               /\ B!Answered(B!DeviceItem(secret, rs[i], FALSE), rs[i].data.size + 16, FALSE) = out[i]
    <3>1. PICK item : item = [status |-> 0, output |-> B!Sealed(secret, rs[i])]
      OBVIOUS
    <3>2. B!DeviceItem(secret, rs[i], FALSE) = item /\ item.status = 0 /\ item.output = B!Sealed(secret, rs[i])
      BY <3>1 DEF B!DeviceItem
    <3>3. B!Sealed(secret, rs[i]).size = rs[i].data.size + 16
      BY DEF B!Sealed, B!Bytes, B!Tag
    <3> QED
      BY <2>1, <3>2, <3>3 DEF B!Answered
  <2>6. Fetched(secret, rs, FALSE) = out
    BY <2>1, <2>5 DEF Fetched
  <2>7. B!CudaAead(secret, rs, FALSE) = B!Listed(Fetched(secret, rs, FALSE))
    BY <1>2, <2>3, <2>5, CudaLists
  <2> QED
    BY <2>2, <2>6, <2>7
<1> QED
  BY <1>1, <1>2

\* Both backends open alike.
LEMMA OpenedAlike ==
  ASSUME NEW S, NEW rs \in Seq(S), \A k \in 1 .. Len(rs) : Shape(rs[k]), NEW secret
  PROVE  B!CudaAead(secret, rs, TRUE) = B!CpuOpen(secret, rs)
<1>1. CASE ~B!Records(secret, rs, TRUE)
  BY <1>1 DEF B!CudaAead, B!CpuOpen
<1>2. CASE B!Records(secret, rs, TRUE)
  <2>1. PICK out : out = [i \in 1 .. Len(rs) |-> IF B!Genuine(secret, rs[i]) THEN rs[i].data.of[5] ELSE B!None]
    OBVIOUS
  <2>2. B!CpuOpen(secret, rs) = B!Listed(out)
    BY <1>2, <2>1 DEF B!CpuOpen, B!Each
  <2>3. B!NativeAead(rs, TRUE)
    BY <1>2, RecordsNative DEF B!Records
  <2>5. ASSUME NEW i \in 1 .. Len(rs)
        PROVE  /\ B!DeviceItem(secret, rs[i], TRUE).status \in {0, 3}
               /\ B!Answered(B!DeviceItem(secret, rs[i], TRUE), rs[i].data.size + -16, TRUE) = out[i]
    <3>1. CASE B!Genuine(secret, rs[i])
      <4>1. PICK item : item = [status |-> 0, output |-> rs[i].data.of[5]]
        OBVIOUS
      <4>2. B!DeviceItem(secret, rs[i], TRUE) = item /\ item.status = 0 /\ item.output = rs[i].data.of[5]
        BY <3>1, <4>1 DEF B!DeviceItem
      <4>3. PICK plain : plain = [rs[i] EXCEPT !.data = rs[i].data.of[5]]
        OBVIOUS
      <4>4. plain.data = rs[i].data.of[5] /\ rs[i].data = B!Sealed(secret, plain) /\ Len(rs[i].data.of) = 5
        BY <3>1, <4>3 DEF B!Genuine, Shape
      <4>5. rs[i].data.size = plain.data.size + 16 /\ plain.data.size \in Nat
        <5>1. B!Sealed(secret, plain).size = plain.data.size + 16
          BY DEF B!Sealed, B!Bytes, B!Tag
        <5>2. plain.data.size \in Nat
          BY <4>4 DEF Shape
        <5> QED
          BY <4>4, <5>1, <5>2
      <4>6. item.output.size = rs[i].data.size + -16
        BY <4>2, <4>4, <4>5
      <4>7. B!Answered(item, rs[i].data.size + -16, TRUE) = item.output
        BY <4>2, <4>6 DEF B!Answered
      <4> QED
        BY <2>1, <3>1, <4>2, <4>7
    <3>2. CASE ~B!Genuine(secret, rs[i])
      <4>1. PICK item : item = [status |-> 3, output |-> B!Bytes(B!PayloadSize(rs[i], TRUE), <<"zeros">>)]
        OBVIOUS
      <4>2. B!DeviceItem(secret, rs[i], TRUE) = item /\ item.status = 3
        BY <3>2, <4>1 DEF B!DeviceItem
      <4> QED
        BY <2>1, <3>2, <4>2 DEF B!Answered
    <3> QED
      BY <3>1, <3>2
  <2>6. Fetched(secret, rs, TRUE) = out
    BY <2>1, <2>5 DEF Fetched
  <2>7. B!CudaAead(secret, rs, TRUE) = B!Listed(Fetched(secret, rs, TRUE))
    BY <1>2, <2>3, <2>5, CudaLists
  <2> QED
    BY <2>2, <2>6, <2>7
<1> QED
  BY <1>1, <1>2

\* A record that was sealed measures and opens as it did before.
LEMMA SealedRecord ==
  ASSUME NEW r, Shape(r), NEW secret, NEW a, a = [r EXCEPT !.data = B!Sealed(secret, r)]
  PROVE  /\ a.nonce = r.nonce /\ a.aad = r.aad
         /\ B!PayloadSize(a, TRUE) = B!PayloadSize(r, FALSE)
         /\ B!WorkOf(a, TRUE) = B!WorkOf(r, FALSE)
         /\ B!Genuine(secret, a) /\ a.data.of[5] = r.data
<1>1. PICK e : e = B!Sealed(secret, r)
  OBVIOUS
<1>2. e = [size |-> r.data.size + 16, of |-> <<"sealed", secret, r.nonce, r.aad, r.data>>]
  BY <1>1 DEF B!Sealed, B!Bytes, B!Tag
<1>3. e.size = r.data.size + 16 /\ e.of = <<"sealed", secret, r.nonce, r.aad, r.data>>
  BY <1>2
<1>4. Len(e.of) = 5 /\ e.of[5] = r.data
  BY <1>3
<1>5. a = [nonce |-> r.nonce, data |-> e, aad |-> r.aad]
  <2>1. r = [nonce |-> r.nonce, data |-> r.data, aad |-> r.aad]
    BY DEF Shape
  <2> QED
    BY <1>1, <2>1
<1>6. a.nonce = r.nonce /\ a.aad = r.aad /\ a.data = e
  BY <1>5
<1>7. [a EXCEPT !.data = r.data] = r
  BY <1>5 DEF Shape
<1>8. B!Genuine(secret, a) /\ a.data.of[5] = r.data
  BY <1>1, <1>4, <1>6, <1>7 DEF B!Genuine
<1>9. r.data.size \in Nat
  BY DEF Shape
<1>10. B!PayloadSize(a, TRUE) = r.data.size /\ B!PayloadSize(r, FALSE) = r.data.size
  BY <1>3, <1>6, <1>9 DEF B!PayloadSize, B!Tag
<1> QED
  BY <1>6, <1>8, <1>10 DEF B!WorkOf

\* What a batch sealed opens again.
LEMMA SealedOpens ==
  ASSUME NEW S, NEW rs \in Seq(S), \A k \in 1 .. Len(rs) : Shape(rs[k]), NEW secret,
         NEW sealed_, sealed_ = B!CpuSeal(secret, rs), sealed_.ok
  PROVE  B!CpuOpen(secret, [i \in 1 .. Len(rs) |-> [rs[i] EXCEPT !.data = sealed_.out[i]]])
           = B!Listed([i \in 1 .. Len(rs) |-> rs[i].data])
<1>1. B!Records(secret, rs, FALSE)
  <2>1. B!Refused.ok = FALSE
    BY DEF B!Refused
  <2> QED
    BY <2>1 DEF B!CpuSeal
<1>2. PICK out : out = [i \in 1 .. Len(rs) |-> B!Sealed(secret, rs[i])]
  OBVIOUS
<1>3. sealed_.out = out
  <2>1. B!CpuSeal(secret, rs) = B!Listed(out)
    BY <1>1, <1>2 DEF B!CpuSeal, B!Each
  <2> QED
    BY <2>1 DEF B!Listed
<1>4. PICK again : again = [i \in 1 .. Len(rs) |-> [rs[i] EXCEPT !.data = B!Sealed(secret, rs[i])]]
  OBVIOUS
<1>5. [i \in 1 .. Len(rs) |-> [rs[i] EXCEPT !.data = sealed_.out[i]]] = again
  BY <1>2, <1>3, <1>4
<1>6. Len(rs) \in Nat /\ Len(again) = Len(rs)
  <2>1. Len(rs) \in Nat
    BY LenProperties
  <2> QED
    BY <2>1, <1>4
<1>7. ASSUME NEW i \in 1 .. Len(rs)
      PROVE  /\ again[i].nonce = rs[i].nonce /\ again[i].aad = rs[i].aad
             /\ B!PayloadSize(again[i], TRUE) = B!PayloadSize(rs[i], FALSE)
             /\ B!WorkOf(again[i], TRUE) = B!WorkOf(rs[i], FALSE)
             /\ B!Genuine(secret, again[i]) /\ again[i].data.of[5] = rs[i].data
  <2>1. PICK r, a : r = rs[i] /\ a = again[i]
    OBVIOUS
  <2>2. a = [r EXCEPT !.data = B!Sealed(secret, r)] /\ Shape(r)
    BY <1>4, <2>1
  <2>3. /\ a.nonce = r.nonce /\ a.aad = r.aad
        /\ B!PayloadSize(a, TRUE) = B!PayloadSize(r, FALSE)
        /\ B!WorkOf(a, TRUE) = B!WorkOf(r, FALSE)
        /\ B!Genuine(secret, a) /\ a.data.of[5] = r.data
    BY ONLY <2>2, SealedRecord
  <2> QED
    BY <2>1, <2>3
<1>8. B!Each(again, LAMBDA r : B!WorkOf(r, TRUE)) = B!Each(rs, LAMBDA r : B!WorkOf(r, FALSE))
  BY <1>6, <1>7 DEF B!Each
<1>9. B!Records(secret, again, TRUE)
  <2>1. /\ secret.size = 32 /\ Len(rs) <= MaxBatch
        /\ \A i \in 1 .. Len(rs) : /\ rs[i].nonce.size = 12 /\ rs[i].aad.size <= MaxAad
                                   /\ B!PayloadSize(rs[i], FALSE) \in 0 .. MaxPayload
        /\ B!Sum(B!Each(rs, LAMBDA r : B!WorkOf(r, FALSE))) <= MaxWork
    BY <1>1 DEF B!Records, B!BatchOk
  <2> QED
    BY <2>1, <1>6, <1>7, <1>8 DEF B!Records, B!BatchOk
<1>10. B!Each(again, LAMBDA r : IF B!Genuine(secret, r) THEN r.data.of[5] ELSE B!None)
         = [i \in 1 .. Len(rs) |-> rs[i].data]
  BY <1>6, <1>7 DEF B!Each
<1> QED
  BY <1>5, <1>9, <1>10 DEF B!CpuOpen

\* No batch is there yet.
LEMMA BatchInit == MCInit => BatchInv
<1> SUFFICES ASSUME MCInit PROVE BatchInv
  OBVIOUS
<1>1. records = <<>>
  BY DEF MCInit, B!Init
<1>2. key.of \in Nat
  <2>1. CASE key = B!Bytes(32, 1)
    BY <2>1 DEF B!Bytes
  <2>2. CASE key \in B!BatchKeys
    BY <2>2, LibraryAssumption DEF B!BatchKeys, B!Bytes
  <2> QED
    BY <2>1, <2>2 DEF MCInit, B!Init
<1> QED
  BY <1>1, <1>2 DEF BatchInv

\* A record is appended at a time, and the key stays.
LEMMA BatchStep == BatchInv /\ (B!Next \/ UNCHANGED batchVars) => BatchInv'
<1> SUFFICES ASSUME BatchInv, B!Next \/ UNCHANGED batchVars PROVE BatchInv'
  OBVIOUS
<1>1. CASE B!Next
  <2>1. PICK r \in B!Inputs \cup {B!Simple} : records' = Append(records, r)
    BY <1>1 DEF B!Next
  <2>2. key' = key
    BY <1>1 DEF B!Next
  <2>3. records' \in Seq(B!Inputs \cup {B!Simple})
    <3>1. PICK X : X = B!Inputs \cup {B!Simple}
      OBVIOUS
    <3> QED
      BY <2>1, <3>1, AppendProperties DEF BatchInv
  <2> QED
    BY <2>2, <2>3 DEF BatchInv, B!Inputs, B!Record, B!Plain, B!Simple
<1>2. CASE UNCHANGED batchVars
  BY <1>2 DEF BatchInv, batchVars, B!Inputs, B!Record, B!Plain, B!Simple
<1> QED
  BY <1>1, <1>2

\* Batches of such records are answered alike.
LEMMA BatchImplies ==
  BatchInv => B!SameVerdict /\ B!BackendsAgree /\ B!SignaturesAgree /\ B!SealedCanBeOpened
<1> SUFFICES ASSUME BatchInv
             PROVE  B!SameVerdict /\ B!BackendsAgree /\ B!SignaturesAgree /\ B!SealedCanBeOpened
  OBVIOUS
<1>1. PICK S : S = B!Inputs \cup {B!Simple}
  OBVIOUS
<1>2. records \in Seq(S) /\ Len(records) \in Nat /\ (Len(records) = 0 <=> records = <<>>)
  BY <1>1, LenProperties, EmptySeq DEF BatchInv
<1>3. \A k \in 1 .. Len(records) : Shape(records[k])
  BY <1>1, <1>2, Shapes, ElementOfSeq
<1>4. PICK ms : ms = [i \in 1 .. Len(records) |-> records[i].data]
  OBVIOUS
<1>5. PICK ds : ds = [i \in 1 .. Len(records) |-> B!Bytes(32, records[i].data.size)]
  OBVIOUS
<1>6. B!Datas = ms /\ B!AsDigests = ds
  BY <1>4, <1>5 DEF B!Datas, B!AsDigests, B!Each
<1>7. Len(ms) = Len(records) /\ Len(ds) = Len(records) /\ (Len(ds) = 0 => ds = <<>>)
  BY <1>2, <1>4, <1>5
<1>8. \A i \in 1 .. Len(records) : ms[i].size \in Nat /\ ds[i].of \in Nat /\ ds[i].size = 32
  BY <1>3, <1>4, <1>5 DEF Shape, B!Bytes
<1>9. ms \in Seq({ms[i] : i \in 1 .. Len(records)})
  <2>1. PICK T : T = {ms[i] : i \in 1 .. Len(records)}
    OBVIOUS
  <2>2. ms \in [1 .. Len(records) -> T]
    BY <1>4, <2>1
  <2> QED
    BY <1>2, <2>1, <2>2, SeqDef
<1>10. key.of \in Nat
  BY DEF BatchInv
<1>11. B!Digests(key, ds) => B!NativeSign(key, ds)
  BY <1>7, <1>8, <1>10, SignedAlike
<1>12. key.size = 32 /\ records # <<>> /\ B!NativeSign(key, ds) => B!Digests(key, ds)
  <2> SUFFICES ASSUME key.size = 32, ds # <<>>, B!NativeSign(key, ds) PROVE B!Digests(key, ds)
    BY <1>2, <1>7
  <2>1. Len(ds) <= MaxBatch /\ key.of # 0 /\ key.of < Order
    BY DEF B!NativeSign
  <2>2. key.of \in 1 .. Order - 1
    BY <1>10, <2>1, LibraryAssumption
  <2> QED
    BY <1>7, <1>8, <2>1, <2>2 DEF B!Digests, B!BatchOk
<1>13. B!SameVerdict
  <2>1. key.size = 32 /\ (\A i \in 1 .. Len(records) : records[i].nonce.size = 12) =>
          \A opening \in BOOLEAN : B!Records(key, records, opening) <=> B!NativeAead(records, opening)
    BY <1>2, <1>3, RecordsNative
  <2>2. B!Messages(ms) <=> B!NativeHash(ms)
    BY <1>7, <1>8, <1>9, MessagesNative
  <2> QED
    BY <1>6, <1>11, <1>12, <2>1, <2>2 DEF B!SameVerdict, B!GoodKey, B!GoodNonces
<1>14. B!BackendsAgree
  BY <1>2, <1>3, SealedAlike, OpenedAlike DEF B!BackendsAgree
<1>15. B!SignaturesAgree
  BY <1>6, <1>7, <1>8, <1>10, SignedAlike DEF B!SignaturesAgree
<1>16. B!SealedCanBeOpened
  BY <1>2, <1>3, <1>4, <1>6, SealedOpens DEF B!SealedCanBeOpened
<1> QED
  BY <1>13, <1>14, <1>15, <1>16

\* For all limits, keys and records: the bindings and the engine accept the same batches,
\* both backends give the same answer to each, signatures are low-s, and what was sealed
\* can be opened.
THEOREM BatchesAlike == MCSpec => []BackendsAlike
<1>1. MCInit => BatchInv
  BY BatchInit
<1>2. BatchInv /\ [MCNext]_<<part, vars, treeVars, batchVars, workspaceVars, grantVars>> => BatchInv'
  <2> SUFFICES ASSUME BatchInv, [MCNext]_<<part, vars, treeVars, batchVars, workspaceVars, grantVars>>
               PROVE  BatchInv'
    OBVIOUS
  <2>1. B!Next \/ UNCHANGED batchVars
    BY DEF MCNext
  <2> QED
    BY <2>1, BatchStep
<1>3. BatchInv => BackendsAlike
  BY BatchImplies DEF BackendsAlike
<1> QED
  BY <1>1, <1>2, <1>3, PTL DEF MCSpec
===============================================================================
