-------------------------- MODULE SshSessionProofs --------------------------
(* Theorems about SshSession, for any channels, rules, commands, scripts and *)
(* chunks of input: the session and its remote client implement the ordered  *)
(* pipe, a command reaches the target only with a record that justifies it,  *)
(* and no line with a blocked command does, however it is cut into chunks.   *)
EXTENDS SshSession, WellFoundedInduction, SequenceTheorems, TLAPS

----------------------------------------------------------------------------
(* Induction, for a set instead of a predicate, and what Kept computes.     *)

\* A set of numbers that is not empty has a smallest one.
LEMMA LeastNat ==
    ASSUME NEW T, T \subseteq Nat, T # {}
    PROVE  \E x \in T : \A y \in T : x <= y
<1> DEFINE R == OpToRel(<, Nat)
<1>1. IsWellFoundedOn(R, Nat)
  BY NatLessThanWellFounded
<1>2. R = {ss \in Nat \X Nat : ss[1] < ss[2]}
  BY DEF OpToRel
<1> HIDE DEF R
<1>3. PICK x \in T : \A y \in T : ~(<<y, x>> \in R)
  BY <1>1, WFMin
<1>4. \A y \in T : x <= y
  <2> SUFFICES ASSUME NEW y \in T, ~(x <= y) PROVE FALSE
    OBVIOUS
  <2>1. y \in Nat /\ x \in Nat /\ y < x
    OBVIOUS
  <2> DEFINE ss == <<y, x>>
  <2>2. ss \in Nat \X Nat /\ ss[1] = y /\ ss[2] = x
    BY <2>1
  <2>3. ss \in R
    BY <1>2, <2>1, <2>2
  <2> QED BY <1>3, <2>3
<1> QED BY <1>4

\* A set that has 0 and the successor of each of its numbers has all numbers.
LEMMA Induction ==
    ASSUME NEW S, 0 \in S, \A n \in Nat : n \in S => n + 1 \in S
    PROVE  Nat \subseteq S
<1> DEFINE T == Nat \ S
<1>1. SUFFICES ASSUME T # {} PROVE FALSE
  OBVIOUS
<1>2. PICK x \in T : \A y \in T : x <= y
  BY <1>1, LeastNat
<1>3. x # 0 /\ x - 1 \in Nat /\ x - 1 \notin T
  BY <1>2
<1> QED BY <1>2, <1>3

\* f gives what is kept of q up to each place.
Keeps(f, q, n, places) ==
    /\ f = [i \in 0..n |-> f[i]]
    /\ f[0] = <<>>
    /\ \A i \in 1..n : f[i] = IF i \in places THEN Append(f[i - 1], q[i]) ELSE f[i - 1]

\* The recursive function of Kept exists.
LEMMA KeepsExists ==
    ASSUME NEW q, NEW places
    PROVE  \A n \in Nat : \E f : Keeps(f, q, n, places)
<1> DEFINE S == {n \in Nat : \E f : Keeps(f, q, n, places)}
<1>1. 0 \in S
  <2> DEFINE f == [i \in 0..0 |-> <<>>]
  <2>1. Keeps(f, q, 0, places)
    BY DEF Keeps
  <2> QED BY <2>1
<1>2. ASSUME NEW n \in Nat, n \in S PROVE n + 1 \in S
  <2>1. PICK f : Keeps(f, q, n, places)
    BY <1>2
  <2> DEFINE last == IF n + 1 \in places THEN Append(f[n], q[n + 1]) ELSE f[n]
             g == [i \in 0..(n + 1) |-> IF i = n + 1 THEN last ELSE f[i]]
  <2>2. /\ g = [i \in 0..(n + 1) |-> g[i]] /\ g[0] = f[0] /\ g[n + 1] = last
        /\ \A i \in 0..n : g[i] = f[i]
    OBVIOUS
  <2> HIDE DEF g
  <2>3. \A i \in 1..(n + 1) : g[i] = IF i \in places THEN Append(g[i - 1], q[i]) ELSE g[i - 1]
    <3> SUFFICES ASSUME NEW i \in 1..(n + 1)
                 PROVE  g[i] = IF i \in places THEN Append(g[i - 1], q[i]) ELSE g[i - 1]
      OBVIOUS
    <3>1. CASE i = n + 1
      <4>0. n \in 0..n /\ i - 1 = n
        BY <3>1
      <4>1. g[i - 1] = f[n] /\ i - 1 = n
        BY <2>2, <4>0, Zenon
      <4>2. g[n + 1] = IF n + 1 \in places THEN Append(f[n], q[n + 1]) ELSE f[n]
        BY <2>2, Zenon
      <4>3. (i \in places <=> n + 1 \in places) /\ g[i] = g[n + 1] /\ q[i] = q[n + 1]
        BY <3>1
      <4> HIDE DEF last
      <4> QED BY <4>1, <4>2, <4>3
    <3>2. CASE i # n + 1
      <4>1. i \in 1..n /\ i \in 0..n /\ i - 1 \in 0..n
        BY <3>2
      <4>2. g[i - 1] = f[i - 1] /\ g[i] = f[i]
        BY <2>2, <4>1
      <4> QED BY <2>1, <4>1, <4>2 DEF Keeps
    <3> QED BY <3>1, <3>2
  <2>4. Keeps(g, q, n + 1, places)
    BY <2>1, <2>2, <2>3 DEF Keeps
  <2> QED BY <2>4
<1>3. Nat \subseteq S
  BY <1>1, <1>2, Induction
<1> QED BY <1>3

\* Kept is the last value of such a function.
LEMMA KeptKeeps ==
    ASSUME NEW q, Len(q) \in Nat, NEW places
    PROVE  \E f : Keeps(f, q, Len(q), places) /\ Kept(q, places) = f[Len(q)]
<1> DEFINE kept == CHOOSE f : f = [i \in 0..Len(q) |->
                       IF i = 0 THEN <<>>
                       ELSE IF i \in places THEN Append(f[i - 1], q[i]) ELSE f[i - 1]]
<1>1. PICK f : Keeps(f, q, Len(q), places)
  BY KeepsExists
<1> DEFINE body(g) == [i \in 0..Len(q) |->
                       IF i = 0 THEN <<>>
                       ELSE IF i \in places THEN Append(g[i - 1], q[i]) ELSE g[i - 1]]
<1>2. f = body(f)
  <2>1. f = [i \in 0..Len(q) |-> f[i]] /\ f[0] = <<>>
    BY <1>1 DEF Keeps
  <2>2. ASSUME NEW i \in 0..Len(q) PROVE f[i] = body(f)[i]
    <3>1. CASE i = 0
      BY <2>1, <3>1
    <3>2. CASE i # 0
      <4>1. i \in 1..Len(q)
        BY <3>2
      <4>2. f[i] = IF i \in places THEN Append(f[i - 1], q[i]) ELSE f[i - 1]
        BY <1>1, <4>1, Zenon DEF Keeps
      <4> QED BY <3>2, <4>2, Zenon
    <3> QED BY <3>1, <3>2
  <2>3. [i \in 0..Len(q) |-> f[i]] = [i \in 0..Len(q) |-> body(f)[i]]
    BY <2>2, Zenon
  <2> QED BY <2>1, <2>3
<1>3. kept = body(kept)
  BY <1>2, Zenon
<1>4. Kept(q, places) = kept[Len(q)]
  BY Zenon DEF Kept
<1> HIDE DEF kept
<1>5. Keeps(kept, q, Len(q), places)
  <2>1. kept[0] = <<>>
    BY <1>3
  <2>2. ASSUME NEW i \in 1..Len(q)
        PROVE  kept[i] = IF i \in places THEN Append(kept[i - 1], q[i]) ELSE kept[i - 1]
    <3>1. i \in 0..Len(q) /\ i # 0
      OBVIOUS
    <3>2. body(kept)[i] = IF i \in places THEN Append(kept[i - 1], q[i]) ELSE kept[i - 1]
      BY <3>1, Zenon
    <3> QED BY <1>3, <3>2, Zenon
  <2>3. kept = [i \in 0..Len(q) |-> kept[i]]
    <3> HIDE DEF body
    <3>1. body(kept) = [i \in 0..Len(q) |-> body(kept)[i]]
      BY Zenon DEF body
    <3> QED BY <1>3, <3>1, Zenon
  <2> QED BY <2>1, <2>2, <2>3 DEF Keeps
<1> QED BY <1>4, <1>5

\* Sequences that agree up to k keep the same up to k.
LEMMA KeepsAgree ==
    ASSUME NEW f, NEW g, NEW q, NEW r, NEW n \in Nat, NEW m \in Nat, NEW P, NEW Q,
           Keeps(f, q, n, P), Keeps(g, r, m, Q)
    PROVE  \A k \in Nat : (/\ k <= n /\ k <= m
                           /\ \A i \in 1..k : q[i] = r[i] /\ (i \in P <=> i \in Q))
                          => f[k] = g[k]
<1> DEFINE Agree(k) == \A i \in 1..k : q[i] = r[i] /\ (i \in P <=> i \in Q)
           S == {k \in Nat : k <= n /\ k <= m /\ Agree(k) => f[k] = g[k]}
<1>1. 0 \in S
  BY DEF Keeps
<1>2. ASSUME NEW k \in Nat, k \in S PROVE k + 1 \in S
  <2> SUFFICES ASSUME k + 1 <= n, k + 1 <= m, Agree(k + 1) PROVE f[k + 1] = g[k + 1]
    OBVIOUS
  <2>1. /\ k + 1 \in 1..n /\ k + 1 \in 1..m /\ (k + 1) - 1 = k
        /\ k <= n /\ k <= m /\ k + 1 \in 1..(k + 1)
    OBVIOUS
  <2>2. \A i \in 1..k : i \in 1..(k + 1)
    OBVIOUS
  <2>3. Agree(k)
    BY <2>2, Zenon
  <2>4. f[k] = g[k]
    BY <1>2, <2>1, <2>3
  <2>5. q[k + 1] = r[k + 1] /\ (k + 1 \in P <=> k + 1 \in Q)
    BY <2>1, Zenon
  <2>6. f[k + 1] = IF k + 1 \in P THEN Append(f[k], q[k + 1]) ELSE f[k]
    BY <2>1, Zenon DEF Keeps
  <2>7. g[k + 1] = IF k + 1 \in Q THEN Append(g[k], r[k + 1]) ELSE g[k]
    BY <2>1, Zenon DEF Keeps
  <2> QED BY <2>4, <2>5, <2>6, <2>7, Zenon
<1>3. Nat \subseteq S
  BY <1>1, <1>2, Induction
<1> QED BY <1>3

\* What is kept depends on the places of the sequence only.
LEMMA KeptAgrees ==
    ASSUME NEW q, Len(q) \in Nat, NEW P, NEW Q, \A i \in 1..Len(q) : i \in P <=> i \in Q
    PROVE  Kept(q, P) = Kept(q, Q)
<1>1. PICK f : Keeps(f, q, Len(q), P) /\ Kept(q, P) = f[Len(q)]
  BY KeptKeeps
<1>2. PICK g : Keeps(g, q, Len(q), Q) /\ Kept(q, Q) = g[Len(q)]
  BY KeptKeeps
<1> QED BY <1>1, <1>2, KeepsAgree

\* One more element at the end.
LEMMA KeptAppend ==
    ASSUME NEW S, NEW q \in Seq(S), NEW e \in S, NEW P
    PROVE  Kept(Append(q, e), P) = IF Len(q) + 1 \in P THEN Append(Kept(q, P), e)
                                                       ELSE Kept(q, P)
<1> DEFINE r == Append(q, e)
           n == Len(q)
<1>1. n \in Nat /\ Len(r) = n + 1 /\ r[n + 1] = e /\ \A i \in 1..n : r[i] = q[i]
  OBVIOUS
<1> HIDE DEF r, n
<1>2. PICK f : Keeps(f, q, n, P) /\ Kept(q, P) = f[n]
  BY <1>1, KeptKeeps DEF n
<1>3. PICK g : Keeps(g, r, n + 1, P) /\ Kept(r, P) = g[n + 1]
  BY <1>1, KeptKeeps
<1>4. f[n] = g[n]
  <2>1. n + 1 \in Nat /\ n <= n + 1 /\ n <= n
    BY <1>1
  <2>2. \A i \in 1..n : q[i] = r[i] /\ (i \in P <=> i \in P)
    BY <1>1
  <2>3. \A k \in Nat : (/\ k <= n /\ k <= n + 1
                        /\ \A i \in 1..k : q[i] = r[i] /\ (i \in P <=> i \in P))
                       => f[k] = g[k]
    BY <1>1, <1>2, <1>3, <2>1, KeepsAgree
  <2> QED BY <1>1, <2>1, <2>2, <2>3
<1>5. g[n + 1] = IF n + 1 \in P THEN Append(g[n], r[n + 1]) ELSE g[n]
  <2>1. n + 1 \in 1..(n + 1) /\ (n + 1) - 1 = n
    BY <1>1
  <2> QED BY <1>3, <2>1, Zenon DEF Keeps
<1> QED BY <1>1, <1>2, <1>3, <1>4, <1>5, Zenon DEF n, r

\* What is kept is a sequence of the same kind.
LEMMA KeptInSeq ==
    ASSUME NEW S, NEW q \in Seq(S), NEW P
    PROVE  Kept(q, P) \in Seq(S)
<1> DEFINE n == Len(q)
<1>1. n \in Nat /\ \A i \in 1..n : q[i] \in S
  OBVIOUS
<1> HIDE DEF n
<1>2. PICK f : Keeps(f, q, n, P) /\ Kept(q, P) = f[n]
  BY <1>1, KeptKeeps DEF n
<1> DEFINE T == {k \in Nat : k <= n => f[k] \in Seq(S)}
<1>3. 0 \in T
  <2>1. f[0] = <<>>
    BY <1>2 DEF Keeps
  <2>2. f[0] \in Seq(S)
    BY <2>1
  <2> QED BY <2>2
<1>4. ASSUME NEW k \in Nat, k \in T PROVE k + 1 \in T
  <2> SUFFICES ASSUME k + 1 <= n PROVE f[k + 1] \in Seq(S)
    OBVIOUS
  <2>1. k + 1 \in 1..n /\ (k + 1) - 1 = k /\ k <= n
    BY <1>1
  <2>2. f[k + 1] = IF k + 1 \in P THEN Append(f[k], q[k + 1]) ELSE f[k]
    BY <1>2, <2>1, Zenon DEF Keeps
  <2>3. f[k] \in Seq(S) /\ q[k + 1] \in S
    BY <1>1, <1>4, <2>1
  <2>4. Append(f[k], q[k + 1]) \in Seq(S)
    BY <2>3
  <2> QED BY <2>2, <2>3, <2>4, Zenon
<1>5. Nat \subseteq T
  BY <1>3, <1>4, Induction
<1> QED BY <1>1, <1>2, <1>5

\* Append goes through a concatenation.
LEMMA ConcatAppend ==
    ASSUME NEW S, NEW a \in Seq(S), NEW b \in Seq(S), NEW e \in S, NEW r, r = Append(b, e)
    PROVE  Append(a \o b, e) = a \o r
<1>1. a \o b \in Seq(S) /\ <<e>> \in Seq(S)
  BY ConcatProperties
<1>2. Append(a \o b, e) = (a \o b) \o <<e>> /\ r = b \o <<e>>
  BY <1>1, AppendIsConcat
<1>3. (a \o b) \o <<e>> = a \o (b \o <<e>>)
  BY <1>1, ConcatAssociative
<1> QED BY <1>2, <1>3, Zenon

\* Places of a concatenation.
LEMMA ConcatFacts ==
    ASSUME NEW S, NEW a \in Seq(S), NEW b \in Seq(S)
    PROVE  /\ DOMAIN (a \o b) = 1..(Len(a) + Len(b))
           /\ \A i \in 1..Len(a) : (a \o b)[i] = a[i]
OBVIOUS

\* The first element, and what is kept of the others.
LEMMA KeptTail ==
    ASSUME NEW S, NEW q \in Seq(S), q # <<>>, NEW P, NEW Q,
           \A i \in 1..Len(Tail(q)) : i \in Q <=> i + 1 \in P
    PROVE  Kept(q, P) = IF 1 \in P THEN <<Head(q)>> \o Kept(Tail(q), Q)
                                   ELSE Kept(Tail(q), Q)
<1> DEFINE r == Tail(q)
           m == Len(r)
           first == IF 1 \in P THEN <<Head(q)>> ELSE <<>>
<1>1. /\ m \in Nat /\ Len(q) = m + 1 /\ \A i \in 1..m : r[i] = q[i + 1] /\ r[i] \in S
      /\ q[1] = Head(q) /\ Head(q) \in S /\ r \in Seq(S)
  OBVIOUS
<1>2. \A i \in 1..m : i \in Q <=> i + 1 \in P
  OBVIOUS
<1>3. first \in Seq(S)
  BY <1>1
<1>4. first = IF 1 \in P THEN <<q[1]>> ELSE <<>>
  BY <1>1
<1> HIDE DEF m, r, first
<1>5. PICK f : Keeps(f, q, m + 1, P) /\ Kept(q, P) = f[m + 1]
  <2>1. Len(q) \in Nat
    OBVIOUS
  <2>2. \E f : Keeps(f, q, Len(q), P) /\ Kept(q, P) = f[Len(q)]
    BY <2>1, KeptKeeps
  <2> QED BY <1>1, <2>2, Zenon
<1>6. PICK g : Keeps(g, r, m, Q) /\ Kept(r, Q) = g[m]
  BY <1>1, KeptKeeps DEF m
<1> DEFINE T == {k \in Nat : k <= m => (g[k] \in Seq(S) /\ f[k + 1] = first \o g[k])}
<1>7. 0 \in T
  <2>1. g[0] = <<>> /\ f[0] = <<>>
    BY <1>5, <1>6 DEF Keeps
  <2>2. 1 \in 1..(m + 1) /\ 1 - 1 = 0 /\ 0 + 1 = 1
    BY <1>1
  <2>3. f[1] = IF 1 \in P THEN Append(f[0], q[1]) ELSE f[0]
    BY <1>5, <2>2, Zenon DEF Keeps
  <2>4. f[1] = first
    BY <1>1, <1>4, <2>1, <2>3
  <2>5. g[0] \in Seq(S) /\ f[0 + 1] = first \o g[0]
    BY <1>3, <2>1, <2>2, <2>4
  <2> QED BY <2>5
<1>8. ASSUME NEW k \in Nat, k \in T PROVE k + 1 \in T
  <2> SUFFICES ASSUME k + 1 <= m
               PROVE  g[k + 1] \in Seq(S) /\ f[(k + 1) + 1] = first \o g[k + 1]
    OBVIOUS
  <2>1. /\ k + 1 \in 1..m /\ (k + 1) - 1 = k /\ k <= m
        /\ (k + 1) + 1 \in 1..(m + 1) /\ ((k + 1) + 1) - 1 = k + 1
    BY <1>1
  <2>2. g[k + 1] = IF k + 1 \in Q THEN Append(g[k], r[k + 1]) ELSE g[k]
    BY <1>6, <2>1, Zenon DEF Keeps
  <2>3. f[(k + 1) + 1] = IF (k + 1) + 1 \in P THEN Append(f[k + 1], q[(k + 1) + 1]) ELSE f[k + 1]
    <3>1. \A i \in 1..(m + 1) : f[i] = IF i \in P THEN Append(f[i - 1], q[i]) ELSE f[i - 1]
      BY <1>5, Zenon DEF Keeps
    <3>2. PICK j \in 1..(m + 1) : j = (k + 1) + 1 /\ j - 1 = k + 1
      BY <2>1
    <3>3. f[j] = IF j \in P THEN Append(f[k + 1], q[j]) ELSE f[k + 1]
      BY <3>1, <3>2, Zenon
    <3> QED BY <3>2, <3>3, Zenon
  <2>4. g[k] \in Seq(S) /\ f[k + 1] = first \o g[k]
    BY <1>8, <2>1
  <2>5. r[k + 1] = q[(k + 1) + 1] /\ r[k + 1] \in S /\ (k + 1 \in Q <=> (k + 1) + 1 \in P)
    BY <1>1, <1>2, <2>1
  <2>6. /\ Append(first \o g[k], r[k + 1]) = first \o Append(g[k], r[k + 1])
        /\ Append(g[k], r[k + 1]) \in Seq(S)
    <3> DEFINE gk == g[k]
               rk == r[k + 1]
    <3>1. gk \in Seq(S) /\ rk \in S
      BY <2>4, <2>5
    <3> HIDE DEF gk, rk
    <3>2. Append(first \o gk, rk) = first \o Append(gk, rk)
      BY <1>3, <3>1, ConcatAppend, Zenon
    <3>3. Append(gk, rk) \in Seq(S)
      BY <3>1, AppendProperties
    <3> QED BY <3>2, <3>3 DEF gk, rk
  <2> QED BY <2>2, <2>3, <2>4, <2>5, <2>6, Zenon
<1>9. Nat \subseteq T
  BY <1>7, <1>8, Induction
<1>10. g[m] \in Seq(S) /\ f[m + 1] = first \o g[m]
  BY <1>1, <1>9
<1>11. first \o g[m] = IF 1 \in P THEN <<Head(q)>> \o g[m] ELSE g[m]
  BY <1>10, ConcatEmptySeq, Zenon DEF first
<1> QED BY <1>5, <1>6, <1>10, <1>11, Zenon DEF r

----------------------------------------------------------------------------
(* The operations of a queue of commands.                                   *)

What == Opens \cup {"Data", "Exec", "ChannelClose", "Pty", "Shell", "Sftp", "ExtendedData", "Eof",
                    "Resize", "Signal", "Env", "X11", "Agent"}
Plains == {"connect", "disconnect", "forward", "cancel-forward"}
Arguments == {"-"} \cup Commands \cup Chunk

Operations == [c : Chan \cup {"-"}, what : What \cup Plains, arg : Arguments]
CommandType == [kind : Plains \cup {"channel"}, op : Operations, wait : BOOLEAN]

\* A function on the places of a sequence is one.
LEMMA MappedIsSeq ==
    ASSUME NEW S, NEW q \in Seq(S), NEW R, NEW f, f = [i \in DOMAIN q |-> f[i]],
           \A i \in DOMAIN q : f[i] \in R
    PROVE  f \in Seq(R) /\ Len(f) = Len(q) /\ DOMAIN f = DOMAIN q /\ DOMAIN q = 1..Len(q)
<1>1. DOMAIN q = 1..Len(q) /\ Len(q) \in Nat
  OBVIOUS
<1>2. DOMAIN f = 1..Len(q)
  BY <1>1
<1>3. f \in [1..Len(q) -> R]
  BY <1>1
<1>4. f \in Seq(R)
  BY <1>1, <1>3, SeqDef
<1> QED BY <1>1, <1>2, <1>4

\* The operations of all commands of a queue.
LEMMA OpsOfQueue ==
    ASSUME NEW q \in Seq(CommandType), NEW ops, ops = [i \in DOMAIN q |-> q[i].op]
    PROVE  /\ ops \in Seq(Operations) /\ Len(ops) = Len(q) /\ Len(q) \in Nat
           /\ DOMAIN ops = 1..Len(q) /\ DOMAIN q = 1..Len(q)
           /\ \A i \in 1..Len(q) : ops[i] = q[i].op
<1>1. \A i \in DOMAIN q : q[i] \in CommandType
  OBVIOUS
<1>2. \A i \in DOMAIN q : q[i].op \in Operations
  BY <1>1 DEF CommandType
<1>3. ops = [i \in DOMAIN q |-> ops[i]] /\ \A i \in DOMAIN q : ops[i] \in Operations
  BY <1>2
<1>4. /\ ops \in Seq(Operations) /\ Len(ops) = Len(q) /\ DOMAIN ops = DOMAIN q
      /\ DOMAIN q = 1..Len(q)
  BY <1>3, MappedIsSeq
<1> QED BY <1>4

\* They are a sequence of operations.
LEMMA OpsInSeq ==
    ASSUME NEW q \in Seq(CommandType)
    PROVE  ChannelOps(q) \in Seq(Operations)
<1> DEFINE ops == [i \in DOMAIN q |-> q[i].op]
           P == {i \in DOMAIN q : q[i].kind = "channel"}
<1>1. ops \in Seq(Operations)
  BY OpsOfQueue
<1>2. ChannelOps(q) = Kept(ops, P)
  BY DEF ChannelOps
<1> HIDE DEF ops, P
<1> QED BY <1>1, <1>2, KeptInSeq

\* The empty queue has none.
LEMMA OpsEmpty == ChannelOps(<<>>) = <<>>
<1> DEFINE ops == [i \in DOMAIN <<>> |-> <<>>[i].op]
           places == {i \in DOMAIN <<>> : <<>>[i].kind = "channel"}
<1>1. ops = <<>> /\ Len(ops) = 0
  OBVIOUS
<1> HIDE DEF ops, places
<1>2. PICK f : Keeps(f, ops, Len(ops), places) /\ Kept(ops, places) = f[Len(ops)]
  BY <1>1, KeptKeeps
<1>3. Kept(ops, places) = <<>>
  BY <1>1, <1>2 DEF Keeps
<1> QED BY <1>3 DEF ChannelOps, ops, places

\* A command sent adds its operation, if it has one.
LEMMA OpsAppend ==
    ASSUME NEW q \in Seq(CommandType), NEW e \in CommandType
    PROVE  ChannelOps(Append(q, e)) = IF e.kind = "channel" THEN Append(ChannelOps(q), e.op)
                                                            ELSE ChannelOps(q)
<1> DEFINE r == Append(q, e)
           ops == [i \in DOMAIN q |-> q[i].op]
           opsr == [i \in DOMAIN r |-> r[i].op]
           P == {i \in DOMAIN q : q[i].kind = "channel"}
           Q == {i \in DOMAIN r : r[i].kind = "channel"}
<1>0. r \in Seq(CommandType) /\ Len(r) = Len(q) + 1
  OBVIOUS
<1>1. /\ ops \in Seq(Operations) /\ Len(ops) = Len(q) /\ Len(q) \in Nat
      /\ DOMAIN ops = 1..Len(q) /\ DOMAIN q = 1..Len(q)
      /\ \A i \in 1..Len(q) : ops[i] = q[i].op
  BY OpsOfQueue
<1>8. /\ opsr \in Seq(Operations) /\ Len(opsr) = Len(r) /\ DOMAIN opsr = 1..Len(r)
      /\ DOMAIN r = 1..Len(r) /\ \A i \in 1..Len(r) : opsr[i] = r[i].op
  BY <1>0, OpsOfQueue
<1>9. e.op \in Operations
  BY DEF CommandType
<1>2. opsr = Append(ops, e.op)
  <2> HIDE DEF ops, opsr
  <2>1. Append(ops, e.op) \in Seq(Operations) /\ Len(Append(ops, e.op)) = Len(q) + 1
    BY <1>1, <1>9
  <2>2. ASSUME NEW i \in 1..(Len(q) + 1) PROVE opsr[i] = Append(ops, e.op)[i]
    BY <1>0, <1>1, <1>8, <1>9
  <2> QED BY <1>0, <1>8, <2>1, <2>2, SeqEqual
<1>3. Len(q) + 1 \in Q <=> e.kind = "channel"
  OBVIOUS
<1>4. \A i \in 1..Len(ops) : i \in P <=> i \in Q
  OBVIOUS
<1>5. ChannelOps(q) = Kept(ops, P) /\ ChannelOps(r) = Kept(opsr, Q)
  BY DEF ChannelOps
<1> HIDE DEF r, ops, opsr, P, Q
<1>6. Kept(ops, P) = Kept(ops, Q)
  BY <1>1, <1>4, KeptAgrees
<1>7. Kept(opsr, Q) = IF Len(ops) + 1 \in Q THEN Append(Kept(ops, Q), e.op) ELSE Kept(ops, Q)
  <2>1. PICK x \in Operations : x = e.op
    BY <1>9
  <2>2. Kept(Append(ops, x), Q) = IF Len(ops) + 1 \in Q THEN Append(Kept(ops, Q), x) ELSE Kept(ops, Q)
    BY <1>1, KeptAppend
  <2> QED BY <1>2, <2>1, <2>2, Zenon
<1> QED BY <1>1, <1>3, <1>5, <1>6, <1>7, Zenon DEF r

\* The oldest command is the oldest operation, if it is one.
LEMMA OpsTail ==
    ASSUME NEW q \in Seq(CommandType), q # <<>>
    PROVE  ChannelOps(q) = IF Head(q).kind = "channel" THEN <<Head(q).op>> \o ChannelOps(Tail(q))
                                                       ELSE ChannelOps(Tail(q))
<1> DEFINE r == Tail(q)
           ops == [i \in DOMAIN q |-> q[i].op]
           opsr == [i \in DOMAIN r |-> r[i].op]
           P == {i \in DOMAIN q : q[i].kind = "channel"}
           Q == {i \in DOMAIN r : r[i].kind = "channel"}
<1>0. r \in Seq(CommandType) /\ Len(r) = Len(q) - 1 /\ Len(q) \in Nat \ {0}
  OBVIOUS
<1>8. /\ ops \in Seq(Operations) /\ Len(ops) = Len(q)
      /\ DOMAIN ops = 1..Len(q) /\ DOMAIN q = 1..Len(q)
      /\ \A i \in 1..Len(q) : ops[i] = q[i].op
  BY OpsOfQueue
<1>9. /\ opsr \in Seq(Operations) /\ Len(opsr) = Len(r) /\ DOMAIN opsr = 1..Len(r)
      /\ DOMAIN r = 1..Len(r) /\ \A i \in 1..Len(r) : opsr[i] = r[i].op
  BY <1>0, OpsOfQueue
<1>1. ops \in Seq(Operations) /\ ops # <<>> /\ Head(ops) = Head(q).op
  <2> HIDE DEF ops
  <2> QED BY <1>0, <1>8
<1>2. opsr = Tail(ops)
  <2> HIDE DEF ops, opsr
  <2>1. Tail(ops) \in Seq(Operations) /\ Len(Tail(ops)) = Len(q) - 1
    BY <1>0, <1>8
  <2>2. ASSUME NEW i \in 1..(Len(q) - 1) PROVE opsr[i] = Tail(ops)[i]
    BY <1>0, <1>8, <1>9
  <2> QED BY <1>0, <1>9, <2>1, <2>2, SeqEqual
<1>3. 1 \in P <=> Head(q).kind = "channel"
  OBVIOUS
<1>4. \A i \in 1..Len(Tail(ops)) : i \in Q <=> i + 1 \in P
  OBVIOUS
<1>5. ChannelOps(q) = Kept(ops, P) /\ ChannelOps(r) = Kept(opsr, Q)
  BY DEF ChannelOps
<1> HIDE DEF r, ops, opsr, P, Q
<1>6. Kept(ops, P) = IF 1 \in P THEN <<Head(ops)>> \o Kept(Tail(ops), Q) ELSE Kept(Tail(ops), Q)
  BY <1>1, <1>4, KeptTail
<1> QED BY <1>1, <1>2, <1>3, <1>5, <1>6, Zenon DEF r

\* Nothing changes for the operations when nobody waits for an answer.
LEMMA OpsUnwaited ==
    ASSUME NEW q \in Seq(CommandType), NEW r, r = [i \in DOMAIN q |-> [q[i] EXCEPT !.wait = FALSE]]
    PROVE  r \in Seq(CommandType) /\ ChannelOps(r) = ChannelOps(q)
<1>0. \A i \in DOMAIN q : q[i] \in CommandType
  OBVIOUS
<1>2. ASSUME NEW i \in DOMAIN q
      PROVE  r[i] \in CommandType /\ r[i].op = q[i].op /\ r[i].kind = q[i].kind
  <2>1. r[i] = [q[i] EXCEPT !.wait = FALSE] /\ q[i] \in CommandType
    BY <1>0
  <2> QED BY <2>1 DEF CommandType
<1>1. r \in Seq(CommandType) /\ DOMAIN r = DOMAIN q
  <2>1. r = [i \in DOMAIN q |-> r[i]] /\ \A i \in DOMAIN q : r[i] \in CommandType
    BY <1>2
  <2> QED BY <2>1, MappedIsSeq
<1>3. [i \in DOMAIN r |-> r[i].op] = [i \in DOMAIN q |-> q[i].op]
  BY <1>1, <1>2
<1>4. {i \in DOMAIN r : r[i].kind = "channel"} = {i \in DOMAIN q : q[i].kind = "channel"}
  BY <1>1, <1>2
<1> QED BY <1>1, <1>3, <1>4, Zenon DEF ChannelOps

----------------------------------------------------------------------------
(* The types.                                                               *)

LinkStates == {"NotInitialized", "Connecting", "Connected", "Disconnected"}
ChanStates == {"none", "asked", "open", "refused", "closed"}

SessionType == [st : LinkStates, handle : BOOLEAN, map : SUBSET Chan, all : SUBSET Chan,
                pty : SUBSET Chan, sftp : SUBSET Chan, line : [Chan -> SUBSET STRING],
                target : {"Found", "NotFound"}]
RequestType == [k : What \cup {"Forward", "CancelForward"}, c : Chan \cup {"-"}, arg : Arguments]
RemoteType == [pc : {"loop", "connecting", "drain", "failed", "ended"}, st : LinkStates,
               session : BOOLEAN, pending : Seq(Operations),
               drain : Seq(Operations), forwards : SUBSET {"forward"},
               pipes : SUBSET (Chan \cup {"-"})]
EventType == [kind : {"Close", "State", "Done", "HostKeyUnknown", "Output", "Forwarded"},
              arg : Chan \cup {"-", "Connected", "Disconnected"}]

ClientTypeOK == cchan \in [Chan -> ChanStates] /\ req \in {NoReq} \cup RequestType
SessionTypeOK == s \in SessionType /\ pc \in {"idle", "wait", "data", "review", "late"}
RemoteTypeOK == rcq \in Seq(CommandType) /\ rc \in RemoteType /\ ev \in Seq(EventType)
TargetTypeOK == out \in Seq(Operations)

TypeOK == ClientTypeOK /\ SessionTypeOK /\ RemoteTypeOK /\ TargetTypeOK

----------------------------------------------------------------------------
(* What the session's helpers do.                                           *)

\* The command a handler passes on is neither input nor a command line.
Minor(cmd) == cmd.kind = "channel" => cmd.op.what \notin {"Data", "Exec"}

Enqueues(cmd) ==
    \/ rcq' = rcq
    \/ rcq' = Append(rcq, cmd)
    \/ rcq' = Append(Append(rcq, Plain("connect", FALSE)), cmd)

\* The client's channels only go forward.
ChansGrow == /\ cchan' \in [Chan -> ChanStates]
             /\ \A c \in Chan : cchan[c] # "none" => cchan'[c] # "none"

\* The session may forget channels, and adds at most the one a request opens
\* and those of the target.
MapStep(ss) ==
    /\ ss \in SessionType
    /\ \A c \in ss.map : \/ c \in s.map /\ ss.line[c] = s.line[c]
                         \/ req.k \in Opens /\ c = req.c
                         \/ c \in ForwardedChans

\* Operations and commands have their types.
LEMMA OpType ==
    ASSUME NEW c \in Chan \cup {"-"}, NEW what \in What \cup Plains, NEW arg \in Arguments
    PROVE  /\ Op(c, what, arg) \in Operations /\ Op(c, what, arg).what = what
           /\ Op(c, what, arg).c = c /\ Op(c, what, arg).arg = arg
BY DEF Op, Operations

\* A channel operation sent to the remote client is a command with that operation.
LEMMA CmdType ==
    ASSUME NEW op \in Operations, NEW wait \in BOOLEAN
    PROVE  /\ Cmd(op, wait) \in CommandType /\ Cmd(op, wait).kind = "channel"
           /\ Cmd(op, wait).op = op
<1> HIDE DEF Operations
<1> QED BY DEF Cmd, CommandType

\* A command without a channel (connect, disconnect, global requests) is one too.
LEMMA PlainType ==
    ASSUME NEW kind \in Plains, NEW wait \in BOOLEAN
    PROVE  Plain(kind, wait) \in CommandType /\ Plain(kind, wait).kind = kind
<1>1. "-" \in Arguments
  BY DEF Arguments
<1>2. PICK op \in Operations : op = Op("-", kind, "-")
  BY <1>1, OpType
<1> QED BY <1>2 DEF Plain, CommandType

\* What Sends does with one and with two commands.
LEMMA SendsEffect ==
    ASSUME rcq \in Seq(CommandType), NEW a \in CommandType, NEW b \in CommandType
    PROVE  /\ Sends(<<a>>) => rcq' = rcq \/ rcq' = Append(rcq, a)
           /\ Sends(<<a, b>>) => rcq' = rcq \/ rcq' = Append(Append(rcq, a), b)
           /\ Sends(<<>>) => rcq' = rcq
<1>1. Append(rcq, a) = rcq \o <<a>>
  BY AppendIsConcat
<1>2. Append(Append(rcq, a), b) = rcq \o <<a, b>>
  OBVIOUS
<1>3. rcq \o <<>> = rcq
  OBVIOUS
<1> QED BY <1>1, <1>2, <1>3, Zenon DEF Sends

\* Closing channels takes the client's view of them forward.
LEMMA ClosedByGrows ==
    ASSUME TypeOK, NEW ss, NEW cs, cchan' = ClosedBy(ss, cs)
    PROVE  ChansGrow
<1>1. cchan \in [Chan -> ChanStates]
  BY DEF TypeOK, ClientTypeOK
<1>2. ASSUME NEW c \in Chan PROVE cchan'[c] \in {"closed", cchan[c]}
  BY DEF ClosedBy
<1>3. cchan' \in [Chan -> ChanStates]
  <2>1. ASSUME NEW c \in Chan PROVE cchan'[c] \in ChanStates
    BY <1>1, <1>2 DEF ChanStates
  <2>2. cchan' = [c \in Chan |-> cchan'[c]]
    BY DEF ClosedBy
  <2> QED BY <2>1, <2>2
<1> QED BY <1>2, <1>3 DEF ChansGrow

\* Connecting first, then the command.
LEMMA ConnectEffect ==
    ASSUME TypeOK, NEW ss, MapStep(ss), NEW cmd \in CommandType, maybe_connect_remote(ss, cmd)
    PROVE  MapStep(s') /\ Enqueues(cmd) /\ ChansGrow
<1> DEFINE connect == Plain("connect", FALSE)
<1>1. connect \in CommandType
  BY PlainType DEF Plains
<1> HIDE DEF connect
<1>2. rcq \in Seq(CommandType) /\ cchan \in [Chan -> ChanStates]
  BY DEF TypeOK, RemoteTypeOK, ClientTypeOK
<1>3. /\ Sends(<<cmd>>) => Enqueues(cmd)
      /\ Sends(<<connect, cmd>>) => Enqueues(cmd)
  BY <1>1, <1>2, SendsEffect DEF Enqueues, connect
<1>4. CASE ss.target = "NotFound"
  <2>1. /\ s' = disconnect_server(ss) /\ Sends(<<cmd>>)
        /\ cchan' = ClosedBy(ss, ss.all \cap ss.map)
    BY <1>4 DEF maybe_connect_remote, ConnectAnd
  <2>2. MapStep(s')
    BY <2>1 DEF MapStep, disconnect_server, SessionType
  <2>3. ChansGrow
    BY <2>1, ClosedByGrows
  <2> QED BY <1>3, <2>1, <2>2, <2>3
<1>5. CASE ss.target # "NotFound" /\ ss.target = "Found" /\ ss.st = "NotInitialized"
  <2>1. /\ s' = [ss EXCEPT !.st = "Connecting"] /\ Sends(<<connect, cmd>>) /\ cchan' = cchan
    BY <1>5 DEF maybe_connect_remote, ConnectAnd, connect
  <2>2. /\ s' \in SessionType /\ s'.map = ss.map /\ s'.line = ss.line
    BY <2>1 DEF MapStep, SessionType, LinkStates
  <2>3. MapStep(s')
    BY <2>2 DEF MapStep
  <2> QED BY <1>2, <1>3, <2>1, <2>3 DEF ChansGrow
<1>6. CASE ss.target # "NotFound" /\ ~(ss.target = "Found" /\ ss.st = "NotInitialized")
  <2>1. s' = ss /\ Sends(<<cmd>>) /\ cchan' = cchan
    BY <1>6 DEF maybe_connect_remote, ConnectAnd
  <2> QED BY <1>2, <1>3, <2>1 DEF ChansGrow
<1> QED BY <1>4, <1>5, <1>6

----------------------------------------------------------------------------
(* The inductive invariant.                                                 *)

\* The place of the event loop tells which request it works on, that request
\* is as it was made, and an approval is one of an administrator.
RequestInv ==
    /\ pc = "data" => req.k = "Data" /\ req.c \in s.map
    /\ pc \in {"review", "late"} => req.k = "Exec"
    /\ req.k \notin {"none", "Forward", "CancelForward"} => req.c \in Chan
    /\ req.k = "Data" => req.arg \in Chunk
    /\ req.k \in Opens \cup {"Data"} => cchan[req.c] # "none"
    /\ req.k = "Exec" => req.arg \in Commands /\ \A a \in audit : a.command # req.arg
    /\ review # "none" => pc \in {"review", "late"}
    /\ review = "approved" => <<req.arg, "approved">> \in decided

\* Operations are taken out of the queue only while they are replayed, and
\* none waits while there is a connection; only the target's own channels
\* are announced.
RemoteInv ==
    /\ rc.pc # "drain" => rc.drain = <<>>
    /\ rc.st = "Connected" => rc.pending = <<>>
    /\ \A i \in DOMAIN ev : /\ ev[i].kind = "Forwarded" => ev[i].arg \in ForwardedChans
                            /\ ev[i].kind = "State" => ev[i].arg \in {"Connected", "Disconnected"}

\* All operations that reached the target or are on their way, in order.
Trail == out \o InPipe

JustifiedBy(records, decisions, command) ==
    \E a \in records : /\ a.origin = "exec" /\ a.command = command
                       /\ a.outcome \in {"allowed", "approved", "degraded"}
                       /\ a.outcome = "allowed" => evaluate(a.command) = "allow"
                       /\ a.outcome = "approved" => <<a.command, "approved">> \in decisions

ExecsJustified ==
    \A i \in DOMAIN Trail : Trail[i].what = "Exec" => JustifiedBy(audit, decided, Trail[i].arg)

RecordedOnce ==
    \A a, b \in audit : a.origin = "exec" /\ b.origin = "exec" /\ a.command = b.command => a = b

\* A command line on its way is justified, and recorded once.
ExecInv == ExecsJustified /\ RecordedOnce

\* There is no input of a channel that is not there or is just being opened.
InputInv ==
    \A i \in DOMAIN Trail : Trail[i].what = "Data" =>
        /\ Trail[i].c \in Chan /\ cchan[Trail[i].c] # "none"
        /\ ~(req.k \in Opens /\ Trail[i].c = req.c)

Bad(op) == op.what = "Data" /\ op.arg.pty /\ op.arg.text = "bad"
Ends(op) == op.what = "Data" /\ op.arg.pty /\ op.arg.nl

\* The typed line is looked at and the rules could be loaded.
Strict == /\ evaluate(Line) # "allow"
          /\ [origin |-> "pty", command |-> Line, outcome |-> "degraded"] \notin audit

\* Once a part of the blocked command is on its way the session remembers it
\* until it forgets the channel, and no end of line follows.
LineInv ==
    Strict =>
      \A i \in DOMAIN Trail : (Bad(Trail[i]) /\ Trail[i].c \in ShellChans) =>
        /\ Trail[i].c \in s.map => "bad" \in s.line[Trail[i].c]
        /\ \A j \in DOMAIN Trail : (i <= j /\ Trail[j].c = Trail[i].c) => ~Ends(Trail[j])

IndInv == TypeOK /\ RequestInv /\ RemoteInv /\ ExecInv /\ InputInv /\ LineInv

----------------------------------------------------------------------------
(* Steps of the session that hand over neither input nor a command line.    *)

\* Events are taken from the queue, the oldest first, or dropped.
EventsTaken == ev' \in Seq(EventType) /\ \A i \in DOMAIN ev' : \E j \in DOMAIN ev : ev'[i] = ev[j]

QueueStep == \/ \E cmd \in CommandType : Minor(cmd) /\ Enqueues(cmd)
             \/ rcq' = [i \in DOMAIN rcq |-> [rcq[i] EXCEPT !.wait = FALSE]]

SideStep ==
    /\ UNCHANGED <<rc, out, audit, review, decided>>
    /\ pc \in {"idle", "wait"} /\ pc' \in {"idle", "wait"}
    /\ req' \in {req, NoReq}
    /\ ChansGrow /\ MapStep(s') /\ QueueStep /\ EventsTaken

\* The queue of commands may stay.
LEMMA QueueStays == rcq' = rcq => QueueStep
<1>1. Plain("connect", FALSE) \in CommandType /\ Plain("connect", FALSE).kind = "connect"
  BY PlainType DEF Plains
<1> QED BY <1>1 DEF QueueStep, Minor, Enqueues

\* So may the session, the client's channels and the events.
LEMMA NothingMoves ==
    ASSUME TypeOK
    PROVE  /\ MapStep(s) /\ (cchan' = cchan => ChansGrow) /\ (ev' = ev => EventsTaken)
<1> QED BY DEF TypeOK, SessionTypeOK, ClientTypeOK, RemoteTypeOK, MapStep, ChansGrow, EventsTaken

\* A request in the handler's hands has its type.
LEMMA HandledRequest ==
    ASSUME TypeOK, req.k # "none"
    PROVE  req \in RequestType
BY DEF TypeOK, ClientTypeOK, NoReq

\* The answer to a request.
LEMMA AnsweredGrows ==
    ASSUME TypeOK, NEW ok \in BOOLEAN, NEW chans \in [Chan -> ChanStates],
           \A c \in Chan : cchan[c] # "none" => chans[c] # "none", Answered(ok, chans)
    PROVE  ChansGrow /\ req' = NoReq
<1>1. CASE req.k \in Opens
  <2>1. PICK v \in {"open", "refused"} : cchan' = [chans EXCEPT ![req.c] = v]
    BY <1>1 DEF Answered
  <2> QED BY <2>1 DEF Answered, ChansGrow, ChanStates
<1>2. CASE req.k \notin Opens
  BY <1>2 DEF Answered, ChansGrow
<1> QED BY <1>1, <1>2

\* Answering the client's request opens channels at most, and ends the request.
LEMMA AnswerGrows ==
    ASSUME TypeOK, NEW ok \in BOOLEAN, Answer(ok)
    PROVE  ChansGrow /\ req' = NoReq
<1>1. cchan \in [Chan -> ChanStates] /\ Answered(ok, cchan)
  BY DEF TypeOK, ClientTypeOK, Answer
<1> QED BY <1>1, AnsweredGrows

\* A handler is a side step when its own part is one.
LEMMA HandlerIsSide ==
    ASSUME TypeOK, NEW k, Handles(k), UNCHANGED <<audit, review>>, pc' \in {"idle", "wait"},
           req' \in {req, NoReq}, ChansGrow, MapStep(s'), QueueStep
    PROVE  SideStep
<1>1. UNCHANGED <<rc, out, ev, decided>> /\ pc = "idle"
  BY DEF Handles, target
<1> QED BY <1>1, NothingMoves DEF SideStep

\* The handler that does not know the channel.
LEMMA UnmappedIsSide ==
    ASSUME TypeOK, NEW k, Handles(k), Unmapped
    PROVE  SideStep
<1>1. /\ UNCHANGED <<audit, review>> /\ pc' = pc /\ s' = s /\ rcq' = rcq /\ Answer(FALSE)
      /\ pc = "idle"
  BY DEF Unmapped, Handles
<1> QED BY <1>1, AnswerGrows, NothingMoves, QueueStays, HandlerIsSide

\* A minor operation of the request's channel, as a command.
LEMMA MinorCommand ==
    ASSUME TypeOK, req.k # "none", NEW k \in What \ {"Data", "Exec"}, NEW wait \in BOOLEAN
    PROVE  /\ Cmd(Op(req.c, k, "-"), wait) \in CommandType
           /\ Minor(Cmd(Op(req.c, k, "-"), wait))
<1>1. req.c \in Chan \cup {"-"} /\ "-" \in Arguments /\ k \in What \cup Plains
  BY HandledRequest DEF RequestType, Arguments
<1>2. PICK op \in Operations : op = Op(req.c, k, "-") /\ op.what = k
  BY <1>1, OpType
<1>3. Cmd(op, wait) \in CommandType /\ Cmd(op, wait).op = op
  BY CmdType
<1> QED BY <1>2, <1>3 DEF Minor

\* One minor command put in the queue.
LEMMA SendsMinor ==
    ASSUME TypeOK, NEW cmd \in CommandType, Minor(cmd), send_command(cmd)
    PROVE  QueueStep
<1>1. rcq' = rcq \/ rcq' = Append(rcq, cmd)
  BY SendsEffect DEF send_command, TypeOK, RemoteTypeOK
<1> QED BY <1>1 DEF QueueStep, Enqueues

\* Opens.
LEMMA OpensAreSide ==
    ASSUME IndInv,
           ChannelOpenSession \/ _channel_open_direct_tcpip \/ _channel_open_direct_streamlocal
    PROVE  SideStep
<1>0. TypeOK /\ RequestInv /\ s \in SessionType
  BY DEF IndInv, TypeOK, SessionTypeOK
<1>1. ASSUME NEW k \in Opens, req.k = k
      PROVE  /\ Cmd(Op(req.c, k, "-"), TRUE) \in CommandType
             /\ Minor(Cmd(Op(req.c, k, "-"), TRUE))
             /\ MapStep([s EXCEPT !.map = @ \cup {req.c}])
  <2>1. req.k # "none" /\ k \in What \ {"Data", "Exec"} /\ req.c \in Chan
    BY <1>0, <1>1 DEF Opens, What, RequestInv
  <2>2. MapStep([s EXCEPT !.map = @ \cup {req.c}])
    BY <1>0, <1>1, <2>1 DEF MapStep, SessionType
  <2> QED BY <1>0, <2>1, <2>2, MinorCommand
<1>2. CASE ChannelOpenSession
  <2> DEFINE cmd == Cmd(Op(req.c, "OpenShell", "-"), TRUE)
  <2>1. /\ Handles("OpenShell") /\ Waits /\ send_command(cmd)
        /\ s' = [s EXCEPT !.map = @ \cup {req.c}]
        /\ UNCHANGED <<cchan, req, prompt, abort, audit, review>>
    BY <1>2 DEF ChannelOpenSession
  <2>2. "OpenShell" \in Opens /\ req.k = "OpenShell"
    BY <2>1 DEF Opens, Handles
  <2>3. cmd \in CommandType /\ Minor(cmd) /\ MapStep(s')
    BY <1>1, <2>1, <2>2
  <2> HIDE DEF cmd
  <2>4. QueueStep
    BY <1>0, <2>1, <2>3, SendsMinor
  <2> QED BY <1>0, <2>1, <2>3, <2>4, HandlerIsSide, NothingMoves DEF Waits
<1>3. ASSUME NEW k \in Opens, OpenDirect(k) PROVE SideStep
  <2> DEFINE cmd == Cmd(Op(req.c, k, "-"), TRUE)
             ss == [s EXCEPT !.map = @ \cup {req.c}]
  <2>1. /\ Handles(k) /\ Waits /\ maybe_connect_remote(ss, cmd)
        /\ UNCHANGED <<req, prompt, abort, audit, review>>
    BY <1>3 DEF OpenDirect
  <2>2. req.k = k
    BY <2>1 DEF Handles
  <2>3. cmd \in CommandType /\ Minor(cmd) /\ MapStep(ss)
    BY <1>1, <2>2
  <2> HIDE DEF cmd, ss
  <2>4. MapStep(s') /\ Enqueues(cmd) /\ ChansGrow
    BY <1>0, <2>1, <2>3, ConnectEffect
  <2>5. QueueStep
    BY <2>3, <2>4 DEF QueueStep
  <2> QED BY <1>0, <2>1, <2>4, <2>5, HandlerIsSide DEF Waits
<1> QED BY <1>2, <1>3 DEF _channel_open_direct_tcpip, _channel_open_direct_streamlocal, Opens

\* Requests passed on and waited for, and those sent without waiting.
LEMMA PassedOnIsSide ==
    ASSUME TypeOK, NEW k \in What \ {"Data", "Exec"}, PassedOn(k) \/ SentUnwaited(k)
    PROVE  SideStep
<1>0. Handles(k) /\ req.k = k /\ k # "none" /\ pc = "idle"
  BY DEF PassedOn, SentUnwaited, Handles, What, Opens
<1>1. CASE Unmapped
  BY <1>0, <1>1, UnmappedIsSide
<1> DEFINE cmd(wait) == Cmd(Op(req.c, k, "-"), wait)
<1>2. cmd(TRUE) \in CommandType /\ Minor(cmd(TRUE)) /\ cmd(FALSE) \in CommandType /\ Minor(cmd(FALSE))
  BY <1>0, MinorCommand
<1>3. CASE SendsAndWaits(Op(req.c, k, "-"))
  <2>1. Waits /\ send_command(cmd(TRUE)) /\ UNCHANGED <<cchan, req, s, prompt, abort, audit, review>>
    BY <1>3 DEF SendsAndWaits
  <2> HIDE DEF cmd
  <2>2. QueueStep
    BY <1>2, <2>1, SendsMinor
  <2>3. MapStep(s')
    BY <2>1, NothingMoves
  <2> QED BY <1>0, <2>1, <2>2, <2>3, HandlerIsSide, NothingMoves DEF Waits
<1>4. CASE send_command(cmd(FALSE)) /\ Answer(TRUE) /\ UNCHANGED <<s, pc, prompt, reply, abort, audit, review>>
  <2> HIDE DEF cmd
  <2>1. QueueStep
    BY <1>2, <1>4, SendsMinor
  <2>2. MapStep(s')
    BY <1>4, NothingMoves
  <2> QED BY <1>0, <1>4, <2>1, <2>2, HandlerIsSide, AnswerGrows
<1> QED BY <1>1, <1>3, <1>4 DEF PassedOn, SentUnwaited

\* Requests that connect first.
LEMMA ConnectingIsSide ==
    ASSUME TypeOK, \/ _channel_x11_request \/ _channel_subsystem_request \/ _tcpip_forward
                   \/ _cancel_tcpip_forward \/ ShellRequest
    PROVE  SideStep
<1>1. ASSUME NEW k, Handles(k), NEW cmd \in CommandType, Minor(cmd), maybe_connect_remote(s, cmd),
             pc' \in {"idle", "wait"}, req' \in {req, NoReq}, UNCHANGED <<audit, review>>
      PROVE  SideStep
  <2>1. MapStep(s') /\ Enqueues(cmd) /\ ChansGrow
    BY <1>1, NothingMoves, ConnectEffect
  <2>2. QueueStep
    BY <1>1, <2>1 DEF QueueStep
  <2> QED BY <1>1, <2>1, <2>2, HandlerIsSide
<1>2. ASSUME NEW k \in {"X11", "Sftp"}, Handles(k), ConnectsAndWaits(k, req.c)
      PROVE  SideStep
  <2> DEFINE cmd == Cmd(Op(req.c, k, "-"), TRUE)
  <2>1. req.k # "none" /\ k \in What \ {"Data", "Exec"}
    BY <1>2 DEF Handles, What
  <2>2. cmd \in CommandType /\ Minor(cmd)
    BY <2>1, MinorCommand
  <2>3. Waits /\ maybe_connect_remote(s, cmd) /\ UNCHANGED <<req, prompt, abort, audit, review>>
    BY <1>2 DEF ConnectsAndWaits
  <2> HIDE DEF cmd
  <2> QED BY <1>1, <1>2, <2>2, <2>3 DEF Waits
<1>3. CASE _channel_x11_request
  BY <1>2, <1>3, UnmappedIsSide DEF _channel_x11_request
<1>4. CASE _channel_subsystem_request
  <2>1. Handles("Sftp") /\ pc = "idle"
    BY <1>4 DEF _channel_subsystem_request, Handles
  <2>2. CASE Unmapped
    BY <2>1, <2>2, UnmappedIsSide
  <2>3. CASE ConnectsAndWaits("Sftp", req.c)
    BY <1>2, <2>1, <2>3
  <2>4. CASE Answer(FALSE) /\ UNCHANGED <<s, pc, prompt, reply, rcq, abort, audit, review>>
    <3>1. MapStep(s') /\ QueueStep
      BY <2>4, NothingMoves, QueueStays
    <3> QED BY <2>1, <2>4, <3>1, AnswerGrows, HandlerIsSide
  <2> QED BY <1>4, <2>2, <2>3, <2>4 DEF _channel_subsystem_request
<1>5. CASE _tcpip_forward
  <2> DEFINE cmd == Plain("forward", TRUE)
  <2>1. cmd \in CommandType /\ Minor(cmd)
    BY PlainType DEF Plains, Minor
  <2>2. /\ Handles("Forward") /\ Waits /\ maybe_connect_remote(s, cmd)
        /\ UNCHANGED <<req, prompt, abort, audit, review>>
    BY <1>5 DEF _tcpip_forward
  <2> HIDE DEF cmd
  <2> QED BY <1>1, <2>1, <2>2 DEF Waits
<1>6. CASE _cancel_tcpip_forward
  <2> DEFINE cmd == Plain("cancel-forward", TRUE)
  <2>1. cmd \in CommandType /\ Minor(cmd)
    BY PlainType DEF Plains, Minor
  <2>2. /\ Handles("CancelForward") /\ Waits /\ send_command(cmd)
        /\ UNCHANGED <<cchan, req, s, prompt, abort, audit, review>>
    BY <1>6 DEF _cancel_tcpip_forward
  <2> HIDE DEF cmd
  <2>3. QueueStep /\ MapStep(s')
    BY <2>1, <2>2, SendsMinor, NothingMoves
  <2> QED BY <2>2, <2>3, HandlerIsSide, NothingMoves DEF Waits
<1>7. CASE ShellRequest
  <2> DEFINE cmd == Cmd(Op(req.c, "Shell", "-"), FALSE)
  <2>1. Handles("Shell") /\ req.k # "none" /\ "Shell" \in What \ {"Data", "Exec"} /\ pc = "idle"
    BY <1>7 DEF ShellRequest, Handles, What
  <2>2. cmd \in CommandType /\ Minor(cmd)
    BY <2>1, MinorCommand
  <2>3. CASE Unmapped
    BY <2>1, <2>3, UnmappedIsSide
  <2>4. CASE /\ maybe_connect_remote(s, cmd) /\ req' = NoReq
             /\ UNCHANGED <<pc, prompt, reply, abort, audit, review>>
    <3> HIDE DEF cmd
    <3> QED BY <1>1, <2>1, <2>2, <2>4
  <2> QED BY <1>7, <2>3, <2>4 DEF ShellRequest
<1> QED BY <1>3, <1>4, <1>5, <1>6, <1>7

\* Disconnecting puts at most a plain command in the queue.
LEMMA DisconnectIsMinor ==
    ASSUME TypeOK, request_disconnect(s)
    PROVE  QueueStep
<1> DEFINE cmd == Plain("disconnect", FALSE)
<1>1. cmd \in CommandType /\ Minor(cmd)
  BY PlainType DEF Plains, Minor
<1>2. rcq \in Seq(CommandType)
  BY DEF TypeOK, RemoteTypeOK
<1>3. Sends(<<cmd>>) \/ Sends(<<>>)
  BY DEF request_disconnect, DisconnectCommands
<1> HIDE DEF cmd
<1>4. rcq' = rcq \/ rcq' = Append(rcq, cmd)
  BY <1>1, <1>2, <1>3, SendsEffect
<1> QED BY <1>1, <1>4 DEF QueueStep, Enqueues

\* The session forgets a channel, or everything.
LEMMA ForgetsAreMapSteps ==
    ASSUME TypeOK
    PROVE  /\ \A c \in Chan \cup {"-"} : /\ MapStep(remove_channel(s, c))
                                       /\ MapStep(remove_channel(finish_sftp_audit(s, c), c))
           /\ MapStep(disconnect_server(s)) /\ MapStep(Dropped(s))
           /\ \A st \in LinkStates : /\ MapStep([s EXCEPT !.st = st])
                                    /\ MapStep(disconnect_server([s EXCEPT !.st = st]))
<1>1. s \in SessionType
  BY DEF TypeOK, SessionTypeOK
<1>2. ASSUME NEW ss \in SessionType, ss.map \subseteq s.map, \A c \in ss.map : ss.line[c] = s.line[c]
      PROVE  MapStep(ss)
  BY <1>2 DEF MapStep
<1>3. ASSUME NEW c \in Chan \cup {"-"}, NEW q \in SessionType, q.map = s.map, q.line = s.line
      PROVE  MapStep(remove_channel(q, c))
  <2> DEFINE ss == remove_channel(q, c)
  <2>1. ss \in SessionType /\ ss.map = s.map \ {c} /\ ss.line = [s.line EXCEPT ![c] = {}]
    BY <1>3 DEF remove_channel, SessionType
  <2>2. \A x \in ss.map : ss.line[x] = s.line[x]
    BY <1>1, <2>1 DEF SessionType
  <2> HIDE DEF ss
  <2>3. MapStep(ss)
    BY <1>2, <2>1, <2>2
  <2> QED BY <2>3 DEF ss
<1>4. ASSUME NEW c \in Chan \cup {"-"}
      PROVE  /\ finish_sftp_audit(s, c) \in SessionType /\ finish_sftp_audit(s, c).map = s.map
             /\ finish_sftp_audit(s, c).line = s.line
  BY <1>1 DEF finish_sftp_audit, SessionType
<1>5. MapStep(disconnect_server(s)) /\ MapStep(Dropped(s))
  <2>1. /\ disconnect_server(s) \in SessionType /\ disconnect_server(s).map = s.map
        /\ disconnect_server(s).line = s.line
    BY <1>1 DEF disconnect_server, SessionType
  <2>2. Dropped(s) \in SessionType /\ Dropped(s).map = {}
    BY <1>1 DEF Dropped, SessionType, LinkStates
  <2> QED BY <1>2, <2>1, <2>2
<1>6. ASSUME NEW st \in LinkStates
      PROVE  /\ MapStep([s EXCEPT !.st = st])
             /\ MapStep(disconnect_server([s EXCEPT !.st = st]))
  <2>1. /\ [s EXCEPT !.st = st] \in SessionType /\ [s EXCEPT !.st = st].map = s.map
        /\ [s EXCEPT !.st = st].line = s.line
    BY <1>1 DEF SessionType
  <2> DEFINE ss == disconnect_server([s EXCEPT !.st = st])
  <2>2. ss \in SessionType /\ ss.map = s.map /\ ss.line = s.line
    BY <1>1 DEF disconnect_server, SessionType
  <2> HIDE DEF ss
  <2>3. MapStep(ss)
    BY <1>2, <2>2
  <2> QED BY <1>2, <2>1, <2>3 DEF ss
<1> QED BY <1>1, <1>3, <1>4, <1>5, <1>6

\* Taking an event.
LEMMA TakesEvent ==
    ASSUME TypeOK, RemoteInv, NEW kind, Takes(kind)
    PROVE  /\ EventsTaken /\ pc \in {"idle", "wait"} /\ UNCHANGED <<rc, out, audit, review, decided>>
           /\ Head(ev) \in EventType /\ Head(ev).kind = kind
           /\ kind = "Forwarded" => Head(ev).arg \in ForwardedChans
           /\ kind = "State" => Head(ev).arg \in LinkStates
<1>1. /\ ev # <<>> /\ Head(ev).kind = kind /\ ev' \in {<<>>, Tail(ev)} /\ pc \in {"idle", "wait"}
      /\ UNCHANGED <<rc, out, audit, review, decided>>
  BY DEF Takes, Listens, target, reviews
<1>2. ev \in Seq(EventType)
  BY DEF TypeOK, RemoteTypeOK
<1>3. Head(ev) \in EventType /\ 1 \in DOMAIN ev /\ Head(ev) = ev[1]
  BY <1>1, <1>2
<1>4. EventsTaken
  <2>1. CASE ev' = <<>>
    BY <2>1 DEF EventsTaken
  <2>2. CASE ev' = Tail(ev)
    <3>1. ev' \in Seq(EventType) /\ DOMAIN ev' = 1..(Len(ev) - 1) /\ DOMAIN ev = 1..Len(ev)
      BY <1>1, <1>2, <2>2
    <3>2. \A i \in DOMAIN ev' : ev'[i] = ev[i + 1] /\ i + 1 \in DOMAIN ev
      BY <1>1, <1>2, <2>2, <3>1
    <3> QED BY <3>1, <3>2 DEF EventsTaken
  <2> QED BY <1>1, <2>1, <2>2
<1>5. /\ ev[1].kind = "Forwarded" => ev[1].arg \in ForwardedChans
      /\ ev[1].kind = "State" => ev[1].arg \in {"Connected", "Disconnected"}
  BY <1>3 DEF RemoteInv
<1>6. {"Connected", "Disconnected"} \subseteq LinkStates
  BY DEF LinkStates
<1> QED BY <1>1, <1>3, <1>4, <1>5, <1>6, Zenon

\* Events of the remote client.
LEMMA RemoteEventIsSide ==
    ASSUME IndInv, RemoteEvent
    PROVE  SideStep
<1>0. TypeOK /\ RemoteInv /\ s \in SessionType /\ cchan \in [Chan -> ChanStates]
  BY DEF IndInv, TypeOK, SessionTypeOK, ClientTypeOK
<1>1. CASE Done
  <2>1. Takes("Done")
    BY <1>1 DEF Done
  <2>2. CASE pc = "idle"
    <3>1. s' = Dropped(s) /\ UNCHANGED <<cchan, req, pc, prompt, reply, rcq, hk>>
      BY <1>1, <2>2 DEF Done
    <3>2. MapStep(s') /\ ChansGrow /\ QueueStep
      BY <1>0, <3>1, ForgetsAreMapSteps, NothingMoves, QueueStays
    <3> QED BY <1>0, <2>1, <2>2, <3>1, <3>2, TakesEvent DEF SideStep
  <2>3. CASE pc # "idle"
    <3>1. /\ pc' = "idle" /\ Answer(FALSE) /\ UNCHANGED <<s, prompt, ended, abort, hk>>
          /\ rcq' = [i \in DOMAIN rcq |-> [rcq[i] EXCEPT !.wait = FALSE]]
      BY <1>1, <2>3 DEF Done
    <3>2. MapStep(s') /\ QueueStep
      BY <1>0, <3>1, NothingMoves DEF QueueStep
    <3> QED BY <1>0, <2>1, <3>1, <3>2, TakesEvent, AnswerGrows DEF SideStep
  <2> QED BY <2>2, <2>3
<1>2. ASSUME NEW kind, Takes(kind), UNCHANGED <<req, pc, rcq>>, ChansGrow, MapStep(s')
      PROVE  SideStep
  <2>1. QueueStep
    BY <1>2, QueueStays
  <2> QED BY <1>0, <1>2, <2>1, TakesEvent DEF SideStep
<1>3. CASE StateEvent
  <2>1. Takes("State") /\ UNCHANGED <<req, pc, rcq>>
    BY <1>3 DEF StateEvent
  <2>2. CASE Head(ev).arg = "Disconnected"
    <3>1. /\ s' = disconnect_server([s EXCEPT !.st = "Disconnected"])
          /\ cchan' = ClosedBy(s, s.all \cap s.map)
      BY <1>3, <2>2 DEF StateEvent
    <3>2. "Disconnected" \in LinkStates
      BY DEF LinkStates
    <3>3. MapStep(s') /\ ChansGrow
      BY <1>0, <3>1, <3>2, ForgetsAreMapSteps, ClosedByGrows
    <3> QED BY <1>2, <2>1, <3>3
  <2>3. CASE Head(ev).arg # "Disconnected"
    <3>1. s' = [s EXCEPT !.st = Head(ev).arg] /\ cchan' = cchan
      BY <1>3, <2>3 DEF StateEvent
    <3>2. Head(ev).arg \in LinkStates
      BY <1>0, <2>1, TakesEvent
    <3>3. MapStep(s') /\ ChansGrow
      BY <1>0, <3>1, <3>2, ForgetsAreMapSteps, NothingMoves
    <3> QED BY <1>2, <2>1, <3>3
  <2> QED BY <2>2, <2>3
<1>4. CASE OutputEvent
  <2>1. Takes("Output") /\ UNCHANGED <<cchan, req, s, pc, rcq>>
    BY <1>4 DEF OutputEvent
  <2>2. MapStep(s') /\ ChansGrow
    BY <1>0, <2>1, NothingMoves
  <2> QED BY <1>2, <2>1, <2>2
<1>5. CASE CloseEvent
  <2> DEFINE c == Head(ev).arg
  <2>1. Takes("Close") /\ UNCHANGED <<req, pc, rcq>>
    BY <1>5 DEF CloseEvent
  <2>2. CASE c \in s.map
    <3>1. cchan' = ClosedBy(s, {c}) /\ s' = remove_channel(finish_sftp_audit(s, c), c)
      BY <1>5, <2>2 DEF CloseEvent
    <3>2. c \in Chan \cup {"-"}
      BY <1>0, <2>2 DEF SessionType
    <3> HIDE DEF c
    <3>3. MapStep(s') /\ ChansGrow
      BY <1>0, <3>1, <3>2, ForgetsAreMapSteps, ClosedByGrows
    <3> QED BY <1>2, <2>1, <3>3
  <2>3. CASE c \notin s.map
    <3>1. UNCHANGED <<s, cchan>>
      BY <1>5, <2>3 DEF CloseEvent
    <3>2. MapStep(s') /\ ChansGrow
      BY <1>0, <3>1, NothingMoves
    <3> QED BY <1>2, <2>1, <3>2
  <2> QED BY <2>2, <2>3
<1>6. CASE ForwardedChannel
  <2>1. Takes("Forwarded") /\ UNCHANGED <<req, pc, rcq>>
    BY <1>6 DEF ForwardedChannel
  <2>2. PICK c \in ForwardedChans : c = Head(ev).arg
    BY <1>0, <2>1, TakesEvent
  <2>3. c \in Chan
    BY DEF Chan
  <2>4. CASE s.handle
    <3>1. s' = [s EXCEPT !.map = @ \cup {c}, !.all = @ \cup {c}] /\ cchan' = [cchan EXCEPT ![c] = "open"]
      BY <1>6, <2>2, <2>4 DEF ForwardedChannel
    <3>2. s' \in SessionType /\ s'.map = s.map \cup {c} /\ s'.line = s.line
      BY <1>0, <2>3, <3>1 DEF SessionType
    <3>3. MapStep(s')
      BY <3>2 DEF MapStep
    <3>4. ChansGrow
      BY <1>0, <2>3, <3>1 DEF ChansGrow, ChanStates
    <3> QED BY <1>2, <2>1, <3>3, <3>4
  <2>5. CASE ~s.handle
    <3>1. UNCHANGED <<s, cchan>>
      BY <1>6, <2>5 DEF ForwardedChannel
    <3>2. MapStep(s') /\ ChansGrow
      BY <1>0, <3>1, NothingMoves
    <3> QED BY <1>2, <2>1, <3>2
  <2> QED BY <2>4, <2>5
<1>7. CASE handle_unknown_host_key
  <2>1. Takes("HostKeyUnknown") /\ UNCHANGED <<cchan, req, s, pc>>
    BY <1>7 DEF handle_unknown_host_key
  <2>2. MapStep(s') /\ ChansGrow
    BY <1>0, <2>1, NothingMoves
  <2>3. rcq' = rcq \/ request_disconnect(s)
    BY <1>7 DEF handle_unknown_host_key
  <2>4. QueueStep
    BY <1>0, <2>3, QueueStays, DisconnectIsMinor
  <2> QED BY <1>0, <2>1, <2>2, <2>4, TakesEvent DEF SideStep
<1> QED BY <1>1, <1>3, <1>4, <1>5, <1>6, <1>7 DEF RemoteEvent

\* An administrator's Close, the end of a wait, the end of the session.
LEMMA SessionEndsAreSide ==
    ASSUME IndInv, handle_session_control \/ PendingCommand \/ Disconnected
    PROVE  SideStep
<1>0. TypeOK /\ s \in SessionType
  BY DEF IndInv, TypeOK, SessionTypeOK
<1>1. CASE handle_session_control
  <2>1. /\ request_disconnect(s) /\ s' = disconnect_server(s) /\ cchan' = ClosedBy(s, s.all \cap s.map)
        /\ UNCHANGED <<req, pc, rc, ev, out, audit, review, decided>> /\ pc \in {"idle", "wait"}
    BY <1>1 DEF handle_session_control, Listens, target, reviews
  <2>2. QueueStep /\ MapStep(s') /\ ChansGrow /\ EventsTaken
    BY <1>0, <2>1, DisconnectIsMinor, ForgetsAreMapSteps, ClosedByGrows, NothingMoves
  <2> QED BY <2>1, <2>2 DEF SideStep
<1>2. CASE PendingCommand
  <2>1. /\ pc = "wait" /\ pc' = "idle" /\ UNCHANGED <<rcq, rc, ev, out, audit, review, decided>>
        /\ \E ok \in BOOLEAN : Answer(ok) /\ s' \in {s, Succeeded}
    BY <1>2 DEF PendingCommand, remote, target, reviews
  <2>2. MapStep(Succeeded)
    <3>1. CASE req.k \in Opens
      <4>1. Succeeded = [s EXCEPT !.all = @ \cup {req.c}]
        BY <3>1 DEF Succeeded, Opens
      <4>2. req.c \in Chan
        BY <3>1 DEF IndInv, RequestInv, Opens
      <4>3. Succeeded \in SessionType /\ Succeeded.map = s.map /\ Succeeded.line = s.line
        BY <1>0, <4>1, <4>2 DEF SessionType
      <4> QED BY <4>3 DEF MapStep
    <3>2. CASE req.k \in {"Pty", "Sftp"}
      <4>1. req.k \notin Opens
        BY <3>2 DEF Opens
      <4>2. Succeeded \in {s, [s EXCEPT !.pty = @ \cup {req.c}], [s EXCEPT !.sftp = @ \cup {req.c}]}
        BY <3>2, <4>1 DEF Succeeded
      <4>3. req.c \in Chan
        BY <3>2 DEF IndInv, RequestInv
      <4>4. Succeeded \in SessionType /\ Succeeded.map = s.map /\ Succeeded.line = s.line
        <5>1. CASE Succeeded = s
          BY <1>0, <5>1
        <5>2. CASE Succeeded = [s EXCEPT !.pty = @ \cup {req.c}]
          BY <1>0, <4>3, <5>2 DEF SessionType
        <5>3. CASE Succeeded = [s EXCEPT !.sftp = @ \cup {req.c}]
          BY <1>0, <4>3, <5>3 DEF SessionType
        <5> QED BY <4>2, <5>1, <5>2, <5>3
      <4> QED BY <4>4 DEF MapStep
    <3>3. CASE req.k = "ChannelClose"
      <4>1. req.k \notin Opens /\ req.k # "Pty" /\ req.k # "Sftp"
        BY <3>3 DEF Opens
      <4>2. Succeeded = remove_channel(finish_sftp_audit(s, req.c), req.c)
        BY <3>3, <4>1 DEF Succeeded
      <4>3. req.c \in Chan \cup {"-"}
        BY <3>3 DEF IndInv, RequestInv
      <4> QED BY <1>0, <4>2, <4>3, ForgetsAreMapSteps
    <3>4. CASE req.k \notin Opens \cup {"Pty", "Sftp", "ChannelClose"}
      <4>1. Succeeded = s
        BY <3>4 DEF Succeeded
      <4> QED BY <1>0, <4>1, NothingMoves
    <3> QED BY <3>1, <3>2, <3>3, <3>4
  <2>3. MapStep(s') /\ QueueStep /\ EventsTaken
    BY <1>0, <2>1, <2>2, NothingMoves, QueueStays
  <2> QED BY <1>0, <2>1, <2>3, AnswerGrows DEF SideStep
<1>3. CASE Disconnected
  <2>1. /\ s' = Dropped(s) /\ pc = "idle" /\ ev' = <<>>
        /\ UNCHANGED <<cchan, req, pc, rcq, rc, out, audit, review, decided>>
    BY <1>3 DEF Disconnected, client, target, reviews
  <2>2. QueueStep /\ MapStep(s') /\ ChansGrow /\ EventsTaken
    BY <1>0, <2>1, QueueStays, ForgetsAreMapSteps, NothingMoves DEF EventsTaken
  <2> QED BY <2>1, <2>2 DEF SideStep
<1> QED BY <1>1, <1>2, <1>3

----------------------------------------------------------------------------
(* The pipe: what a step does to the operations on their way.               *)

\* Nothing new is handed over: the pipe stays, delivers or loses.
Carried == \/ UNCHANGED <<InPipe, out>>
           \/ Pipe!Arrive
           \/ \E n \in 1..Len(InPipe) : Pipe!Lose(n)

HandsOver(op) == InPipe' = Append(InPipe, op) /\ out' = out

Piped == Carried \/ \E op \in Operations : HandsOver(op)

\* The pipe holds operations.
LEMMA InPipeType ==
    ASSUME TypeOK
    PROVE  /\ InPipe \in Seq(Operations) /\ Trail \in Seq(Operations)
           /\ ChannelOps(rcq) \in Seq(Operations) /\ rc.drain \o rc.pending \in Seq(Operations)
           /\ rc.drain \in Seq(Operations) /\ rc.pending \in Seq(Operations)
<1>1. /\ rc.drain \in Seq(Operations) /\ rc.pending \in Seq(Operations)
      /\ rcq \in Seq(CommandType) /\ out \in Seq(Operations)
  BY DEF TypeOK, RemoteTypeOK, TargetTypeOK, RemoteType
<1>2. ChannelOps(rcq) \in Seq(Operations)
  BY <1>1, OpsInSeq
<1>3. rc.drain \o rc.pending \in Seq(Operations)
  BY <1>1, ConcatProperties
<1>4. InPipe \in Seq(Operations)
  <2>1. (rc.drain \o rc.pending) \o ChannelOps(rcq) \in Seq(Operations)
    BY <1>2, <1>3, ConcatProperties
  <2> QED BY <2>1 DEF InPipe
<1>5. Trail \in Seq(Operations)
  BY <1>1, <1>4, ConcatProperties DEF Trail
<1> QED BY <1>1, <1>2, <1>3, <1>4, <1>5

\* A command sent is handed over if it has an operation.
LEMMA EnqueueHands ==
    ASSUME TypeOK, UNCHANGED <<rc, out>>, NEW cmd \in CommandType, Enqueues(cmd)
    PROVE  /\ rcq' \in Seq(CommandType)
           /\ UNCHANGED <<InPipe, out>> \/ (cmd.kind = "channel" /\ HandsOver(cmd.op))
<1> DEFINE connect == Plain("connect", FALSE)
<1>1. connect \in CommandType /\ connect.kind # "channel"
  BY PlainType DEF Plains
<1> HIDE DEF connect
<1>2. rcq \in Seq(CommandType) /\ cmd.op \in Operations
  BY DEF TypeOK, RemoteTypeOK, CommandType
<1> DEFINE q == Append(rcq, connect)
<1>3. q \in Seq(CommandType) /\ ChannelOps(q) = ChannelOps(rcq)
  BY <1>1, <1>2, OpsAppend
<1>4. Append(rcq, cmd) \in Seq(CommandType) /\ Append(q, cmd) \in Seq(CommandType)
  BY <1>2, <1>3
<1>5. /\ ChannelOps(Append(rcq, cmd)) = IF cmd.kind = "channel" THEN Append(ChannelOps(rcq), cmd.op)
                                                                ELSE ChannelOps(rcq)
      /\ ChannelOps(Append(q, cmd)) = IF cmd.kind = "channel" THEN Append(ChannelOps(rcq), cmd.op)
                                                              ELSE ChannelOps(rcq)
  BY <1>2, <1>3, OpsAppend
<1>6. rcq' \in {rcq, Append(rcq, cmd), Append(q, cmd)}
  BY DEF Enqueues, connect
<1> HIDE DEF q
<1>7. ChannelOps(rcq') = ChannelOps(rcq) \/
      (cmd.kind = "channel" /\ ChannelOps(rcq') = Append(ChannelOps(rcq), cmd.op))
  BY <1>5, <1>6, Zenon
<1>8. CASE rc.pc = "ended"
  BY <1>2, <1>4, <1>6, <1>8 DEF InPipe
<1>9. CASE rc.pc # "ended" /\ ChannelOps(rcq') = ChannelOps(rcq)
  BY <1>2, <1>4, <1>6, <1>9 DEF InPipe
<1>10. CASE rc.pc # "ended" /\ cmd.kind = "channel" /\ ChannelOps(rcq') = Append(ChannelOps(rcq), cmd.op)
  <2> DEFINE before == rc.drain \o rc.pending
             queued == ChannelOps(rcq)
             queuedNext == ChannelOps(rcq')
             op == cmd.op
  <2>1. InPipe = before \o queued /\ InPipe' = before \o queuedNext
    BY <1>10 DEF InPipe
  <2>2. before \in Seq(Operations) /\ queued \in Seq(Operations) /\ op \in Operations
    BY <1>2, InPipeType
  <2>3. queuedNext = Append(queued, op)
    BY <1>10
  <2> HIDE DEF before, queued, queuedNext, op
  <2>4. Append(before \o queued, op) = before \o queuedNext
    BY <2>2, <2>3, ConcatAppend, Zenon
  <2>5. InPipe' = Append(InPipe, op)
    BY <2>1, <2>4, Zenon
  <2> QED BY <1>2, <1>4, <1>6, <1>10, <2>5 DEF HandsOver, op
<1> QED BY <1>7, <1>8, <1>9, <1>10

\* What was carried keeps its order.
LEMMA CarriedOrder ==
    ASSUME TypeOK, TypeOK', Carried
    PROVE  \A i, j \in DOMAIN Trail' : i <= j =>
             \E a, b \in DOMAIN Trail : a <= b /\ Trail[a] = Trail'[i] /\ Trail[b] = Trail'[j]
<1> DEFINE p == InPipe
           pn == InPipe'
           o == out
           on == out'
<1>1. p \in Seq(Operations) /\ o \in Seq(Operations) /\ Trail = o \o p
  BY InPipeType DEF TypeOK, TargetTypeOK, Trail
<1>2. Trail' = on \o pn
  BY DEF Trail
<1>3. Carried
  OBVIOUS
<1>4. CASE UNCHANGED <<InPipe, out>>
  <2>1. Trail' = Trail
    BY <1>1, <1>2, <1>4
  <2>2. DOMAIN Trail = 1..Len(Trail)
    BY InPipeType
  <2> QED BY <2>1, <2>2
<1>5. CASE Pipe!Arrive
  <2>1. p # <<>> /\ on = Append(o, Head(p)) /\ pn = Tail(p)
    BY <1>5 DEF Pipe!Arrive
  <2> HIDE DEF p, pn, o, on
  <2>2. on \o pn = o \o p
    BY <1>1, <2>1
  <2>3. Trail' = Trail
    BY <1>1, <1>2, <2>2
  <2>4. DOMAIN Trail = 1..Len(Trail)
    BY InPipeType
  <2> QED BY <2>3, <2>4
<1>6. CASE \E n \in 1..Len(InPipe) : Pipe!Lose(n)
  <2>1. PICK n \in 1..Len(p) : pn = SubSeq(p, n + 1, Len(p)) /\ on = o
    BY <1>6 DEF Pipe!Lose
  <2> HIDE DEF p, pn, o, on
  <2>2. /\ n \in Nat /\ Len(p) \in Nat /\ Len(o) \in Nat /\ n <= Len(p)
        /\ pn \in Seq(Operations) /\ Len(pn) = Len(p) - n
        /\ \A i \in 1..(Len(p) - n) : pn[i] = p[n + i]
    BY <1>1, <2>1
  <2>3. /\ DOMAIN Trail = 1..(Len(o) + Len(p)) /\ DOMAIN Trail' = 1..(Len(o) + (Len(p) - n))
        /\ \A i \in 1..Len(o) : Trail[i] = o[i] /\ Trail'[i] = o[i]
    <3>0. pn \in Seq(Operations)
      BY <2>2
    <3>1. /\ DOMAIN (o \o p) = 1..(Len(o) + Len(p))
          /\ \A i \in 1..Len(o) : (o \o p)[i] = o[i]
      BY <1>1, ConcatFacts
    <3>2. /\ DOMAIN (o \o pn) = 1..(Len(o) + Len(pn))
          /\ \A i \in 1..Len(o) : (o \o pn)[i] = o[i]
      BY <1>1, <3>0, ConcatFacts
    <3>4. Trail' = o \o pn
      BY <1>2, <2>1
    <3> QED BY <1>1, <2>2, <3>1, <3>2, <3>4, Zenon
  <2>4. ASSUME NEW i \in DOMAIN Trail'
        PROVE  \E a \in DOMAIN Trail : /\ Trail[a] = Trail'[i]
                                       /\ a = IF i <= Len(o) THEN i ELSE i + n
    <3>1. CASE i <= Len(o)
      BY <2>2, <2>3, <3>1
    <3>2. CASE ~(i <= Len(o))
      <4>1. i + n \in DOMAIN Trail /\ i - Len(o) \in 1..(Len(p) - n)
        BY <2>2, <2>3, <3>2
      <4>2. Trail'[i] = pn[i - Len(o)]
        BY <1>1, <1>2, <2>1, <2>2, <2>3, <3>2
      <4>3. Trail[i + n] = p[(i + n) - Len(o)]
        BY <1>1, <2>2, <2>3, <3>2, <4>1
      <4>4. pn[i - Len(o)] = p[n + (i - Len(o))] /\ n + (i - Len(o)) = (i + n) - Len(o)
        BY <2>2, <4>1
      <4> QED BY <3>2, <4>1, <4>2, <4>3, <4>4
    <3> QED BY <3>1, <3>2
  <2>5. SUFFICES ASSUME NEW i \in DOMAIN Trail', NEW j \in DOMAIN Trail', i <= j
                 PROVE  \E a, b \in DOMAIN Trail : a <= b /\ Trail[a] = Trail'[i] /\ Trail[b] = Trail'[j]
    OBVIOUS
  <2>6. PICK a \in DOMAIN Trail : Trail[a] = Trail'[i] /\ a = IF i <= Len(o) THEN i ELSE i + n
    BY <2>4
  <2>7. PICK b \in DOMAIN Trail : Trail[b] = Trail'[j] /\ b = IF j <= Len(o) THEN j ELSE j + n
    BY <2>4
  <2>8. a <= b
    BY <2>2, <2>3, <2>5, <2>6, <2>7
  <2> QED BY <2>6, <2>7, <2>8
<1> QED BY <1>3, <1>4, <1>5, <1>6 DEF Carried

\* Input and command lines on the trail were there before, in that order.
Watched(op) == op.what \in {"Data", "Exec"}
Inherits ==
    \A i, j \in DOMAIN Trail' : (i <= j /\ Watched(Trail'[i]) /\ Watched(Trail'[j])) =>
        \E a, b \in DOMAIN Trail : a <= b /\ Trail[a] = Trail'[i] /\ Trail[b] = Trail'[j]

\* So it is when nothing is handed over, or a minor operation.
LEMMA CarriedInherits ==
    ASSUME TypeOK, TypeOK', Carried
    PROVE  Inherits
BY CarriedOrder DEF Inherits

\* Handing over adds to the trail.
LEMMA HandsOverTrail ==
    ASSUME TypeOK, TypeOK', NEW op \in Operations, HandsOver(op)
    PROVE  /\ Trail' = Append(Trail, op) /\ DOMAIN Trail = 1..Len(Trail) /\ Len(Trail) \in Nat
           /\ DOMAIN Trail' = 1..(Len(Trail) + 1) /\ Trail'[Len(Trail) + 1] = op
           /\ \A i \in 1..Len(Trail) : Trail'[i] = Trail[i]
<1> DEFINE p == InPipe
           pn == InPipe'
<1>1. p \in Seq(Operations) /\ out \in Seq(Operations) /\ pn = Append(p, op) /\ out' = out
  BY InPipeType DEF TypeOK, TargetTypeOK, HandsOver
<1>2. Trail = out \o p /\ Trail' = out \o pn
  BY <1>1 DEF Trail
<1> HIDE DEF p, pn
<1>3. Append(out \o p, op) = out \o pn
  BY <1>1, ConcatAppend, Zenon
<1>4. Trail' = Append(Trail, op)
  BY <1>2, <1>3, Zenon
<1>5. Trail \in Seq(Operations)
  BY InPipeType
<1> QED BY <1>4, <1>5

\* Handing over an operation that is neither input nor a command line adds
\* nothing that the invariants on the Trail look at.
LEMMA MinorInherits ==
    ASSUME TypeOK, TypeOK', NEW op \in Operations, HandsOver(op), ~Watched(op)
    PROVE  Inherits
<1>1. /\ DOMAIN Trail = 1..Len(Trail) /\ Len(Trail) \in Nat
      /\ DOMAIN Trail' = 1..(Len(Trail) + 1) /\ Trail'[Len(Trail) + 1] = op
      /\ \A i \in 1..Len(Trail) : Trail'[i] = Trail[i]
  BY HandsOverTrail
<1>2. \A i \in DOMAIN Trail' : Watched(Trail'[i]) => i \in DOMAIN Trail /\ Trail'[i] = Trail[i]
  BY <1>1
<1> QED BY <1>2, Zenon DEF Inherits

\* Records and decisions are only added, so that what was justified stays so.
LEMMA ExecKept ==
    ASSUME ExecsJustified, Inherits, audit \subseteq audit', decided \subseteq decided',
           NEW n \in Nat, DOMAIN Trail' = 1..n
    PROVE  ExecsJustified'
<1> SUFFICES ASSUME NEW i \in DOMAIN Trail', Trail'[i].what = "Exec"
             PROVE  JustifiedBy(audit', decided', Trail'[i].arg)
  BY DEF ExecsJustified
<1>1. i <= i
  OBVIOUS
<1>2. PICK a \in DOMAIN Trail : Trail[a] = Trail'[i]
  BY <1>1 DEF Inherits, Watched
<1>3. JustifiedBy(audit, decided, Trail[a].arg)
  BY <1>2 DEF ExecsJustified
<1> DEFINE x == Trail[a].arg
<1>4. PICK r \in audit : /\ r.origin = "exec" /\ r.command = x
                         /\ r.outcome \in {"allowed", "approved", "degraded"}
                         /\ (r.outcome = "allowed" => evaluate(r.command) = "allow")
                         /\ (r.outcome = "approved" => <<r.command, "approved">> \in decided)
  BY <1>3, Zenon DEF JustifiedBy
<1>5. x = Trail'[i].arg
  BY <1>2
<1> HIDE DEF x
<1>6. r \in audit' /\ (r.outcome = "approved" => <<r.command, "approved">> \in decided')
  BY <1>4
<1>7. JustifiedBy(audit', decided', x)
  BY <1>4, <1>6, Zenon DEF JustifiedBy
<1> QED BY <1>5, <1>7

\* Channels only go forward, and a channel that is opened is a new one.
LEMMA InputKept ==
    ASSUME InputInv, Inherits, ChansGrow, NEW n \in Nat, DOMAIN Trail' = 1..n,
           req'.k \in Opens => (req' = req \/ cchan[req'.c] = "none")
    PROVE  InputInv'
<1> SUFFICES ASSUME NEW i \in DOMAIN Trail', Trail'[i].what = "Data"
             PROVE  /\ Trail'[i].c \in Chan /\ cchan'[Trail'[i].c] # "none"
                    /\ ~(req'.k \in Opens /\ Trail'[i].c = req'.c)
  BY DEF InputInv
<1>1. i <= i
  OBVIOUS
<1>2. PICK a \in DOMAIN Trail : Trail[a] = Trail'[i]
  BY <1>1 DEF Inherits, Watched
<1>3. /\ Trail'[i].c \in Chan /\ cchan[Trail'[i].c] # "none"
      /\ ~(req.k \in Opens /\ Trail'[i].c = req.c)
  BY <1>2 DEF InputInv
<1> QED BY <1>3 DEF ChansGrow

\* What the session remembers of a line it keeps until it forgets the channel.
LinesKept ==
    \A c \in s'.map : \/ c \in s.map /\ ("bad" \in s.line[c] => "bad" \in s'.line[c])
                      \/ req.k \in Opens /\ c = req.c
                      \/ c \in ForwardedChans

\* A step that inherits the Trail and keeps the held lines keeps LineInv.
LEMMA LineKept ==
    ASSUME LineInv, InputInv, Inherits, audit \subseteq audit', Strict' => LinesKept,
           NEW n \in Nat, DOMAIN Trail' = 1..n
    PROVE  LineInv'
<1> SUFFICES ASSUME Strict', NEW i \in DOMAIN Trail', Bad(Trail'[i]), Trail'[i].c \in ShellChans
             PROVE  /\ Trail'[i].c \in s'.map => "bad" \in s'.line[Trail'[i].c]
                    /\ \A j \in DOMAIN Trail' : (i <= j /\ Trail'[j].c = Trail'[i].c) => ~Ends(Trail'[j])
  BY DEF LineInv
<1>1. Strict
  BY DEF Strict
<1>2. i <= i /\ Trail'[i].what = "Data"
  BY DEF Bad
<1>3. PICK a \in DOMAIN Trail : Trail[a] = Trail'[i]
  BY <1>2 DEF Inherits, Watched
<1> DEFINE c == Trail'[i].c
<1>4. (c \in s.map => "bad" \in s.line[c]) /\ ~(req.k \in Opens /\ c = req.c) /\ c \notin ForwardedChans
  BY <1>1, <1>2, <1>3, SshAssumption DEF LineInv, InputInv
<1>5. c \in s'.map => "bad" \in s'.line[c]
  BY <1>4 DEF LinesKept
<1>6. ASSUME NEW j \in DOMAIN Trail', i <= j, Trail'[j].c = c, Ends(Trail'[j]) PROVE FALSE
  <2>1. Watched(Trail'[i]) /\ Watched(Trail'[j])
    BY <1>2, <1>6 DEF Watched, Ends
  <2>2. PICK x, y \in DOMAIN Trail : x <= y /\ Trail[x] = Trail'[i] /\ Trail[y] = Trail'[j]
    BY <1>6, <2>1 DEF Inherits
  <2>3. Bad(Trail[x]) /\ Trail[x].c \in ShellChans /\ Trail[y].c = Trail[x].c /\ Ends(Trail[y])
    BY <1>6, <2>2
  <2> QED BY <1>1, <2>2, <2>3 DEF LineInv
<1> QED BY <1>5, <1>6

----------------------------------------------------------------------------
(* Every step keeps the inductive invariant and is one of the pipe.         *)

\* The request with an answer, or none.
LEMMA RequestKept ==
    ASSUME TypeOK, RequestInv, UNCHANGED <<audit, review, decided>>, pc \in {"idle", "wait"},
           pc' \in {"idle", "wait"}, req' \in {req, NoReq}, ChansGrow
    PROVE  RequestInv'
<1>1. review' = "none" /\ pc' \notin {"data", "review", "late"}
  BY DEF RequestInv
<1>2. CASE req' = NoReq
  BY <1>1, <1>2 DEF RequestInv, NoReq, Opens
<1>3. CASE req' = req
  <2>1. req.k \in Opens \cup {"Data"} => cchan'[req.c] # "none"
    <3>1. req.k \in Opens \cup {"Data"} => req.c \in Chan /\ cchan[req.c] # "none"
      BY DEF RequestInv, Opens
    <3> QED BY <3>1 DEF ChansGrow
  <2> QED BY <1>1, <1>3, <2>1 DEF RequestInv
<1> QED BY <1>2, <1>3

\* The commands waiting, after a step of the session.
LEMMA QueueHands ==
    ASSUME TypeOK, QueueStep, UNCHANGED <<rc, out>>
    PROVE  /\ rcq' \in Seq(CommandType)
           /\ \/ UNCHANGED <<InPipe, out>>
              \/ \E op \in Operations : ~Watched(op) /\ HandsOver(op)
<1>1. ASSUME NEW cmd \in CommandType, Minor(cmd), Enqueues(cmd)
      PROVE  /\ rcq' \in Seq(CommandType)
             /\ \/ UNCHANGED <<InPipe, out>>
                \/ \E op \in Operations : ~Watched(op) /\ HandsOver(op)
  <2>1. /\ rcq' \in Seq(CommandType)
        /\ UNCHANGED <<InPipe, out>> \/ (cmd.kind = "channel" /\ HandsOver(cmd.op))
    BY <1>1, EnqueueHands
  <2>2. cmd.op \in Operations /\ (cmd.kind = "channel" => ~Watched(cmd.op))
    BY <1>1 DEF CommandType, Minor, Watched
  <2> QED BY <2>1, <2>2, Zenon
<1>2. CASE rcq' = [i \in DOMAIN rcq |-> [rcq[i] EXCEPT !.wait = FALSE]]
  <2>1. rcq' \in Seq(CommandType) /\ ChannelOps(rcq') = ChannelOps(rcq)
    BY <1>2, OpsUnwaited DEF TypeOK, RemoteTypeOK
  <2>2. UNCHANGED <<InPipe, out>>
    BY <2>1 DEF InPipe
  <2> QED BY <2>1, <2>2
<1> QED BY <1>1, <1>2 DEF QueueStep

\* The length of the trail, as the lemmas above want it.
LEMMA TrailDomain ==
    TypeOK' => \E n \in Nat : DOMAIN Trail' = 1..n
<1>1. TypeOK => \E n \in Nat : DOMAIN Trail = 1..n
  <2> SUFFICES ASSUME TypeOK PROVE \E n \in Nat : DOMAIN Trail = 1..n
    OBVIOUS
  <2>1. Len(Trail) \in Nat /\ DOMAIN Trail = 1..Len(Trail)
    BY InPipeType
  <2> QED BY <2>1
<1>2. TypeOK' => (\E n \in Nat : DOMAIN Trail = 1..n)'
  BY <1>1, PTL
<1> QED BY <1>2

\* A step of the session that hands over neither input nor a command line.
LEMMA SideKeeps ==
    ASSUME IndInv, SideStep
    PROVE  IndInv' /\ Piped
<1>1. TypeOK /\ RequestInv /\ RemoteInv /\ ExecInv /\ InputInv /\ LineInv
  BY DEF IndInv
<1>2. /\ UNCHANGED <<rc, out, audit, review, decided>> /\ pc \in {"idle", "wait"}
      /\ pc' \in {"idle", "wait"} /\ req' \in {req, NoReq} /\ ChansGrow /\ MapStep(s')
      /\ QueueStep /\ EventsTaken
  BY DEF SideStep
<1>3. rcq' \in Seq(CommandType)
  BY <1>1, <1>2, QueueHands
<1>4. TypeOK'
  BY <1>1, <1>2, <1>3 DEF TypeOK, ClientTypeOK, SessionTypeOK, RemoteTypeOK, TargetTypeOK,
                          ChansGrow, MapStep, EventsTaken
<1>5. RequestInv'
  BY <1>1, <1>2, RequestKept
<1>6. RemoteInv'
  BY <1>1, <1>2 DEF RemoteInv, EventsTaken
<1>7. Inherits /\ Piped
  <2>1. CASE UNCHANGED <<InPipe, out>>
    BY <1>1, <1>4, <2>1, CarriedInherits DEF Carried, Piped
  <2>2. CASE \E op \in Operations : ~Watched(op) /\ HandsOver(op)
    BY <1>1, <1>4, <2>2, MinorInherits DEF Piped
  <2> QED BY <1>1, <1>2, <2>1, <2>2, QueueHands
<1>8. PICK n \in Nat : DOMAIN Trail' = 1..n
  BY <1>4, TrailDomain
<1>9. ExecInv'
  <2>1. ExecsJustified'
    BY <1>1, <1>2, <1>7, <1>8, ExecKept DEF ExecInv
  <2> QED BY <1>1, <1>2, <2>1 DEF ExecInv, RecordedOnce
<1>10. InputInv'
  BY <1>1, <1>2, <1>7, <1>8, InputKept DEF NoReq, Opens
<1>11. LineInv'
  <2>1. LinesKept
    BY <1>2 DEF MapStep, LinesKept
  <2> QED BY <1>1, <1>2, <1>7, <1>8, <2>1, LineKept
<1> QED BY <1>4, <1>5, <1>6, <1>7, <1>9, <1>10, <1>11 DEF IndInv

\* A step that hands nothing over.
LEMMA CarriedKeeps ==
    ASSUME IndInv, TypeOK', RequestInv', RemoteInv', RecordedOnce', Carried,
           audit \subseteq audit', decided \subseteq decided', ChansGrow, Strict' => LinesKept,
           req'.k \in Opens => (req' = req \/ cchan[req'.c] = "none")
    PROVE  IndInv' /\ Piped
<1>1. TypeOK /\ RequestInv /\ RemoteInv /\ ExecInv /\ InputInv /\ LineInv
  BY DEF IndInv
<1>2. Inherits
  BY <1>1, CarriedInherits
<1>3. PICK n \in Nat : DOMAIN Trail' = 1..n
  BY TrailDomain
<1>4. ExecInv'
  <2>1. ExecsJustified'
    BY <1>1, <1>2, <1>3, ExecKept DEF ExecInv
  <2> QED BY <2>1 DEF ExecInv
<1>5. InputInv'
  BY <1>1, <1>2, <1>3, InputKept
<1>6. LineInv'
  BY <1>1, <1>2, <1>3, LineKept
<1> QED BY <1>4, <1>5, <1>6 DEF IndInv, Piped

\* A step that hands over an operation: a command line that is justified,
\* input of a channel that is open, no end of a line with a blocked command.
LEMMA HandedKeeps ==
    ASSUME IndInv, TypeOK', RequestInv', RemoteInv', RecordedOnce', NEW op \in Operations,
           HandsOver(op), audit \subseteq audit', decided \subseteq decided', ChansGrow,
           Strict' => LinesKept, req' = NoReq,
           op.what = "Exec" => JustifiedBy(audit', decided', op.arg),
           op.what = "Data" => op.c \in Chan /\ cchan'[op.c] # "none",
           Strict' /\ Bad(op) => ~Ends(op) /\ (op.c \in s'.map => "bad" \in s'.line[op.c]),
           Strict' /\ Ends(op) => op.c \in s.map /\ "bad" \notin s.line[op.c]
    PROVE  IndInv' /\ Piped
<1>1. TypeOK /\ RequestInv /\ RemoteInv /\ ExecInv /\ InputInv /\ LineInv
  BY DEF IndInv
<1>2. /\ DOMAIN Trail = 1..Len(Trail) /\ Len(Trail) \in Nat
      /\ DOMAIN Trail' = 1..(Len(Trail) + 1) /\ Trail'[Len(Trail) + 1] = op
      /\ \A i \in 1..Len(Trail) : Trail'[i] = Trail[i]
  BY <1>1, HandsOverTrail
<1> DEFINE m == Len(Trail) + 1
<1>3. ASSUME NEW i \in DOMAIN Trail'
      PROVE  \/ i \in DOMAIN Trail /\ Trail'[i] = Trail[i]
             \/ i = m /\ Trail'[i] = op
  BY <1>2
<1>4. ExecInv'
  <2>1. ASSUME NEW i \in DOMAIN Trail', Trail'[i].what = "Exec"
        PROVE  JustifiedBy(audit', decided', Trail'[i].arg)
    <3>1. CASE i \in DOMAIN Trail /\ Trail'[i] = Trail[i]
      <4> DEFINE x == Trail[i].arg
      <4>1. JustifiedBy(audit, decided, x)
        BY <1>1, <2>1, <3>1 DEF ExecInv, ExecsJustified
      <4> HIDE DEF x
      <4>2. PICK r \in audit : /\ r.origin = "exec" /\ r.command = x
                               /\ r.outcome \in {"allowed", "approved", "degraded"}
                               /\ (r.outcome = "allowed" => evaluate(r.command) = "allow")
                               /\ (r.outcome = "approved" => <<r.command, "approved">> \in decided)
        BY <4>1, Zenon DEF JustifiedBy
      <4>3. r \in audit' /\ (r.outcome = "approved" => <<r.command, "approved">> \in decided')
        BY <4>2
      <4>4. JustifiedBy(audit', decided', x)
        BY <4>2, <4>3, Zenon DEF JustifiedBy
      <4> QED BY <3>1, <4>4 DEF x
    <3>2. CASE Trail'[i] = op
      BY <2>1, <3>2
    <3> QED BY <1>3, <3>1, <3>2
  <2> QED BY <2>1 DEF ExecInv, ExecsJustified
<1>5. InputInv'
  <2>1. ASSUME NEW i \in DOMAIN Trail', Trail'[i].what = "Data"
        PROVE  Trail'[i].c \in Chan /\ cchan'[Trail'[i].c] # "none"
    <3>1. CASE i \in DOMAIN Trail /\ Trail'[i] = Trail[i]
      BY <1>1, <2>1, <3>1 DEF InputInv, ChansGrow
    <3>2. CASE Trail'[i] = op
      BY <2>1, <3>2
    <3> QED BY <1>3, <3>1, <3>2
  <2>2. req'.k \notin Opens
    BY DEF NoReq, Opens
  <2> QED BY <2>1, <2>2 DEF InputInv
<1>6. LineInv'
  <2> SUFFICES ASSUME Strict', NEW i \in DOMAIN Trail', Bad(Trail'[i]), Trail'[i].c \in ShellChans
               PROVE  /\ Trail'[i].c \in s'.map => "bad" \in s'.line[Trail'[i].c]
                      /\ \A j \in DOMAIN Trail' : (i <= j /\ Trail'[j].c = Trail'[i].c) => ~Ends(Trail'[j])
    BY DEF LineInv
  <2>1. Strict
    BY DEF Strict
  <2>2. CASE i \in DOMAIN Trail /\ Trail'[i] = Trail[i]
    <3> DEFINE c == Trail[i].c
    <3>1. /\ c \in s.map => "bad" \in s.line[c]
          /\ \A j \in DOMAIN Trail : (i <= j /\ Trail[j].c = c) => ~Ends(Trail[j])
      BY <1>1, <2>1, <2>2 DEF LineInv
    <3>2. ~(req.k \in Opens /\ c = req.c) /\ c \notin ForwardedChans
      BY <1>1, <2>2, SshAssumption DEF InputInv, Bad
    <3>3. c \in s'.map => "bad" \in s'.line[c]
      BY <3>1, <3>2 DEF LinesKept
    <3>4. ASSUME NEW j \in DOMAIN Trail', i <= j, Trail'[j].c = c, Ends(Trail'[j]) PROVE FALSE
      <4>1. CASE j \in DOMAIN Trail /\ Trail'[j] = Trail[j]
        BY <3>1, <3>4, <4>1
      <4>2. CASE Trail'[j] = op
        BY <3>1, <3>4, <4>2
      <4> QED BY <1>3, <4>1, <4>2
    <3> QED BY <2>2, <3>3, <3>4
  <2>3. CASE i = m /\ Trail'[i] = op
    <3>1. \A j \in DOMAIN Trail' : i <= j => j = i
      BY <1>2, <2>3
    <3> QED BY <2>3, <3>1
  <2> QED BY <1>3, <2>2, <2>3
<1> QED BY <1>4, <1>5, <1>6 DEF IndInv, Piped

\* The session is free again.
LEMMA RequestOver ==
    ASSUME pc' \notin {"data", "review", "late"}, review' = "none", req' = NoReq
    PROVE  RequestInv'
BY DEF RequestInv, NoReq, Opens

\* Input arrives: forgotten, answered by a disconnect, or to be looked at.
LEMMA DataKeeps ==
    ASSUME IndInv, _data
    PROVE  IndInv' /\ Piped
<1>0. TypeOK /\ RequestInv /\ RemoteInv /\ ExecInv
  BY DEF IndInv
<1>1. Handles("Data") /\ pc = "idle" /\ req.k = "Data"
  BY DEF _data, Handles
<1>2. CASE Unmapped
  BY <1>0, <1>1, <1>2, UnmappedIsSide, SideKeeps
<1>3. CASE request_disconnect(s) /\ Answer(TRUE) /\ UNCHANGED <<s, pc, prompt, reply, audit, review>>
  <2>1. QueueStep /\ MapStep(s') /\ ChansGrow /\ req' = NoReq
    BY <1>0, <1>3, DisconnectIsMinor, NothingMoves, AnswerGrows
  <2>2. SideStep
    BY <1>0, <1>1, <1>3, <2>1, HandlerIsSide
  <2> QED BY <2>2, SideKeeps
<1>4. CASE Mapped /\ pc' = "data" /\ UNCHANGED <<cchan, s, req, reply, rcq, abort, audit, review>>
  <2>1. UNCHANGED <<rc, out, ev, decided>>
    BY <1>1 DEF Handles, target
  <2>2. TypeOK'
    BY <1>0, <1>4, <2>1 DEF TypeOK, ClientTypeOK, SessionTypeOK, RemoteTypeOK, TargetTypeOK
  <2>3. RequestInv' /\ RemoteInv' /\ RecordedOnce'
    BY <1>0, <1>1, <1>4, <2>1 DEF RequestInv, RemoteInv, ExecInv, RecordedOnce, Mapped, Opens
  <2>4. UNCHANGED <<InPipe, out>>
    BY <1>4, <2>1 DEF InPipe
  <2>5. ChansGrow /\ LinesKept
    BY <1>0, <1>4, NothingMoves DEF LinesKept
  <2> QED BY <1>4, <2>1, <2>2, <2>3, <2>4, <2>5, CarriedKeeps DEF Carried
<1> QED BY <1>2, <1>3, <1>4 DEF _data

\* The chunk as it is handed over, with what the session keeps of its line.
LEMMA ForwardDataKeeps ==
    ASSUME IndInv, pc = "data", pc' = "idle", NEW ss \in SessionType, ForwardData(ss), ss.map = s.map,
           \A x \in Chan : x # req.c => ss.line[x] = s.line[x],
           UNCHANGED <<rc, out, ev, review, decided>>, audit \subseteq audit', RecordedOnce',
           Strict' /\ req.c \in s.pty /\ req.arg.nl
             => "bad" \notin s.line[req.c] /\ req.arg.text # "bad",
           ~(req.c \in s.pty /\ req.arg.nl) =>
             /\ "bad" \in s.line[req.c] => "bad" \in ss.line[req.c]
             /\ req.c \in s.pty /\ req.arg.text = "bad" => "bad" \in ss.line[req.c]
    PROVE  IndInv' /\ Piped
<1>0. TypeOK /\ RequestInv /\ RemoteInv /\ s \in SessionType
  BY DEF IndInv, TypeOK, SessionTypeOK
<1>1. req.k = "Data" /\ req.c \in Chan /\ req.c \in s.map /\ req.arg \in Chunk /\ cchan[req.c] # "none"
  BY <1>0 DEF RequestInv
<1> DEFINE arg == [req.arg EXCEPT !.pty = req.c \in s.pty]
           op == Op(req.c, "Data", arg)
           cmd == Cmd(op, FALSE)
<1>2. /\ arg \in Chunk /\ arg.text = req.arg.text /\ arg.nl = req.arg.nl
      /\ arg.pty <=> req.c \in s.pty
  <2> DEFINE there == req.c \in s.pty
  <2>1. there \in BOOLEAN
    OBVIOUS
  <2> HIDE DEF there
  <2>2. PICK d \in Chunk : d = req.arg
    BY <1>1
  <2>3. arg = [d EXCEPT !.pty = there]
    BY <2>2, Zenon DEF there
  <2>4. arg \in Chunk /\ arg.text = d.text /\ arg.nl = d.nl /\ arg.pty = there
    BY <2>1, <2>3 DEF Chunk
  <2> QED BY <2>2, <2>4, Zenon DEF there
<1> HIDE DEF arg
<1>3. op \in Operations /\ op.what = "Data" /\ op.c = req.c /\ op.arg = arg
  <2>1. arg \in Arguments /\ "Data" \in What \cup Plains /\ req.c \in Chan \cup {"-"}
    BY <1>1, <1>2 DEF Arguments, What
  <2> QED BY <2>1, OpType
<1>4. send_command(cmd) /\ s' = ss /\ Answer(TRUE)
  BY DEF ForwardData, arg
<1> HIDE DEF op
<1>5. cmd \in CommandType /\ cmd.kind = "channel" /\ cmd.op = op
  BY <1>3, CmdType
<1> HIDE DEF cmd
<1>6. rcq' \in Seq(CommandType) /\ (UNCHANGED <<InPipe, out>> \/ HandsOver(op))
  <2>1. Enqueues(cmd)
    BY <1>0, <1>4, <1>5, SendsEffect DEF send_command, Enqueues, TypeOK, RemoteTypeOK
  <2> QED BY <1>0, <1>5, <2>1, EnqueueHands
<1>7. ChansGrow /\ req' = NoReq
  BY <1>0, <1>4, AnswerGrows
<1>8. TypeOK'
  BY <1>0, <1>4, <1>6, <1>7 DEF TypeOK, ClientTypeOK, SessionTypeOK, RemoteTypeOK, TargetTypeOK,
                                ChansGrow
<1>9. RequestInv' /\ RemoteInv'
  <2>1. review' = "none"
    BY <1>0 DEF RequestInv
  <2> QED BY <1>0, <1>7, <2>1, RequestOver DEF RemoteInv
<1>10. Strict' => LinesKept
  <2> SUFFICES ASSUME Strict', NEW x \in s'.map
               PROVE  x \in s.map /\ ("bad" \in s.line[x] => "bad" \in s'.line[x])
    BY DEF LinesKept
  <2>1. x \in Chan /\ x \in s.map
    BY <1>0, <1>4 DEF SessionType
  <2>2. CASE x # req.c
    BY <1>4, <2>1, <2>2
  <2>3. CASE x = req.c
    BY <1>4, <2>1, <2>3
  <2> QED BY <2>2, <2>3
<1>11. CASE UNCHANGED <<InPipe, out>>
  BY <1>7, <1>8, <1>9, <1>10, <1>11, CarriedKeeps DEF Carried, NoReq, Opens
<1>12. CASE HandsOver(op)
  <2>1. op.what # "Exec" /\ op.c \in Chan /\ cchan'[op.c] # "none"
    BY <1>1, <1>3, <1>7 DEF ChansGrow
  <2>2. Strict' /\ Bad(op) => ~Ends(op) /\ (op.c \in s'.map => "bad" \in s'.line[op.c])
    BY <1>2, <1>3, <1>4 DEF Bad, Ends
  <2>3. Strict' /\ Ends(op) => op.c \in s.map /\ "bad" \notin s.line[op.c]
    BY <1>1, <1>2, <1>3 DEF Ends
  <2> QED BY <1>3, <1>7, <1>8, <1>9, <1>10, <1>12, <2>1, <2>2, <2>3, HandedKeeps
<1> QED BY <1>6, <1>11, <1>12

\* A record of a typed line leaves those of the command lines alone.
LEMMA PtyRecords ==
    ASSUME RecordedOnce, NEW command, NEW outcome, record_shell_command("pty", command, outcome)
    PROVE  RecordedOnce' /\ audit \subseteq audit'
<1> DEFINE r == [origin |-> "pty", command |-> command, outcome |-> outcome]
<1>1. audit' = audit \cup {r} /\ r.origin # "exec"
  BY DEF record_shell_command
<1> QED BY <1>1 DEF RecordedOnce

\* A channel that is denied is forgotten.
LEMMA DenyEffect ==
    ASSUME TypeOK, NEW c \in Chan, deny_command_channel(c)
    PROVE  MapStep(s') /\ ChansGrow /\ req' = NoReq
<1>1. s' = remove_channel(s, c) /\ Answered(TRUE, ClosedBy(s, {c}))
  BY DEF deny_command_channel
<1> DEFINE chans == ClosedBy(s, {c})
<1>2. chans \in [Chan -> ChanStates] /\ \A x \in Chan : cchan[x] # "none" => chans[x] # "none"
  <2>1. cchan \in [Chan -> ChanStates]
    BY DEF TypeOK, ClientTypeOK
  <2>2. ASSUME NEW x \in Chan PROVE chans[x] \in {"closed", cchan[x]}
    BY DEF ClosedBy
  <2>3. chans = [x \in Chan |-> chans[x]]
    BY DEF ClosedBy
  <2> HIDE DEF chans
  <2> QED BY <2>1, <2>2, <2>3 DEF ChanStates
<1> HIDE DEF chans
<1>3. Answered(TRUE, chans)
  BY <1>1 DEF chans
<1> QED BY <1>1, <1>2, <1>3, AnsweredGrows, ForgetsAreMapSteps

\* Looking at a line leaves a record, or none for an empty line.
LEMMA ConsultRecords ==
    ASSUME RecordedOnce, NEW line, NEW outcome, consult_command_acl(line, outcome)
    PROVE  RecordedOnce' /\ audit \subseteq audit'
<1>1. CASE line = {}
  BY <1>1 DEF consult_command_acl, RecordedOnce
<1>2. CASE line # {}
  BY <1>2, PtyRecords DEF consult_command_acl
<1> QED BY <1>1, <1>2

\* The chunk is withheld, forwarded, or ends a line that is denied.
LEMMA DataForwardedKeeps ==
    ASSUME IndInv, DataForwarded
    PROVE  IndInv' /\ Piped
<1> DEFINE c == req.c
           line == filter_pty_input(c, req.arg)
<1>0. TypeOK /\ RequestInv /\ RemoteInv /\ RecordedOnce /\ s \in SessionType
  BY DEF IndInv, ExecInv, TypeOK, SessionTypeOK
<1>1. /\ pc = "data" /\ pc' = "idle" /\ UNCHANGED <<rc, out, ev, review, decided>>
  BY DEF DataForwarded, target
<1>2. c \in Chan /\ req.arg \in Chunk /\ review' = "none"
  BY <1>0, <1>1 DEF RequestInv
<1>3. line = s.line[c] \cup ({req.arg.text} \ {"none"}) /\ line \in SUBSET STRING
  <2>1. s.line[c] \in SUBSET STRING /\ req.arg.text \in STRING
    BY <1>0, <1>2 DEF SessionType, Chunk
  <2> QED BY <2>1 DEF filter_pty_input, LineWith
<1> HIDE DEF line
<1>4. ASSUME rcq' = rcq, req' = NoReq, ChansGrow, MapStep(s'), RecordedOnce', audit \subseteq audit'
      PROVE  IndInv' /\ Piped
  <2>1. TypeOK'
    BY <1>0, <1>1, <1>4 DEF TypeOK, ClientTypeOK, SessionTypeOK, RemoteTypeOK, TargetTypeOK,
                            ChansGrow, MapStep
  <2>2. RequestInv' /\ RemoteInv'
    BY <1>0, <1>1, <1>2, <1>4, RequestOver DEF RemoteInv
  <2>3. UNCHANGED <<InPipe, out>>
    BY <1>1, <1>4 DEF InPipe
  <2>4. LinesKept
    BY <1>4 DEF MapStep, LinesKept
  <2> QED BY <1>1, <1>4, <2>1, <2>2, <2>3, <2>4, CarriedKeeps DEF Carried, NoReq, Opens
<1>5. CASE Answer(TRUE) /\ UNCHANGED <<s, rcq, audit>>
  <2>1. RecordedOnce' /\ MapStep(s') /\ ChansGrow /\ req' = NoReq
    BY <1>0, <1>5, NothingMoves, AnswerGrows DEF RecordedOnce
  <2> QED BY <1>4, <1>5, <2>1
<1>6. CASE c \notin s.pty /\ ForwardData(s) /\ UNCHANGED audit
  <2>1. RecordedOnce'
    BY <1>0, <1>6 DEF RecordedOnce
  <2> QED BY <1>0, <1>1, <1>6, <2>1, ForwardDataKeeps
<1>7. CASE c \in s.pty /\ ~req.arg.nl /\ ForwardData([s EXCEPT !.line[c] = line]) /\ UNCHANGED audit
  <2>0. PICK ss : ss = [s EXCEPT !.line[c] = line]
    OBVIOUS
  <2>1. RecordedOnce'
    BY <1>0, <1>7 DEF RecordedOnce
  <2>2. /\ ss \in SessionType /\ ss.map = s.map /\ ss.line[c] = line
        /\ \A x \in Chan : x # c => ss.line[x] = s.line[x]
    <3>1. line \in SUBSET STRING /\ TypeOK /\ c \in Chan
      BY <1>0, <1>2, <1>3
    <3> QED BY <2>0, <3>1 DEF TypeOK, SessionTypeOK, SessionType
  <2>3. ForwardData(ss)
    BY <1>7, <2>0
  <2>4. /\ "bad" \in s.line[c] => "bad" \in ss.line[c]
        /\ req.arg.text = "bad" => "bad" \in ss.line[c]
    BY <1>3, <2>2
  <2> QED BY <1>1, <1>7, <2>1, <2>2, <2>3, <2>4, ForwardDataKeeps
<1>8. ASSUME c \in s.pty, req.arg.nl, ForwardData([s EXCEPT !.line[c] = {}]), RecordedOnce',
             audit \subseteq audit', Strict' => "bad" \notin line
      PROVE  IndInv' /\ Piped
  <2>0. PICK ss : ss = [s EXCEPT !.line[c] = {}]
    OBVIOUS
  <2>1. /\ ss \in SessionType /\ ss.map = s.map
        /\ \A x \in Chan : x # c => ss.line[x] = s.line[x]
    BY <1>0, <1>2, <2>0 DEF SessionType
  <2>2. ForwardData(ss)
    BY <1>8, <2>0
  <2>3. Strict' => "bad" \notin s.line[c] /\ req.arg.text # "bad"
    BY <1>3, <1>8
  <2> QED BY <1>1, <1>8, <2>1, <2>2, <2>3, ForwardDataKeeps
<1>9. CASE /\ c \in s.pty /\ req.arg.nl /\ apply_acl_decision(Verdict(line))
           /\ consult_command_acl(line, acl_outcome_label(Verdict(line)))
           /\ ForwardData([s EXCEPT !.line[c] = {}])
  <2>1. RecordedOnce' /\ audit \subseteq audit'
    BY <1>0, <1>9, ConsultRecords
  <2>2. Strict' => "bad" \notin line
    BY <1>9 DEF Strict, apply_acl_decision, Verdict
  <2> QED BY <1>8, <1>9, <2>1, <2>2
<1>10. CASE /\ c \in s.pty /\ req.arg.nl
            /\ record_shell_command("pty", IF "bad" \in line THEN Line ELSE "other", "degraded")
            /\ ForwardData([s EXCEPT !.line[c] = {}])
  <2>1. RecordedOnce' /\ audit \subseteq audit'
    BY <1>0, <1>10, PtyRecords
  <2>2. Strict' => "bad" \notin line
    BY <1>10 DEF Strict, record_shell_command
  <2> QED BY <1>8, <1>10, <2>1, <2>2
<1>11. CASE /\ consult_command_acl(line, acl_outcome_label(Verdict(line)))
            /\ deny_command_channel(c) /\ UNCHANGED rcq
  <2>1. RecordedOnce' /\ audit \subseteq audit' /\ MapStep(s') /\ ChansGrow /\ req' = NoReq
    BY <1>0, <1>2, <1>11, ConsultRecords, DenyEffect
  <2> QED BY <1>4, <1>11, <2>1
<1> QED BY <1>5, <1>6, <1>7, <1>9, <1>10, <1>11, Zenon DEF DataForwarded, line

\* A command line has one record, written when its request is decided.
LEMMA ExecRecords ==
    ASSUME RecordedOnce, \A a \in audit : a.command # req.arg, NEW outcome,
           record_shell_command("exec", req.arg, outcome)
    PROVE  RecordedOnce' /\ audit \subseteq audit'
<1> DEFINE r == [origin |-> "exec", command |-> req.arg, outcome |-> outcome]
<1>1. audit' = audit \cup {r} /\ r.command = req.arg
  BY DEF record_shell_command
<1> HIDE DEF r
<1> QED BY <1>1 DEF RecordedOnce

\* The request of a command line, forwarded or denied.
LEMMA ExecEndsKeep ==
    ASSUME IndInv, req.k = "Exec", review' = "none", UNCHANGED <<rc, out, ev, decided>>,
           NEW outcome,
           \/ /\ ExecForwarded(outcome) /\ outcome \in {"allowed", "approved", "degraded"}
              /\ outcome = "allowed" => evaluate(req.arg) = "allow"
              /\ outcome = "approved" => <<req.arg, "approved">> \in decided
           \/ ExecDenied(outcome)
    PROVE  IndInv' /\ Piped
<1>0. TypeOK /\ RequestInv /\ RemoteInv /\ RecordedOnce /\ s \in SessionType
  BY DEF IndInv, ExecInv, TypeOK, SessionTypeOK
<1>1. req.c \in Chan /\ req.arg \in Commands /\ \A a \in audit : a.command # req.arg
  BY <1>0 DEF RequestInv
<1>2. record_shell_command("exec", req.arg, outcome) /\ pc' = "idle"
  BY DEF ExecForwarded, ExecDenied
<1>3. RecordedOnce' /\ audit \subseteq audit'
  BY <1>0, <1>1, <1>2, ExecRecords
<1>4. ASSUME rcq' \in Seq(CommandType), req' = NoReq, ChansGrow, MapStep(s')
      PROVE  TypeOK' /\ RequestInv' /\ RemoteInv' /\ LinesKept
  <2>1. TypeOK'
    BY <1>0, <1>2, <1>4 DEF TypeOK, ClientTypeOK, SessionTypeOK, RemoteTypeOK, TargetTypeOK,
                            ChansGrow, MapStep
  <2>2. RequestInv' /\ RemoteInv'
    BY <1>0, <1>2, <1>4, RequestOver DEF RemoteInv
  <2> QED BY <1>4, <2>1, <2>2 DEF MapStep, LinesKept
<1>5. CASE ExecDenied(outcome)
  <2>1. rcq' = rcq /\ MapStep(s') /\ ChansGrow /\ req' = NoReq /\ rcq' \in Seq(CommandType)
    BY <1>0, <1>1, <1>5, DenyEffect DEF ExecDenied, TypeOK, RemoteTypeOK
  <2>2. UNCHANGED <<InPipe, out>>
    BY <2>1 DEF InPipe
  <2> QED BY <1>3, <1>4, <2>1, <2>2, CarriedKeeps DEF Carried, NoReq, Opens
<1>6. CASE /\ ExecForwarded(outcome) /\ outcome \in {"allowed", "approved", "degraded"}
           /\ outcome = "allowed" => evaluate(req.arg) = "allow"
           /\ outcome = "approved" => <<req.arg, "approved">> \in decided
  <2> DEFINE op == Op(req.c, "Exec", req.arg)
             cmd == Cmd(op, FALSE)
  <2>1. maybe_connect_remote(s, cmd) /\ req' = NoReq
    BY <1>6 DEF ExecForwarded
  <2>2. op \in Operations /\ op.what = "Exec" /\ op.arg = req.arg
    <3>1. req.arg \in Arguments /\ "Exec" \in What \cup Plains /\ req.c \in Chan \cup {"-"}
      BY <1>1 DEF Arguments, What
    <3> QED BY <3>1, OpType
  <2> HIDE DEF op
  <2>3. cmd \in CommandType /\ cmd.kind = "channel" /\ cmd.op = op
    BY <2>2, CmdType
  <2> HIDE DEF cmd
  <2>4. MapStep(s') /\ Enqueues(cmd) /\ ChansGrow
    BY <1>0, <2>1, <2>3, NothingMoves, ConnectEffect
  <2>5. rcq' \in Seq(CommandType) /\ (UNCHANGED <<InPipe, out>> \/ HandsOver(op))
    BY <1>0, <2>3, <2>4, EnqueueHands
  <2>6. TypeOK' /\ RequestInv' /\ RemoteInv' /\ LinesKept
    BY <1>4, <2>1, <2>4, <2>5
  <2>7. CASE UNCHANGED <<InPipe, out>>
    BY <1>3, <2>1, <2>4, <2>6, <2>7, CarriedKeeps DEF Carried, NoReq, Opens
  <2>8. CASE HandsOver(op)
    <3>1. JustifiedBy(audit', decided', op.arg)
      <4> DEFINE r == [origin |-> "exec", command |-> req.arg, outcome |-> outcome]
      <4>1. r \in audit'
        BY <1>2 DEF record_shell_command
      <4>2. r.origin = "exec" /\ r.command = req.arg /\ r.outcome = outcome
        OBVIOUS
      <4> HIDE DEF r
      <4> QED BY <1>6, <2>2, <4>1, <4>2 DEF JustifiedBy
    <3>2. op.what # "Data" /\ ~Bad(op) /\ ~Ends(op)
      BY <2>2 DEF Bad, Ends
    <3> QED BY <1>3, <2>1, <2>2, <2>4, <2>6, <2>8, <3>1, <3>2, HandedKeeps
  <2> QED BY <2>5, <2>7, <2>8
<1> QED BY <1>5, <1>6

\* A request of a command line: decided at once, or paused.
LEMMA ExecRequestKeeps ==
    ASSUME IndInv, _channel_exec_request
    PROVE  IndInv' /\ Piped
<1>0. TypeOK /\ RequestInv /\ RemoteInv /\ ExecInv
  BY DEF IndInv
<1>1. /\ Handles("Exec") /\ pc = "idle" /\ req.k = "Exec" /\ review = "none"
      /\ UNCHANGED <<rc, out, ev, decided>>
  BY <1>0 DEF _channel_exec_request, Handles, target, RequestInv
<1>2. CASE Unmapped
  BY <1>0, <1>1, <1>2, UnmappedIsSide, SideKeeps
<1>3. CASE review' = review /\ ExecForwarded("degraded")
  BY <1>1, <1>3, ExecEndsKeep
<1>4. CASE review' = review /\ evaluate(req.arg) = "allow" /\ ExecForwarded("allowed")
  BY <1>1, <1>4, ExecEndsKeep
<1>5. CASE review' = review /\ ExecDenied("blocked")
  BY <1>1, <1>5, ExecEndsKeep
<1>6. CASE /\ review' = "pending" /\ pc' = "review"
           /\ UNCHANGED <<cchan, req, s, prompt, reply, rcq, abort, audit>>
  <2>1. TypeOK'
    BY <1>0, <1>1, <1>6 DEF TypeOK, ClientTypeOK, SessionTypeOK, RemoteTypeOK, TargetTypeOK
  <2>2. RequestInv' /\ RemoteInv' /\ RecordedOnce'
    BY <1>0, <1>1, <1>6 DEF RequestInv, RemoteInv, ExecInv, RecordedOnce, Opens
  <2>3. UNCHANGED <<InPipe, out>>
    BY <1>1, <1>6 DEF InPipe
  <2>4. ChansGrow /\ LinesKept
    BY <1>0, <1>6, NothingMoves DEF LinesKept
  <2> QED BY <1>1, <1>6, <2>1, <2>2, <2>3, <2>4, CarriedKeeps DEF Carried
<1> QED BY <1>2, <1>3, <1>4, <1>5, <1>6 DEF _channel_exec_request

\* The end of the pause.
LEMMA ReviewEndKeeps ==
    ASSUME IndInv, authorize_exec_command
    PROVE  IndInv' /\ Piped
<1>1. /\ pc \in {"review", "late"} /\ review' = "none" /\ UNCHANGED <<rc, out, ev, decided>>
      /\ IF await_command_review = "approved" THEN ExecForwarded("approved")
                                              ELSE ExecDenied(await_command_review)
  BY DEF authorize_exec_command, ReviewUnchanged, target
<1>2. req.k = "Exec" /\ (review = "approved" => <<req.arg, "approved">> \in decided)
  BY <1>1 DEF IndInv, RequestInv
<1>3. await_command_review = "approved" => <<req.arg, "approved">> \in decided
  BY <1>2 DEF await_command_review
<1>4. CASE await_command_review = "approved"
  BY <1>1, <1>2, <1>3, <1>4, ExecEndsKeep
<1>5. CASE await_command_review # "approved"
  BY <1>1, <1>2, <1>5, ExecEndsKeep
<1> QED BY <1>4, <1>5

\* A request as the client may make it.
AsMade(r) ==
    /\ r \in RequestType
    /\ r.k \in Opens => r.c \in Chan /\ cchan[r.c] = "none"
    /\ r.k \notin {"none", "Forward", "CancelForward"} => r.c \in Chan
    /\ r.k = "Data" => r.arg \in Chunk /\ cchan[r.c] = "open" /\ r.c \in Chan
    /\ r.k = "Exec" => r.arg \in Commands /\ \A a \in audit : a.command # r.arg

\* Opens are for new channels, input for open ones, and a command line is new.
LEMMA RequestsAsMade == \A r \in Requests \cup Inputs : AsMade(r)
<1>1. ASSUME NEW k \in What \cup {"Forward", "CancelForward"}, NEW c \in Chan \cup {"-"}, NEW arg \in Arguments
      PROVE  /\ Request(k, c, arg) \in RequestType /\ Request(k, c, arg).k = k
             /\ Request(k, c, arg).c = c /\ Request(k, c, arg).arg = arg
  <2> HIDE DEF What, Arguments
  <2> QED BY DEF Request, RequestType
<1>2. "-" \in Arguments /\ Commands \subseteq Arguments /\ Chunks \subseteq Arguments /\ Chunks \subseteq Chunk
  BY SshAssumption DEF Arguments
<1>3. /\ Opens \subseteq What /\ Opens = {"OpenShell", "OpenDirectTCPIP", "OpenDirectStreamlocal"}
      /\ "Exec" \in What /\ "Data" \in What
  BY DEF Opens, What
<1>4. ASSUME NEW k \in Opens, NEW c \in Chan, cchan[c] = "none"
      PROVE  AsMade(Request(k, c, "-"))
  <2>1. /\ Request(k, c, "-") \in RequestType /\ Request(k, c, "-").k = k /\ Request(k, c, "-").c = c
    BY <1>1, <1>2, <1>3
  <2> QED BY <1>3, <1>4, <2>1 DEF AsMade
<1>5. ASSUME NEW c \in Chan, NEW x \in Commands, \A a \in audit : a.command # x
      PROVE  AsMade(Request("Exec", c, x))
  <2>1. /\ Request("Exec", c, x) \in RequestType /\ Request("Exec", c, x).k = "Exec"
        /\ Request("Exec", c, x).c = c /\ Request("Exec", c, x).arg = x
    <3>1. x \in Arguments /\ c \in Chan \cup {"-"} /\ "Exec" \in What \cup {"Forward", "CancelForward"}
      BY <1>2, <1>3
    <3> QED BY <1>1, <3>1
  <2> QED BY <1>5, <2>1 DEF AsMade, Opens
<1>6. ASSUME NEW c \in Chan, cchan[c] = "open", NEW d \in Chunks
      PROVE  AsMade(Request("Data", c, d))
  <2>1. /\ Request("Data", c, d) \in RequestType /\ Request("Data", c, d).k = "Data"
        /\ Request("Data", c, d).c = c /\ Request("Data", c, d).arg = d /\ d \in Chunk
    <3>1. d \in Arguments /\ d \in Chunk /\ c \in Chan \cup {"-"} /\ "Data" \in What \cup {"Forward", "CancelForward"}
      BY <1>2, <1>3
    <3> QED BY <1>1, <3>1
  <2> QED BY <1>6, <2>1 DEF AsMade, Opens
<1>7. ASSUME NEW k \in What \ (Opens \cup {"Exec", "Data"}), NEW c \in Chan
      PROVE  AsMade(Request(k, c, "-"))
  <2>1. /\ Request(k, c, "-") \in RequestType /\ Request(k, c, "-").k = k /\ Request(k, c, "-").c = c
    BY <1>1, <1>2
  <2> QED BY <1>7, <2>1 DEF AsMade
<1>8. ASSUME NEW k \in {"Forward", "CancelForward"}
      PROVE  AsMade(Request(k, "-", "-"))
  <2>1. Request(k, "-", "-") \in RequestType /\ Request(k, "-", "-").k = k
    <3>1. PICK c \in Chan \cup {"-"} : c = "-"
      OBVIOUS
    <3>2. k \in What \cup {"Forward", "CancelForward"}
      OBVIOUS
    <3>3. Request(k, c, "-") \in RequestType /\ Request(k, c, "-").k = k
      BY <1>1, <1>2, <3>2
    <3> QED BY <3>1, <3>3
  <2> QED BY <2>1 DEF AsMade, Opens
<1>9. ASSUME NEW r \in Requests PROVE AsMade(r)
  <2> DEFINE Others_ == {"Pty", "Shell", "Sftp", "ExtendedData", "Eof", "Resize", "Signal", "Env", "X11", "Agent"}
  <2>1. /\ "OpenShell" \in Opens /\ {"OpenDirectTCPIP", "OpenDirectStreamlocal"} \subseteq Opens
        /\ "ChannelClose" \in What \ (Opens \cup {"Exec", "Data"})
        /\ Others_ \subseteq What \ (Opens \cup {"Exec", "Data"})
    BY DEF Opens, What
  <2> HIDE DEF Others_
  <2>2. ShellChans \subseteq Chan /\ DirectChans \subseteq Chan
    BY DEF Chan
  <2>3. \/ \E c \in ShellChans : cchan[c] = "none" /\ r = Request("OpenShell", c, "-")
        \/ \E k \in {"OpenDirectTCPIP", "OpenDirectStreamlocal"} : \E c \in DirectChans :
              cchan[c] = "none" /\ r = Request(k, c, "-")
        \/ \E c \in ShellChans : \E x \in Commands :
              (\A a \in audit : a.command # x) /\ r = Request("Exec", c, x)
        \/ \E c \in Chan : r = Request("ChannelClose", c, "-")
        \/ \E k \in Others_ : \E c \in ShellChans : r = Request(k, c, "-")
        \/ \E k \in {"Forward", "CancelForward"} : r = Request(k, "-", "-")
    BY <1>9 DEF Requests, Others_
  <2> QED BY <1>4, <1>5, <1>7, <1>8, <2>1, <2>2, <2>3
<1>10. ASSUME NEW r \in Inputs PROVE AsMade(r)
  BY <1>6, <1>10 DEF Inputs
<1> QED BY <1>9, <1>10

\* The client's next request, the decisions and the other steps that leave
\* the session, the queue and the target alone.
LEMMA OutsideKeeps ==
    ASSUME IndInv, \/ send_event \/ ClientLeaves \/ AskToClose \/ PromptTask \/ ReviewTimesOut
                   \/ api_approve \/ api_reject \/ vacuum
    PROVE  IndInv' /\ Piped
<1>0. TypeOK /\ RequestInv /\ RemoteInv /\ ExecInv
  BY DEF IndInv
<1>1. ASSUME UNCHANGED <<s, rcq, rc, ev, out, audit>>, pc' \in {pc, "late"}, ClientTypeOK', RequestInv',
             decided \subseteq decided', ChansGrow,
             req'.k \in Opens => (req' = req \/ cchan[req'.c] = "none")
      PROVE  IndInv' /\ Piped
  <2>1. TypeOK'
    BY <1>0, <1>1 DEF TypeOK, SessionTypeOK, RemoteTypeOK, TargetTypeOK
  <2>2. RemoteInv' /\ RecordedOnce'
    BY <1>0, <1>1 DEF RemoteInv, ExecInv, RecordedOnce
  <2>3. UNCHANGED <<InPipe, out>>
    BY <1>1 DEF InPipe
  <2>4. LinesKept
    BY <1>1 DEF LinesKept
  <2> QED BY <1>1, <2>1, <2>2, <2>3, <2>4, CarriedKeeps DEF Carried
<1>2. ASSUME UNCHANGED <<cchan, req, s, rcq, rc, ev, out, audit>>, pc' \in {pc, "late"},
             RequestInv', decided \subseteq decided'
      PROVE  IndInv' /\ Piped
  <2>1. ClientTypeOK' /\ ChansGrow
    BY <1>0, <1>2, NothingMoves DEF TypeOK, ClientTypeOK
  <2> QED BY <1>1, <1>2, <2>1
<1>3. CASE send_event
  <2>1. /\ UNCHANGED <<s, pc, rcq, rc, ev, out, audit, review, decided>> /\ req = NoReq
        /\ \E r \in Requests \cup Inputs : Asks(r)
    BY <1>3 DEF send_event, session, remote, target, reviews
  <2>2. PICK r \in Requests \cup Inputs : Asks(r)
    BY <2>1
  <2>3. CASE ended
    <3>1. UNCHANGED <<req, cchan>>
      BY <2>2, <2>3 DEF Asks
    <3>2. RequestInv'
      BY <1>0, <2>1, <3>1 DEF RequestInv
    <3> QED BY <1>2, <2>1, <3>1, <3>2
  <2>4. CASE ~ended
    <3>1. /\ req' = r
          /\ cchan' = IF r.k \in Opens THEN [cchan EXCEPT ![r.c] = "asked"]
                      ELSE IF r.k = "ChannelClose" THEN [cchan EXCEPT ![r.c] = "closed"]
                      ELSE cchan
      BY <2>2, <2>4 DEF Asks
    <3>2. cchan \in [Chan -> ChanStates]
      BY <1>0 DEF TypeOK, ClientTypeOK
    <3>3. cchan' \in [Chan -> ChanStates] /\ ChansGrow
      <4>1. cchan' \in {cchan, [cchan EXCEPT ![r.c] = "asked"], [cchan EXCEPT ![r.c] = "closed"]}
        BY <3>1
      <4> QED BY <3>2, <4>1 DEF ChansGrow, ChanStates
    <3>4. /\ r \in RequestType
          /\ r.k \in Opens => r.c \in Chan /\ cchan[r.c] = "none"
          /\ r.k \notin {"none", "Forward", "CancelForward"} => r.c \in Chan
          /\ r.k = "Data" => r.arg \in Chunk /\ cchan[r.c] = "open" /\ r.c \in Chan
          /\ r.k = "Exec" => r.arg \in Commands /\ \A a \in audit : a.command # r.arg
      BY RequestsAsMade DEF AsMade
    <3>5. r.k \in Opens \cup {"Data"} => cchan'[r.c] # "none"
      BY <3>1, <3>2, <3>4 DEF Opens
    <3>6. pc \notin {"data", "review", "late"} /\ review = "none"
      BY <1>0, <2>1 DEF RequestInv, NoReq
    <3>7. RequestInv'
      BY <2>1, <3>1, <3>4, <3>5, <3>6 DEF RequestInv
    <3>8. ClientTypeOK'
      BY <3>1, <3>3, <3>4 DEF ClientTypeOK
    <3> QED BY <1>1, <2>1, <3>1, <3>3, <3>4, <3>7, <3>8
  <2> QED BY <2>3, <2>4
<1>4. CASE ClientLeaves \/ AskToClose \/ PromptTask
  <2>1. UNCHANGED <<cchan, req, s, pc, rcq, rc, ev, out, audit, review, decided>>
    BY <1>4 DEF ClientLeaves, AskToClose, PromptTask, client, session, remote, target, reviews
  <2>2. RequestInv'
    BY <1>0, <2>1 DEF RequestInv
  <2> QED BY <1>2, <2>1, <2>2
<1>5. CASE ReviewTimesOut
  <2>1. /\ UNCHANGED <<cchan, req, s, rcq, rc, ev, out, audit, review, decided>>
        /\ pc = "review" /\ pc' = "late"
    BY <1>5 DEF ReviewTimesOut, client, remote, target, reviews
  <2>2. RequestInv'
    BY <1>0, <2>1 DEF RequestInv
  <2> QED BY <1>2, <2>1, <2>2
<1>6. CASE api_approve \/ api_reject \/ vacuum
  <2>1. /\ UNCHANGED <<cchan, req, s, pc, rcq, rc, ev, out, audit>>
        /\ review = "pending" /\ decided \subseteq decided' /\ review' \in {"approved", "rejected", "dropped"}
        /\ review' = "approved" => decided' = decided \cup {<<req.arg, "approved">>}
    BY <1>6 DEF api_approve, api_reject, vacuum, complete, client, session, remote, target
  <2>2. RequestInv'
    BY <1>0, <2>1 DEF RequestInv
  <2> QED BY <1>2, <2>1, <2>2
<1> QED BY <1>3, <1>4, <1>5, <1>6

----------------------------------------------------------------------------
(* The remote client.                                                       *)

\* The first operations of the pipe are lost.
LEMMA LosesFirst ==
    ASSUME NEW x \in Seq(Operations), NEW y \in Seq(Operations), InPipe = x \o y, InPipe' = y, out' = out
    PROVE  Carried
<1>1. CASE x = <<>>
  <2>1. <<>> \o y = y
    OBVIOUS
  <2> QED BY <1>1, <2>1 DEF Carried
<1>2. CASE x # <<>>
  <2> DEFINE p == x \o y
  <2>1. Len(x) \in 1..Len(p)
    BY <1>2
  <2>2. SubSeq(p, Len(x) + 1, Len(p)) = y
    BY <1>2
  <2>3. InPipe = p
    OBVIOUS
  <2> HIDE DEF p
  <2>4. Pipe!Lose(Len(x))
    BY <2>2, <2>3 DEF Pipe!Lose
  <2> QED BY <2>1, <2>3, <2>4 DEF Carried
<1> QED BY <1>1, <1>2

\* The first operation reaches the target.
LEMMA ArrivesFirst ==
    ASSUME NEW op \in Operations, NEW y \in Seq(Operations), InPipe = <<op>> \o y, InPipe' = y,
           out' = Append(out, op)
    PROVE  Carried
<1> DEFINE p == <<op>> \o y
<1>1. p # <<>> /\ Head(p) = op /\ Tail(p) = y
  OBVIOUS
<1>2. InPipe = p
  OBVIOUS
<1> HIDE DEF p
<1>3. Pipe!Arrive
  BY <1>1, <1>2 DEF Pipe!Arrive
<1> QED BY <1>3 DEF Carried

\* Everything on its way is lost.
LEMMA LosesAll ==
    ASSUME TypeOK, InPipe' = <<>>, out' = out
    PROVE  Carried
<1>1. PICK p \in Seq(Operations) : p = InPipe
  BY InPipeType
<1>2. p \o <<>> = p /\ <<>> \in Seq(Operations)
  OBVIOUS
<1>3. InPipe = p \o <<>>
  BY <1>1, <1>2, Zenon
<1> QED BY <1>2, <1>3, LosesFirst

\* Events as the session expects them.
Announced == {e \in EventType : /\ e.kind = "Forwarded" => e.arg \in ForwardedChans
                                /\ e.kind = "State" => e.arg \in {"Connected", "Disconnected"}}

\* An event has its type.
LEMMA EventIsAnnounced ==
    ASSUME NEW kind \in {"Close", "Done", "HostKeyUnknown", "Output"}, NEW arg \in Chan \cup {"-"}
    PROVE  Event(kind, arg) \in Announced
BY DEF Event, Announced, EventType

\* The events of a disconnect.
LEMMA DisconnectedEventsType ==
    ASSUME NEW pending \in Seq(Operations)
    PROVE  DisconnectedEvents(pending) \in Seq(Announced)
<1> DEFINE closes == [i \in DOMAIN pending |-> Event("Close", pending[i].c)]
           places == {i \in DOMAIN pending : pending[i].what \in {"OpenShell", "OpenDirectTCPIP"}}
           last == <<Event("State", "Disconnected"), Event("Done", "-")>>
<1>1. ASSUME NEW i \in DOMAIN pending PROVE closes[i] \in Announced
  <2>1. pending[i] \in Operations
    OBVIOUS
  <2>2. pending[i].c \in Chan \cup {"-"}
    BY <2>1 DEF Operations
  <2> QED BY <2>2, EventIsAnnounced
<1>2. closes \in Seq(Announced)
  <2>1. closes = [i \in DOMAIN pending |-> closes[i]]
    OBVIOUS
  <2> HIDE DEF closes
  <2> QED BY <1>1, <2>1, MappedIsSeq
<1>3. last \in Seq(Announced)
  <2>1. Event("State", "Disconnected") \in Announced
    BY DEF Event, Announced, EventType
  <2>2. Event("Done", "-") \in Announced
    BY EventIsAnnounced
  <2> QED BY <2>1, <2>2
<1>4. DisconnectedEvents(pending) = Kept(closes, places) \o last
  BY DEF DisconnectedEvents
<1> HIDE DEF closes, places, last
<1>5. Kept(closes, places) \in Seq(Announced)
  BY <1>2, KeptInSeq
<1> QED BY <1>3, <1>4, <1>5, ConcatProperties

\* What the session has to expect after an announcement.
EventsOK == /\ ev \in Seq(EventType)
            /\ \A i \in DOMAIN ev : /\ ev[i].kind = "Forwarded" => ev[i].arg \in ForwardedChans
                                    /\ ev[i].kind = "State" => ev[i].arg \in {"Connected", "Disconnected"}

\* What the remote client emits is announced: EventsOK survives an emission.
LEMMA EmitsAnnounced ==
    ASSUME TypeOK, RemoteInv, NEW events \in Seq(Announced), Emits(events) \/ ev' = ev
    PROVE  EventsOK'
<1>0. ev \in Seq(EventType)
  BY DEF TypeOK, RemoteTypeOK
<1>1. ASSUME NEW i \in DOMAIN ev PROVE ev[i] \in Announced
  <2>1. ev[i] \in EventType
    BY <1>0
  <2> QED BY <2>1 DEF RemoteInv, Announced
<1>2. ev \in Seq(Announced)
  <2>1. ev = [i \in DOMAIN ev |-> ev[i]]
    BY <1>0
  <2> QED BY <1>0, <1>1, <2>1, MappedIsSeq
<1>3. ev' \in Seq(Announced)
  <2>1. ev \o events \in Seq(Announced)
    BY <1>2, ConcatProperties
  <2> QED BY <1>2, <2>1 DEF Emits
<1>4. ASSUME NEW i \in DOMAIN ev'
      PROVE  ev'[i] \in Announced
  BY <1>3
<1>5. ev' \in Seq(EventType)
  <2>1. Announced \subseteq EventType
    BY DEF Announced
  <2>2. ev' = [i \in DOMAIN ev' |-> ev'[i]] /\ \A i \in DOMAIN ev' : ev'[i] \in EventType
    BY <1>3, <1>4, <2>1
  <2> QED BY <1>3, <2>2, MappedIsSeq
<1> QED BY <1>4, <1>5 DEF EventsOK, Announced

\* A step of the remote client.
LEMMA RemoteKeeps ==
    ASSUME IndInv, UNCHANGED <<cchan, req, s, pc, audit, review, decided>>, EventsOK',
           rcq' \in Seq(CommandType), rc' \in RemoteType, out' \in Seq(Operations), Carried,
           rc'.pc # "drain" => rc'.drain = <<>>, rc'.st = "Connected" => rc'.pending = <<>>
    PROVE  IndInv' /\ Piped
<1>0. TypeOK /\ RequestInv /\ ExecInv
  BY DEF IndInv
<1>1. TypeOK'
  BY <1>0 DEF TypeOK, ClientTypeOK, SessionTypeOK, RemoteTypeOK, TargetTypeOK, EventsOK
<1>2. RequestInv' /\ RecordedOnce'
  BY <1>0 DEF RequestInv, ExecInv, RecordedOnce
<1>3. RemoteInv'
  BY DEF RemoteInv, EventsOK
<1>4. ChansGrow /\ LinesKept
  BY <1>0, NothingMoves DEF LinesKept
<1> QED BY <1>1, <1>2, <1>3, <1>4, CarriedKeeps

\* The pipe while nothing is replayed.
LEMMA PipeParts ==
    ASSUME TypeOK, RemoteInv
    PROVE  /\ rc.pc \notin {"drain", "ended"} => InPipe = rc.pending \o ChannelOps(rcq)
           /\ (rc' \in RemoteType /\ rc'.pc \notin {"drain", "ended"} /\ rc'.drain = <<>>)
                => InPipe' = rc'.pending \o ChannelOps(rcq')
<1>1. ASSUME NEW q \in Seq(Operations) PROVE <<>> \o q = q
  OBVIOUS
<1>2. rc.pc \notin {"drain", "ended"} => InPipe = rc.pending \o ChannelOps(rcq)
  <2> SUFFICES ASSUME rc.pc \notin {"drain", "ended"} PROVE InPipe = rc.pending \o ChannelOps(rcq)
    OBVIOUS
  <2>1. InPipe = (rc.drain \o rc.pending) \o ChannelOps(rcq) /\ rc.drain = <<>>
    BY DEF InPipe, RemoteInv
  <2>2. <<>> \o rc.pending = rc.pending
    BY <1>1, InPipeType
  <2> QED BY <2>1, <2>2, Zenon
<1>3. ASSUME rc' \in RemoteType, rc'.pc \notin {"drain", "ended"}, rc'.drain = <<>>
      PROVE  InPipe' = rc'.pending \o ChannelOps(rcq')
  <2>1. InPipe' = (rc'.drain \o rc'.pending) \o ChannelOps(rcq')
    BY <1>3 DEF InPipe
  <2>2. rc'.pending \in Seq(Operations)
    BY <1>3 DEF RemoteType
  <2>3. <<>> \o rc'.pending = rc'.pending
    BY <1>1, <2>2
  <2> QED BY <1>3, <2>1, <2>3, Zenon
<1> QED BY <1>2, <1>3

\* An operation on a connected client reaches the target or is lost.
LEMMA ApplyEffect ==
    ASSUME TypeOK, RemoteInv, NEW r \in RemoteType, NEW op \in Operations, NEW result,
           apply_channel_op(r, op, result)
    PROVE  /\ rc' \in RemoteType /\ rc'.pc = r.pc /\ rc'.st = r.st /\ rc'.drain = r.drain
           /\ rc'.pending = r.pending /\ out' \in {out, Append(out, op)} /\ EventsOK'
<1>1. op.c \in Chan \cup {"-"}
  BY DEF Operations
<1>2. rc' \in {r, [r EXCEPT !.pipes = @ \cup {op.c}], [r EXCEPT !.pipes = @ \ {op.c}]}
  BY DEF apply_channel_op, OpenAccepted
<1>3. out' \in {out, Append(out, op)}
  BY DEF apply_channel_op
<1>4. ev' = ev \/ Emits(<<Event("Close", op.c)>>)
  BY DEF apply_channel_op
<1>5. EventsOK'
  <2>1. <<Event("Close", op.c)>> \in Seq(Announced)
    BY <1>1, EventIsAnnounced
  <2> QED BY <1>4, <2>1, EmitsAnnounced
<1>6. /\ rc' \in RemoteType /\ rc'.pc = r.pc /\ rc'.st = r.st /\ rc'.drain = r.drain
      /\ rc'.pending = r.pending
  <2> HIDE DEF Operations
  <2> QED BY <1>1, <1>2 DEF RemoteType
<1> QED BY <1>3, <1>5, <1>6

\* The queue of commands behind its first.
LEMMA QueueTail ==
    ASSUME TypeOK, rcq # <<>>
    PROVE  /\ Head(rcq) \in CommandType /\ Head(rcq).op \in Operations /\ Tail(rcq) \in Seq(CommandType)
           /\ ChannelOps(Tail(rcq)) \in Seq(Operations)
           /\ ChannelOps(rcq) = IF Head(rcq).kind = "channel"
                                THEN <<Head(rcq).op>> \o ChannelOps(Tail(rcq)) ELSE ChannelOps(Tail(rcq))
<1>1. rcq \in Seq(CommandType)
  BY DEF TypeOK, RemoteTypeOK
<1>2. Head(rcq) \in CommandType /\ Tail(rcq) \in Seq(CommandType)
  BY <1>1
<1>3. Head(rcq).op \in Operations
  BY <1>2 DEF CommandType
<1> QED BY <1>1, <1>2, <1>3, OpsTail, OpsInSeq

\* The client may be over: nothing is on its way any more.
LEMMA EndsKeeps ==
    ASSUME IndInv, UNCHANGED <<cchan, req, s, pc, audit, review, decided, out>>,
           rcq' = <<>>, rc' \in RemoteType, rc'.pc = "ended", rc'.drain = <<>>,
           rc'.st = "Connected" => rc'.pending = <<>>,
           Emits(DisconnectedEvents(rc.pending)) \/ Emits(<<>>)
    PROVE  IndInv' /\ Piped
<1>0. TypeOK /\ RemoteInv
  BY DEF IndInv
<1>1. EventsOK'
  <2>1. DisconnectedEvents(rc.pending) \in Seq(Announced) /\ <<>> \in Seq(Announced)
    BY <1>0, InPipeType, DisconnectedEventsType
  <2> QED BY <1>0, <2>1, EmitsAnnounced
<1>2. InPipe' = <<>>
  BY DEF InPipe
<1>3. Carried
  BY <1>0, <1>2, LosesAll
<1>4. rcq' \in Seq(CommandType) /\ out' \in Seq(Operations)
  BY <1>0 DEF TypeOK, TargetTypeOK
<1> QED BY <1>1, <1>3, <1>4, RemoteKeeps

\* The commands of the queue.
LEMMA CommandKeeps ==
    ASSUME IndInv, handle_command
    PROVE  IndInv' /\ Piped
<1>0. /\ TypeOK /\ RemoteInv /\ rc \in RemoteType /\ out \in Seq(Operations)
      /\ ev' = ev => EventsOK'
  BY DEF IndInv, TypeOK, RemoteTypeOK, TargetTypeOK, RemoteInv, EventsOK
<1> DEFINE command == Head(rcq)
           op == command.op
           rest == ChannelOps(Tail(rcq))
<1>1. /\ rc.pc = "loop" /\ rcq # <<>> /\ rc.drain = <<>>
      /\ rcq' = IF command.kind = "disconnect" THEN <<>> ELSE Tail(rcq)
      /\ UNCHANGED <<cchan, req, s, pc, audit, review, decided>>
  BY <1>0 DEF handle_command, RcUnchanged, client, reviews, RemoteInv
<1>2. /\ command \in CommandType /\ op \in Operations /\ rest \in Seq(Operations)
      /\ Tail(rcq) \in Seq(CommandType)
      /\ ChannelOps(rcq) = IF command.kind = "channel" THEN <<op>> \o rest ELSE rest
  BY <1>0, <1>1, QueueTail
<1> HIDE DEF command, op, rest
<1>3. /\ InPipe = rc.pending \o ChannelOps(rcq) /\ rc.pending \in Seq(Operations)
      /\ (rc' \in RemoteType /\ rc'.pc \notin {"drain", "ended"} /\ rc'.drain = <<>>)
           => InPipe' = rc'.pending \o ChannelOps(rcq')
  BY <1>0, <1>1, PipeParts, InPipeType
<1>4. command.kind # "disconnect" => rcq' \in Seq(CommandType) /\ ChannelOps(rcq') = rest
  BY <1>1, <1>2 DEF rest
<1>5. CASE command.kind = "channel" /\ rc.st # "Connected" /\ rc' = Queued(rc, op) /\ UNCHANGED <<ev, out>>
  <2>1. /\ rc' \in RemoteType /\ rc'.pc = "loop" /\ rc'.st = rc.st /\ rc'.drain = <<>>
        /\ rc'.pending = Append(rc.pending, op)
    <3>1. op \in Operations /\ rc.pending \in Seq(Operations)
      BY <1>2, <1>3
    <3>4. Append(rc.pending, op) \in Seq(Operations)
      BY <3>1
    <3>2. PICK p \in Seq(Operations) : p = Append(rc.pending, op)
      BY <3>4, Zenon
    <3>3. rc' = [rc EXCEPT !.pending = p]
      BY <1>5, <3>2 DEF Queued
    <3> QED BY <1>0, <1>1, <3>2, <3>3 DEF RemoteType
  <2> DEFINE p == rc.pending
             r == <<op>> \o rest
  <2>2. p \o (<<op>> \o rest) = Append(p, op) \o rest
    <3> HIDE DEF p
    <3>1. p \in Seq(Operations)
      BY <1>3 DEF p
    <3> QED BY <1>2, <3>1
  <2>3. InPipe = p \o (<<op>> \o rest) /\ InPipe' = Append(p, op) \o rest
    <3> HIDE DEF Operations
    <3> QED BY <1>2, <1>3, <1>4, <1>5, <2>1
  <2>4. Carried
    BY <1>5, <2>2, <2>3, Zenon DEF Carried
  <2> QED BY <1>0, <1>1, <1>4, <1>5, <2>1, <2>4, RemoteKeeps
<1>6. CASE /\ command.kind = "channel" /\ rc.st = "Connected"
           /\ \E result \in {"ok", "refused"} : apply_channel_op(rc, op, result)
  <2>1. /\ rc' \in RemoteType /\ rc'.pc = rc.pc /\ rc'.st = rc.st /\ rc'.drain = rc.drain
        /\ rc'.pending = rc.pending /\ out' \in {out, Append(out, op)} /\ EventsOK'
    BY <1>0, <1>2, <1>6, ApplyEffect
  <2>2. rc.pending = <<>>
    BY <1>0, <1>6 DEF RemoteInv
  <2>3. InPipe = <<op>> \o rest /\ InPipe' = rest
    <3>1. <<>> \o (<<op>> \o rest) = <<op>> \o rest /\ <<>> \o rest = rest
      BY <1>2
    <3>2. InPipe = <<>> \o (<<op>> \o rest)
      BY <1>2, <1>3, <1>6, <2>2, Zenon
    <3>3. InPipe' = <<>> \o rest
      BY <1>1, <1>3, <1>4, <1>6, <2>1, <2>2
    <3> QED BY <3>1, <3>2, <3>3, Zenon
  <2>4. Carried
    <3>1. CASE out' = Append(out, op)
      BY <1>2, <2>3, <3>1, ArrivesFirst
    <3>2. CASE out' = out
      <4>0. op \in Operations
        BY <1>2
      <4>2. <<op>> \in Seq(Operations)
        BY <4>0
      <4>1. PICK x \in Seq(Operations) : x = <<op>>
        BY <4>2, Zenon
      <4> QED BY <1>2, <2>3, <3>2, <4>1, LosesFirst
    <3> QED BY <2>1, <3>1, <3>2
  <2>5. out' \in Seq(Operations)
    <3>1. op \in Operations /\ out \in Seq(Operations) /\ out' \in {out, Append(out, op)}
      BY <1>0, <1>2, <2>1
    <3> QED BY <3>1
  <2> QED BY <1>1, <1>4, <1>6, <2>1, <2>2, <2>4, <2>5, RemoteKeeps
<1>7. ASSUME command.kind \notin {"channel", "disconnect"}, UNCHANGED <<ev, out>>,
             \/ rc' = [rc EXCEPT !.pc = "connecting"] \/ rc' = rc
             \/ rc' = [rc EXCEPT !.forwards = @ \cup {"forward"}] \/ rc' = [rc EXCEPT !.forwards = {}]
      PROVE  IndInv' /\ Piped
  <2>1. /\ rc' \in RemoteType /\ rc'.pc \in {"loop", "connecting"} /\ rc'.st = rc.st
        /\ rc'.drain = <<>> /\ rc'.pending = rc.pending
    <3> HIDE DEF Operations
    <3> QED BY <1>0, <1>1, <1>7 DEF RemoteType
  <2>2. InPipe = rc.pending \o rest /\ InPipe' = rc.pending \o rest
    BY <1>2, <1>3, <1>4, <1>7, <2>1
  <2>3. Carried
    BY <1>7, <2>2, Zenon DEF Carried
  <2> QED BY <1>0, <1>1, <1>4, <1>7, <2>1, <2>3, RemoteKeeps DEF RemoteInv
<1>8. CASE /\ command.kind = "disconnect" /\ rc' = [disconnect(rc) EXCEPT !.pc = "ended"] /\ UNCHANGED out
           /\ Emits(IF rc.session THEN DisconnectedEvents(rc.pending) ELSE <<>>)
  <2>1. /\ rc' \in RemoteType /\ rc'.pc = "ended" /\ rc'.drain = <<>>
        /\ rc'.st = "Connected" => rc'.pending = <<>>
    <3> HIDE DEF Operations
    <3> QED BY <1>0, <1>1, <1>8 DEF RemoteType, disconnect, set_disconnected, LinkStates, RemoteInv
  <2> QED BY <1>1, <1>8, <2>1, EndsKeeps
<1>9. \/ command.kind = "channel" /\ rc.st # "Connected" /\ rc' = Queued(rc, op) /\ UNCHANGED <<ev, out>>
      \/ /\ command.kind = "channel" /\ rc.st = "Connected"
         /\ \E result \in {"ok", "refused"} : apply_channel_op(rc, op, result)
      \/ /\ command.kind \notin {"channel", "disconnect"} /\ UNCHANGED <<ev, out>>
         /\ \/ rc' = [rc EXCEPT !.pc = "connecting"] \/ rc' = rc
            \/ rc' = [rc EXCEPT !.forwards = @ \cup {"forward"}] \/ rc' = [rc EXCEPT !.forwards = {}]
      \/ /\ command.kind = "disconnect" /\ rc' = [disconnect(rc) EXCEPT !.pc = "ended"] /\ UNCHANGED out
         /\ Emits(IF rc.session THEN DisconnectedEvents(rc.pending) ELSE <<>>)
  BY Zenon DEF handle_command, command, op
<1> QED BY <1>5, <1>6, <1>7, <1>8, <1>9

\* The operations that waited are replayed, the oldest first.
LEMMA DrainKeeps ==
    ASSUME IndInv, Drain
    PROVE  IndInv' /\ Piped
<1>0. /\ TypeOK /\ RemoteInv /\ rc \in RemoteType /\ out \in Seq(Operations)
      /\ ev' = ev => EventsOK'
  BY DEF IndInv, TypeOK, RemoteTypeOK, TargetTypeOK, RemoteInv, EventsOK
<1>1. /\ rc.pc = "drain" /\ UNCHANGED <<cchan, req, s, pc, rcq, audit, review, decided>>
      /\ rcq' \in Seq(CommandType)
  BY <1>0 DEF Drain, RcUnchanged, client, reviews, TypeOK, RemoteTypeOK
<1>2. /\ rc.drain \in Seq(Operations) /\ rc.pending \in Seq(Operations)
      /\ ChannelOps(rcq) \in Seq(Operations)
  BY <1>0, InPipeType
<1>3. InPipe = (rc.drain \o rc.pending) \o ChannelOps(rcq)
  BY <1>1 DEF InPipe
<1>4. rc'.pc # "ended" => InPipe' = (rc'.drain \o rc'.pending) \o ChannelOps(rcq)
  BY <1>1 DEF InPipe
<1> DEFINE d == rc.drain
           p == rc.pending
           q == ChannelOps(rcq)
           rest == Tail(d) \o p \o q
<1>5. CASE rc.drain = <<>> /\ rc' = [rc EXCEPT !.pc = "loop", !.forwards = {}] /\ UNCHANGED <<ev, out>>
  <2>1. /\ rc' \in RemoteType /\ rc'.pc = "loop" /\ rc'.drain = rc.drain /\ rc'.pending = rc.pending
        /\ rc'.st = rc.st
    BY <1>0, <1>5 DEF RemoteType
  <2>2. Carried
    BY <1>3, <1>4, <1>5, <2>1 DEF Carried
  <2> QED BY <1>0, <1>1, <1>5, <2>1, <2>2, RemoteKeeps DEF RemoteInv
<1>6. CASE rc.drain # <<>> /\ apply_channel_op([rc EXCEPT !.drain = Tail(@)], Head(rc.drain), "ok")
  <2>1. PICK op \in Operations : op = Head(d)
    <3>1. Head(d) \in Operations
      BY <1>2, <1>6
    <3> QED BY <3>1
  <2>2. Tail(d) \in Seq(Operations)
    BY <1>2, <1>6
  <2>3. PICK r \in RemoteType : /\ r = [rc EXCEPT !.drain = Tail(@)] /\ r.pc = "drain"
                                /\ r.st = rc.st /\ r.drain = Tail(d) /\ r.pending = p
    <3>1. PICK x \in Seq(Operations) : x = Tail(d)
      BY <2>2, Zenon
    <3>2. [rc EXCEPT !.drain = Tail(@)] = [rc EXCEPT !.drain = x]
      BY <1>0, <3>1 DEF RemoteType
    <3>3. /\ [rc EXCEPT !.drain = x] \in RemoteType /\ [rc EXCEPT !.drain = x].pc = "drain"
          /\ [rc EXCEPT !.drain = x].st = rc.st /\ [rc EXCEPT !.drain = x].drain = x
          /\ [rc EXCEPT !.drain = x].pending = p
      BY <1>0, <1>1 DEF RemoteType
    <3> QED BY <3>1, <3>2, <3>3, Zenon
  <2>4. apply_channel_op(r, op, "ok")
    BY <1>6, <2>1, <2>3, Zenon
  <2>5. /\ rc' \in RemoteType /\ rc'.pc = r.pc /\ rc'.st = r.st /\ rc'.drain = r.drain
        /\ rc'.pending = r.pending /\ out' \in {out, Append(out, op)} /\ EventsOK'
    BY <1>0, <2>4, ApplyEffect
  <2>6. InPipe' = rest
    BY <1>4, <2>3, <2>5
  <2>7. InPipe = <<op>> \o rest /\ rest \in Seq(Operations)
    <3> HIDE DEF d, p, q
    <3>1. d \in Seq(Operations) /\ p \in Seq(Operations) /\ q \in Seq(Operations) /\ d # <<>>
      BY <1>2, <1>6 DEF d, p, q
    <3>2. InPipe = (d \o p) \o q
      BY <1>3 DEF d, p, q
    <3>3. d = <<op>> \o Tail(d)
      BY <2>1, <3>1
    <3>4. PICK t \in Seq(Operations) : t = Tail(d)
      BY <2>2, Zenon
    <3>5. ((<<op>> \o t) \o p) \o q = <<op>> \o (t \o p \o q) /\ t \o p \o q \in Seq(Operations)
      BY <3>1
    <3> QED BY <3>2, <3>3, <3>4, <3>5, Zenon
  <2> HIDE DEF rest
  <2>8. Carried
    <3>1. CASE out' = Append(out, op)
      BY <2>6, <2>7, <3>1, ArrivesFirst
    <3>2. CASE out' = out
      <4>1. <<op>> \in Seq(Operations)
        OBVIOUS
      <4>2. PICK x \in Seq(Operations) : x = <<op>>
        BY <4>1, Zenon
      <4> QED BY <2>6, <2>7, <3>2, <4>2, LosesFirst
    <3> QED BY <2>5, <3>1, <3>2
  <2>9. out' \in Seq(Operations)
    <3>1. op \in Operations /\ out \in Seq(Operations) /\ out' \in {out, Append(out, op)}
      BY <1>0, <2>5
    <3> QED BY <3>1
  <2> QED BY <1>0, <1>1, <2>3, <2>5, <2>8, <2>9, RemoteKeeps DEF RemoteInv
<1>7. CASE rc' = [rc EXCEPT !.pc = "loop", !.drain = <<>>] /\ UNCHANGED <<ev, out>>
  <2>1. /\ rc' \in RemoteType /\ rc'.pc = "loop" /\ rc'.drain = <<>> /\ rc'.pending = rc.pending
        /\ rc'.st = rc.st
    <3>0. <<>> \in Seq(Operations)
      OBVIOUS
    <3>1. PICK x \in Seq(Operations) : x = <<>>
      BY <3>0, Zenon
    <3>2. rc' = [rc EXCEPT !.pc = "loop", !.drain = x]
      BY <1>7, <3>1
    <3> QED BY <1>0, <3>1, <3>2 DEF RemoteType
  <2> HIDE DEF d, p, q
  <2>2. d \in Seq(Operations) /\ p \in Seq(Operations) /\ q \in Seq(Operations)
    BY <1>2 DEF d, p, q
  <2>8. p \o q \in Seq(Operations)
    BY <2>2, ConcatProperties
  <2>3. PICK y \in Seq(Operations) : y = p \o q
    BY <2>8, Zenon
  <2>4. (d \o p) \o q = d \o (p \o q) /\ (<<>> \o p) \o q = p \o q
    BY <2>2
  <2>5. InPipe = d \o y
    BY <1>3, <2>3, <2>4, Zenon DEF d, p, q
  <2>6. InPipe' = y
    <3>1. InPipe' = (<<>> \o p) \o q
      BY <1>4, <2>1 DEF p, q
    <3> QED BY <2>3, <2>4, <3>1, Zenon
  <2>7. Carried
    BY <1>7, <2>2, <2>5, <2>6, LosesFirst
  <2> QED BY <1>0, <1>1, <1>7, <2>1, <2>7, RemoteKeeps DEF RemoteInv
<1> QED BY <1>5, <1>6, <1>7 DEF Drain

\* The connection fails or ends: what waited for it is lost.
LEMMA DisconnectKeeps ==
    ASSUME IndInv, NEW pcn \in {"loop", "failed"}, rc.pc \in {"loop", "connecting"},
           rc' = [set_disconnected(rc) EXCEPT !.pc = pcn], Emits(DisconnectedEvents(rc.pending)),
           UNCHANGED <<cchan, req, s, pc, rcq, out, audit, review, decided>>
    PROVE  IndInv' /\ Piped
<1>0. TypeOK /\ RemoteInv /\ rc \in RemoteType /\ rcq' \in Seq(CommandType) /\ out' \in Seq(Operations)
  BY DEF IndInv, TypeOK, RemoteTypeOK, TargetTypeOK
<1>1. /\ rc' \in RemoteType /\ rc'.pc = pcn /\ rc'.drain = <<>> /\ rc'.pending = <<>>
  BY <1>0 DEF RemoteType, set_disconnected, LinkStates, RemoteInv
<1>2. EventsOK'
  BY <1>0, InPipeType, DisconnectedEventsType, EmitsAnnounced
<1> DEFINE p == rc.pending
           q == ChannelOps(rcq)
<1>3. p \in Seq(Operations) /\ q \in Seq(Operations) /\ InPipe = p \o q
  BY <1>0, InPipeType, PipeParts
<1>4. InPipe' = <<>> \o q
  BY <1>0, <1>1, PipeParts
<1> HIDE DEF p, q
<1>5. InPipe' = q
  <2>1. <<>> \o q = q
    BY <1>3
  <2> QED BY <1>4, <2>1, Zenon
<1>6. Carried
  BY <1>3, <1>5, LosesFirst
<1> QED BY <1>0, <1>1, <1>2, <1>6, RemoteKeeps

\* Steps of the remote client that leave the pipe alone.
LEMMA StillKeeps ==
    ASSUME IndInv, UNCHANGED <<cchan, req, s, pc, rcq, out, audit, review, decided>>, EventsOK',
           rc' \in RemoteType, rc'.drain = rc.drain, rc'.pending = rc.pending, rc'.st = rc.st,
           rc'.pc = rc.pc \/ (rc.pc = "connecting" /\ rc'.pc = "failed")
    PROVE  IndInv' /\ Piped
<1>0. TypeOK /\ RemoteInv /\ rcq' \in Seq(CommandType) /\ out' \in Seq(Operations)
  BY DEF IndInv, TypeOK, RemoteTypeOK, TargetTypeOK
<1>1. InPipe' = InPipe
  BY DEF InPipe
<1>2. Carried
  BY <1>1 DEF Carried
<1> QED BY <1>0, <1>2, RemoteKeeps DEF RemoteInv

\* Connecting, and its end.
LEMMA ConnectingKeeps ==
    ASSUME IndInv, \/ ResolveFails \/ check_server_key \/ Connected \/ ConnectFails
                   \/ ConnectFailed \/ AbortSeen \/ _on_disconnect
    PROVE  IndInv' /\ Piped
<1>0. /\ TypeOK /\ RemoteInv /\ rc \in RemoteType /\ out \in Seq(Operations)
      /\ rcq \in Seq(CommandType) /\ (ev' = ev => EventsOK')
  BY DEF IndInv, TypeOK, RemoteTypeOK, TargetTypeOK, RemoteInv, EventsOK
<1>1. ASSUME NEW e \in Announced, Emits(<<e>>) PROVE EventsOK'
  <2>1. PICK events \in Seq(Announced) : events = <<e>>
    <3>1. <<e>> \in Seq(Announced)
      OBVIOUS
    <3> QED BY <3>1, Zenon
  <2> QED BY <1>0, <1>1, <2>1, EmitsAnnounced
<1>2. CASE ResolveFails
  <2>1. /\ rc.pc = "connecting" /\ rc' = [set_disconnected(rc) EXCEPT !.pc = "failed"]
        /\ Emits(DisconnectedEvents(rc.pending))
        /\ UNCHANGED <<cchan, req, s, pc, rcq, out, audit, review, decided>>
    BY <1>2 DEF ResolveFails, RcUnchanged, client, target, reviews
  <2> QED BY <2>1, DisconnectKeeps
<1>3. CASE check_server_key
  <2>1. /\ UNCHANGED <<cchan, req, s, pc, rcq, rc, out, audit, review, decided>>
        /\ ev' = ev \/ Emits(<<Event("HostKeyUnknown", "-")>>)
    BY <1>3 DEF check_server_key, RcUnchanged, client, target, reviews
  <2>2. EventsOK'
    BY <1>0, <1>1, <2>1, EventIsAnnounced
  <2> QED BY <1>0, <2>1, <2>2, StillKeeps
<1>4. CASE Connected
  <2>1. /\ rc.pc = "connecting" /\ Emits(<<Event("State", "Connected")>>)
        /\ rc' = [rc EXCEPT !.session = TRUE, !.st = "Connected", !.pc = "drain",
                            !.drain = rc.pending, !.pending = <<>>]
        /\ UNCHANGED <<cchan, req, s, pc, rcq, out, audit, review, decided>>
    BY <1>4 DEF Connected, RcUnchanged, client, target, reviews
  <2>2. EventsOK'
    <3>1. Event("State", "Connected") \in Announced
      BY DEF Event, Announced, EventType
    <3> QED BY <1>1, <2>1, <3>1
  <2>3. /\ rc' \in RemoteType /\ rc'.pc = "drain" /\ rc'.drain = rc.pending /\ rc'.pending = <<>>
    <3>1. <<>> \in Seq(Operations)
      OBVIOUS
    <3> QED BY <1>0, <2>1, <3>1 DEF RemoteType, LinkStates
  <2> DEFINE p == rc.pending
             q == ChannelOps(rcq)
  <2>4. p \in Seq(Operations) /\ q \in Seq(Operations) /\ InPipe = p \o q
    BY <1>0, <2>1, InPipeType, PipeParts
  <2>5. InPipe' = (p \o <<>>) \o q
    BY <2>1, <2>3 DEF InPipe
  <2> HIDE DEF p, q
  <2>6. p \o <<>> = p
    BY <2>4
  <2>7. InPipe' = InPipe
    BY <2>4, <2>5, <2>6, Zenon
  <2>8. Carried
    BY <2>1, <2>7 DEF Carried
  <2> QED BY <1>0, <2>1, <2>2, <2>3, <2>8, RemoteKeeps
<1>5. CASE ConnectFails
  <2>1. /\ UNCHANGED <<cchan, req, s, pc, rcq, ev, out, audit, review, decided>>
        /\ rc.pc = "connecting" /\ rc' = [rc EXCEPT !.pc = "failed"]
    BY <1>5 DEF ConnectFails, RcUnchanged, client, target, reviews
  <2>2. /\ rc' \in RemoteType /\ rc'.pc = "failed" /\ rc'.drain = rc.drain
        /\ rc'.pending = rc.pending /\ rc'.st = rc.st
    BY <1>0, <2>1 DEF RemoteType
  <2> QED BY <1>0, <2>1, <2>2, StillKeeps
<1>6. CASE ConnectFailed
  <2>1. /\ rc.pc = "failed" /\ rc' = [set_disconnected(rc) EXCEPT !.pc = "ended"] /\ rcq' = <<>>
        /\ Emits(DisconnectedEvents(rc.pending))
        /\ UNCHANGED <<cchan, req, s, pc, out, audit, review, decided>>
    BY <1>6 DEF ConnectFailed, RcUnchanged, client, target, reviews
  <2>2. rc' \in RemoteType /\ rc'.pc = "ended" /\ rc'.drain = <<>> /\ rc'.pending = <<>>
    BY <1>0, <2>1 DEF RemoteType, set_disconnected, LinkStates, RemoteInv
  <2> QED BY <2>1, <2>2, EndsKeeps
<1>7. CASE AbortSeen
  <2>1. UNCHANGED <<cchan, req, s, pc, out, audit, review, decided>>
    BY <1>7 DEF AbortSeen, RcUnchanged, client, target, reviews
  <2>2. CASE /\ rc.pc = "connecting" /\ UNCHANGED rcq
             /\ rc' = [set_disconnected(rc) EXCEPT !.pc = "failed"]
             /\ Emits(DisconnectedEvents(rc.pending))
    BY <2>1, <2>2, DisconnectKeeps
  <2>3. CASE /\ rc.pc = "loop" /\ rcq' = <<>> /\ rc' = [disconnect(rc) EXCEPT !.pc = "ended"]
             /\ Emits(IF rc.session THEN DisconnectedEvents(rc.pending) ELSE <<>>)
    <3>1. /\ rc' \in RemoteType /\ rc'.pc = "ended" /\ rc'.drain = <<>>
          /\ rc'.st = "Connected" => rc'.pending = <<>>
      BY <1>0, <2>3 DEF RemoteType, disconnect, set_disconnected, LinkStates, RemoteInv
    <3> QED BY <2>1, <2>3, <3>1, EndsKeeps
  <2> QED BY <1>7, <2>2, <2>3 DEF AbortSeen
<1>8. CASE _on_disconnect
  <2>1. /\ rc.pc = "loop" /\ rc' = set_disconnected(rc) /\ Emits(DisconnectedEvents(rc.pending))
        /\ UNCHANGED <<cchan, req, s, pc, rcq, out, audit, review, decided>>
    BY <1>8 DEF _on_disconnect, RcUnchanged, client, target, reviews
  <2>2. rc' = [set_disconnected(rc) EXCEPT !.pc = "loop"]
    BY <1>0, <2>1 DEF RemoteType, set_disconnected
  <2> QED BY <2>1, <2>2, DisconnectKeeps
<1> QED BY <1>2, <1>3, <1>4, <1>5, <1>6, <1>7, <1>8

\* Channels that end, output, and the channels the target opens.
LEMMA TargetKeeps ==
    ASSUME IndInv, \/ \E c \in Chan : ChannelEnds(c) \/ TargetOutput(c)
                   \/ \E c \in ForwardedChans : setup_server_initiated_channel(c)
    PROVE  IndInv' /\ Piped
<1>0. TypeOK /\ RemoteInv /\ rc \in RemoteType
  BY DEF IndInv, TypeOK, RemoteTypeOK
<1>1. PICK c \in Chan : /\ UNCHANGED <<cchan, req, s, pc, rcq, out, audit, review, decided>>
                        /\ \/ rc' = rc \/ rc' = [rc EXCEPT !.pipes = @ \ {c}]
                           \/ rc' = [rc EXCEPT !.pipes = @ \cup {c}]
                        /\ \/ \E kind \in {"Close", "Output"} : Emits(<<Event(kind, c)>>)
                           \/ c \in ForwardedChans /\ Emits(<<Event("Forwarded", c)>>)
  <2>1. ForwardedChans \subseteq Chan
    BY DEF Chan
  <2>2. CASE \E c \in Chan : ChannelEnds(c)
    BY <2>2 DEF ChannelEnds, RcUnchanged, client, target, reviews
  <2>3. CASE \E c \in Chan : TargetOutput(c)
    BY <2>3 DEF TargetOutput, RcUnchanged, client, target, reviews
  <2>4. CASE \E c \in ForwardedChans : setup_server_initiated_channel(c)
    BY <2>1, <2>4 DEF setup_server_initiated_channel, RcUnchanged, client, target, reviews
  <2> QED BY <2>2, <2>3, <2>4
<1>2. /\ rc' \in RemoteType /\ rc'.pc = rc.pc /\ rc'.drain = rc.drain
      /\ rc'.pending = rc.pending /\ rc'.st = rc.st
  <2>1. \/ rc' = rc \/ rc' = [rc EXCEPT !.pipes = @ \ {c}]
        \/ rc' = [rc EXCEPT !.pipes = @ \cup {c}]
    BY <1>1
  <2> QED BY <1>0, <2>1 DEF RemoteType
<1>3. EventsOK'
  <2>1. \E e \in Announced : Emits(<<e>>)
    <3>1. c \in ForwardedChans => Event("Forwarded", c) \in Announced
      BY DEF Event, Announced, EventType
    <3> QED BY <1>1, <3>1, EventIsAnnounced
  <2>2. PICK e \in Announced : Emits(<<e>>)
    BY <2>1
  <2>3. PICK events \in Seq(Announced) : events = <<e>>
    <3>1. <<e>> \in Seq(Announced)
      OBVIOUS
    <3> QED BY <3>1, Zenon
  <2> QED BY <1>0, <2>2, <2>3, EmitsAnnounced
<1> QED BY <1>1, <1>2, <1>3, StillKeeps

----------------------------------------------------------------------------
(* The theorems.                                                            *)

\* A handler of a request.
LEMMA HandlerKeeps ==
    ASSUME IndInv, HandlerEvent
    PROVE  IndInv' /\ Piped
<1>0. TypeOK
  BY DEF IndInv
<1>1. CASE ChannelOpenSession \/ _channel_open_direct_tcpip \/ _channel_open_direct_streamlocal
  BY <1>1, OpensAreSide, SideKeeps
<1>2. CASE \E k \in What \ {"Data", "Exec"} : PassedOn(k) \/ SentUnwaited(k)
  BY <1>0, <1>2, PassedOnIsSide, SideKeeps
<1>3. CASE \/ _channel_x11_request \/ _channel_subsystem_request \/ _tcpip_forward
           \/ _cancel_tcpip_forward \/ ShellRequest
  BY <1>0, <1>3, ConnectingIsSide, SideKeeps
<1>4. CASE _data
  BY <1>4, DataKeeps
<1>5. CASE _channel_exec_request
  BY <1>5, ExecRequestKeeps
<1>6. ({"Pty", "Resize", "Env", "Agent", "Signal", "ChannelClose", "ExtendedData", "Eof"}
          \subseteq What \ {"Data", "Exec"})
  BY DEF What
<1>7. ASSUME \/ PtyRequest \/ _window_change_request \/ _channel_env_request \/ _agent_forward
             \/ _channel_signal \/ _channel_close \/ _extended_data \/ _channel_eof
      PROVE  \E k \in What \ {"Data", "Exec"} : PassedOn(k) \/ SentUnwaited(k)
  BY <1>6, <1>7, Zenon DEF PtyRequest, _window_change_request, _channel_env_request, _agent_forward,
                           _channel_signal, _channel_close, _extended_data, _channel_eof
<1> QED BY <1>1, <1>2, <1>3, <1>4, <1>5, <1>7 DEF HandlerEvent

\* Every step.
LEMMA NextKeeps ==
    ASSUME IndInv, Next
    PROVE  IndInv' /\ Piped
<1>1. CASE SessionTask
  <2>1. CASE HandlerEvent
    BY <2>1, HandlerKeeps
  <2>2. CASE RemoteEvent
    BY <2>2, RemoteEventIsSide, SideKeeps
  <2>3. CASE handle_session_control \/ PendingCommand \/ Disconnected
    BY <2>3, SessionEndsAreSide, SideKeeps
  <2>4. CASE DataForwarded
    BY <2>4, DataForwardedKeeps
  <2>5. CASE authorize_exec_command
    BY <2>5, ReviewEndKeeps
  <2>6. CASE ReviewTimesOut
    BY <2>6, OutsideKeeps
  <2> QED BY <1>1, <2>1, <2>2, <2>3, <2>4, <2>5, <2>6 DEF SessionTask
<1>2. CASE RemoteTask
  BY <1>2, CommandKeeps, DrainKeeps, ConnectingKeeps DEF RemoteTask
<1>3. CASE AbortSeen
  BY <1>3, ConnectingKeeps
<1>4. CASE Others
  <2>1. CASE \/ send_event \/ ClientLeaves \/ AskToClose \/ PromptTask
             \/ api_approve \/ api_reject \/ vacuum
    BY <2>1, OutsideKeeps
  <2>2. CASE ResolveFails \/ check_server_key \/ Connected \/ ConnectFails \/ _on_disconnect
    BY <2>2, ConnectingKeeps
  <2>3. CASE \/ \E c \in Chan : ChannelEnds(c) \/ TargetOutput(c)
             \/ \E c \in ForwardedChans : setup_server_initiated_channel(c)
    BY <2>3, TargetKeeps
  <2> QED BY <1>4, <2>1, <2>2, <2>3 DEF Others
<1> QED BY <1>1, <1>2, <1>3, <1>4 DEF Next

\* A step that changes nothing.
LEMMA StutterKeeps ==
    ASSUME IndInv, UNCHANGED vars
    PROVE  IndInv' /\ UNCHANGED <<InPipe, out>>
<1>1. UNCHANGED <<cchan, req, s, pc, rcq, rc, ev, out, audit, review, decided>>
  BY DEF vars
<1>2. InPipe' = InPipe
  BY <1>1 DEF InPipe
<1>3. TypeOK' /\ RequestInv' /\ RemoteInv'
  BY <1>1 DEF IndInv, TypeOK, ClientTypeOK, SessionTypeOK, RemoteTypeOK, TargetTypeOK, RequestInv,
              RemoteInv
<1>4. ExecInv' /\ InputInv' /\ LineInv'
  <2>1. Trail' = Trail
    BY <1>1, <1>2 DEF Trail
  <2> QED BY <1>1, <2>1 DEF IndInv, ExecInv, ExecsJustified, RecordedOnce, InputInv, LineInv, Strict
<1> QED BY <1>1, <1>2, <1>3, <1>4 DEF IndInv

\* In the beginning nothing is on its way.
LEMMA InitPipe ==
    ASSUME Init
    PROVE  InPipe = <<>> /\ out = <<>> /\ Trail = <<>>
<1>1. /\ rcq = <<>> /\ rc.pc = "loop" /\ rc.drain = <<>> /\ rc.pending = <<>> /\ out = <<>>
  BY DEF Init
<1>2. InPipe = (<<>> \o <<>>) \o <<>>
  BY <1>1, OpsEmpty DEF InPipe
<1>3. (<<>> \o <<>>) \o <<>> = <<>> /\ <<>> \o <<>> = <<>>
  OBVIOUS
<1>4. InPipe = <<>>
  BY <1>2, <1>3, Zenon
<1> QED BY <1>1, <1>3, <1>4 DEF Trail

\* Init satisfies IndInv: nothing is queued, open or decided.
LEMMA InitKeeps ==
    ASSUME Init
    PROVE  IndInv
<1>1. ClientTypeOK
  BY DEF Init, ClientTypeOK, ChanStates
<1>2. SessionTypeOK
  BY DEF Init, SessionTypeOK, SessionType, LinkStates
<1>3. RemoteTypeOK
  <2>1. rcq = <<>> /\ ev = <<>>
    BY DEF Init
  <2>2. rc \in RemoteType
    <3>1. <<>> \in Seq(Operations)
      OBVIOUS
    <3> QED BY <3>1 DEF Init, RemoteType, LinkStates
  <2> QED BY <2>1, <2>2 DEF RemoteTypeOK
<1>4. TargetTypeOK
  BY DEF Init, TargetTypeOK
<1>5. RequestInv /\ RemoteInv
  BY DEF Init, RequestInv, RemoteInv, NoReq, Opens
<1>6. ExecInv /\ InputInv /\ LineInv
  <2>1. Trail = <<>> /\ audit = {}
    BY InitPipe DEF Init
  <2> QED BY <2>1 DEF ExecInv, ExecsJustified, RecordedOnce, InputInv, LineInv
<1> QED BY <1>1, <1>2, <1>3, <1>4, <1>5, <1>6 DEF IndInv, TypeOK

\* The state of the session, of the remote client and of the target has its
\* type, and the inductive invariant holds: the request in the handler's
\* hands fits the place of the event loop, nothing waits beside a connection
\* that is up, and what is on its way is justified.
THEOREM SshInvariant == Spec => []IndInv
<1>1. Init => IndInv
  BY InitKeeps
<1>2. IndInv /\ [Next]_vars => IndInv'
  BY NextKeeps, StutterKeeps
<1> QED BY <1>1, <1>2, PTL DEF Spec

\* A place of out is one of the trail.
LEMMA OutOnTrail ==
    ASSUME TypeOK
    PROVE  /\ DOMAIN out = 1..Len(out) /\ Len(out) \in Nat
           /\ \A i \in DOMAIN out : i \in DOMAIN Trail /\ Trail[i] = out[i]
<1>1. PICK p \in Seq(Operations) : p = InPipe
  BY InPipeType
<1>2. out \in Seq(Operations) /\ Trail = out \o p
  BY <1>1 DEF TypeOK, TargetTypeOK, Trail
<1> QED BY <1>2

\* A command line that reached the target was allowed, approved or let
\* through on record, and has one record (authorize_exec_command).
THEOREM ExecsAreJustified == Spec => []ExecJustified
<1>1. IndInv => ExecJustified
  <2> SUFFICES ASSUME IndInv PROVE ExecJustified
    OBVIOUS
  <2>1. TypeOK /\ ExecsJustified /\ RecordedOnce
    BY DEF IndInv, ExecInv
  <2>2. ASSUME NEW i \in DOMAIN out, out[i].what = "Exec"
        PROVE  JustifiedBy(audit, decided, out[i].arg)
    <3>1. i \in DOMAIN Trail /\ Trail[i] = out[i]
      BY <2>1, OutOnTrail
    <3> QED BY <2>1, <2>2, <3>1 DEF ExecsJustified
  <2> QED BY <2>1, <2>2, Zenon DEF ExecJustified, JustifiedBy, RecordedOnce
<1> QED BY <1>1, SshInvariant, PTL

\* No end of a typed line with a blocked command reached the target, however
\* the line was cut into chunks, but on record (filter_pty_input, _data).
THEOREM PtyLinesAreHeld == Spec => []PtyLineHeld
<1>1. IndInv => PtyLineHeld
  <2> SUFFICES ASSUME IndInv, NEW c \in ShellChans, NEW i \in DOMAIN out, NEW j,
                      IsData(i, c), out[i].arg.nl, evaluate(Line) # "allow",
                      j \in {k \in 1..(i - 1) : IsData(k, c)} \cup {i}, out[j].arg.text = "bad"
               PROVE  [origin |-> "pty", command |-> Line, outcome |-> "degraded"] \in audit
    BY DEF PtyLineHeld
  <2>1. TypeOK /\ LineInv
    BY DEF IndInv
  <2>2. DOMAIN out = 1..Len(out) /\ Len(out) \in Nat
    BY <2>1, OutOnTrail
  <2>3. j \in DOMAIN out /\ j <= i /\ IsData(j, c)
    BY <2>2
  <2>4. /\ i \in DOMAIN Trail /\ Trail[i] = out[i] /\ j \in DOMAIN Trail /\ Trail[j] = out[j]
    BY <2>1, <2>3, OutOnTrail
  <2>5. /\ Bad(Trail[j]) /\ Trail[j].c = c /\ Ends(Trail[i]) /\ Trail[i].c = c
    BY <2>3, <2>4 DEF IsData, Bad, Ends
  <2>6. ~Strict
    BY <2>1, <2>3, <2>4, <2>5 DEF LineInv
  <2> QED BY <2>6 DEF Strict
<1> QED BY <1>1, SshInvariant, PTL

\* Operations reach the target in the order the session sent them, each at
\* most once: the session with its remote client implements the ordered pipe
\* (handle_command, apply_channel_op, RemoteClient::connect).
THEOREM OperationsKeepOrder == Spec => ChannelOrder
<1>1. Init => Pipe!Init
  BY InitPipe DEF Pipe!Init
<1>2. IndInv /\ [Next]_vars => [Pipe!Next]_<<InPipe, out>>
  <2> SUFFICES ASSUME IndInv, [Next]_vars PROVE [Pipe!Next]_<<InPipe, out>>
    OBVIOUS
  <2>1. CASE UNCHANGED vars
    BY <2>1, StutterKeeps
  <2>2. CASE Next
    <3>1. Piped
      BY <2>2, NextKeeps
    <3>2. ASSUME NEW op \in Operations, HandsOver(op) PROVE Pipe!Sent
      <4> DEFINE p == InPipe
                 pn == InPipe'
      <4>1. p \in Seq(Operations) /\ pn = Append(p, op) /\ out' = out
        BY <3>2, InPipeType DEF IndInv, HandsOver
      <4> HIDE DEF p, pn
      <4>2. Len(pn) = Len(p) + 1 /\ pn[Len(pn)] = op
        BY <4>1
      <4>3. Pipe!Send(pn[Len(pn)])
        BY <4>1, <4>2 DEF Pipe!Send, p, pn
      <4> QED BY <4>2, <4>3 DEF Pipe!Sent, p, pn
    <3> QED BY <3>1, <3>2 DEF Piped, Carried, Pipe!Next
  <2> QED BY <2>1, <2>2
<1> QED BY <1>1, <1>2, SshInvariant, PTL DEF Spec, ChannelOrder, Pipe!Spec
=============================================================================
