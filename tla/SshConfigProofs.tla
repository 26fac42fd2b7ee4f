--------------------------- MODULE SshConfigProofs ---------------------------
(***************************************************************************)
(* Proofs about the command line and the ssh configuration, in this order:  *)
(* induction in the form of sets; sequences; what the loop of the parsers   *)
(* keeps of its arguments (OneCommand); files and edits                     *)
(* (UserLinesStay, InstalledStays); the command line that ssh calls back    *)
(* (AliasLeads); and the groups of arguments, what they are for each        *)
(* grammar, that reading them again finds them, and what becomes of them    *)
(* when two change places (OrderIsFree).                                    *)
(***************************************************************************)
EXTENDS SshConfig, Integers, FiniteSetTheorems, WellFoundedInduction, SequenceTheorems, TLAPS

----------------------------------------------------------------------------
(* Induction *)

Less == {ss \in Nat \X Nat : ss[1] < ss[2]}

(* The natural numbers are well-founded. *)
LEMMA LessWellFounded == IsWellFoundedOn(Less, Nat)
  BY NatLessThanWellFounded DEF OpToRel, Less

(* A set of natural numbers that is not empty has a least element. *)
LEMMA LeastOfNaturals ==
  ASSUME NEW S, S \subseteq Nat, S # {}
  PROVE  \E m \in S : \A k \in S : m <= k
<1>1. \E x \in S : \A y \in S : ~ (<<y, x>> \in Less)
  <2>1. IsWellFoundedOn(Less, Nat) BY LessWellFounded
  <2> QED BY <2>1, WFMin, Zenon
<1>2. PICK x \in S : \A y \in S : ~ (<<y, x>> \in Less)
  BY <1>1
<1>3. \A y \in S : ~(y < x)
  BY <1>2 DEF Less
<1> QED BY <1>3

(* Induction over the natural numbers, for a property that is a set. *)
LEMMA InductionOverNat ==
  ASSUME NEW S, 0 \in S, \A n \in Nat : n \in S => n + 1 \in S
  PROVE  \A n \in Nat : n \in S
<1> SUFFICES ASSUME Nat \ S # {} PROVE FALSE
  OBVIOUS
<1>1. PICK m \in Nat \ S : \A k \in Nat \ S : m <= k
  <2> DEFINE T == Nat \ S
  <2>1. T \subseteq Nat /\ T # {}
    OBVIOUS
  <2> HIDE DEF T
  <2>2. \E m \in T : \A k \in T : m <= k
    BY <2>1, LeastOfNaturals
  <2> QED BY <2>2 DEF T
<1>2. m # 0 BY <1>1
<1>3. m - 1 \in Nat BY <1>1, <1>2
<1>4. m - 1 \in S BY <1>1, <1>3
<1>5. (m - 1) + 1 \in S BY <1>3, <1>4, Zenon
<1>6. m \in S BY <1>5, <1>1
<1> QED BY <1>6, <1>1

(* Induction over the sequences of a set, from the front to the end. *)
LEMMA InductionOverSeq ==
  ASSUME NEW A, NEW P, <<>> \in P,
         \A s \in Seq(A), e \in A : s \in P => Append(s, e) \in P
  PROVE  \A s \in Seq(A) : s \in P
<1> DEFINE E == {n \in Nat : \A s \in Seq(A) : Len(s) = n => s \in P}
<1>1. 0 \in E
  <2>1. \A s \in Seq(A) : Len(s) = 0 => s = <<>> OBVIOUS
  <2> QED BY <2>1
<1>2. ASSUME NEW n \in Nat, n \in E PROVE n + 1 \in E
  <2> SUFFICES ASSUME NEW s \in Seq(A), Len(s) = n + 1 PROVE s \in P
    OBVIOUS
  <2>1. s # <<>> BY EmptySeq
  <2>2. PICK f \in Seq(A), e \in A : s = Append(f, e)
    BY <2>1, SequenceEmptyOrAppend
  <2>3. Len(f) = n BY <2>2, AppendProperties, LenProperties
  <2>4. f \in P BY <1>2, <2>3
  <2> QED BY <2>2, <2>4
<1> HIDE DEF E
<1>3. \A n \in Nat : n \in E BY <1>1, <1>2, InductionOverNat
<1> QED BY <1>3, LenProperties DEF E

----------------------------------------------------------------------------
(* FlattenSeq *)

FlatUpTo(f, s, n) == f = [i \in 1 .. n |-> IF i = 1 THEN s[i] ELSE f[i - 1] \o s[i]]

(* The recursion of FlattenSeq goes one element further. *)
LEMMA FlatExtends ==
  ASSUME NEW s, NEW m \in Nat, NEW f, FlatUpTo(f, s, m)
  PROVE  \E h : FlatUpTo(h, s, m + 1)
<1> DEFINE g == [i \in 1 .. (m + 1) |-> IF i = 1 THEN s[i] ELSE f[i - 1] \o s[i]]
<1>1. \A i \in 1 .. m : f[i] = IF i = 1 THEN s[i] ELSE f[i - 1] \o s[i]
  BY Zenon DEF FlatUpTo
<1>2. \A i \in 1 .. m : g[i] = f[i]
  BY <1>1
<1>3. \A i \in 1 .. (m + 1) : i # 1 => i - 1 \in 1 .. m
  OBVIOUS
<1>4. \A i \in 1 .. (m + 1) : (IF i = 1 THEN s[i] ELSE f[i - 1] \o s[i]) =
                              (IF i = 1 THEN s[i] ELSE g[i - 1] \o s[i])
  <2> HIDE DEF g
  <2> QED BY <1>2, <1>3
<1>5. g = [i \in 1 .. (m + 1) |-> IF i = 1 THEN s[i] ELSE g[i - 1] \o s[i]]
  BY <1>4, Zenon
<1>6. FlatUpTo(g, s, m + 1)
  BY <1>5, Zenon DEF FlatUpTo
<1> HIDE DEF g
<1> QED BY <1>6, Zenon

(* ... and so defines a function. *)
LEMMA FlatExists ==
  ASSUME NEW s, NEW n \in Nat
  PROVE  \E f : FlatUpTo(f, s, n)
<1> DEFINE E == {m \in Nat : \E f : FlatUpTo(f, s, m)}
<1>1. 0 \in E
  <2>1. FlatUpTo([i \in 1 .. 0 |-> i], s, 0)
    BY DEF FlatUpTo
  <2> QED BY <2>1
<1>2. ASSUME NEW m \in Nat, m \in E PROVE m + 1 \in E
  <2>1. PICK f : FlatUpTo(f, s, m) BY <1>2
  <2>2. m + 1 \in Nat OBVIOUS
  <2> QED BY <2>1, <2>2, FlatExtends, Zenon
<1> HIDE DEF E
<1>3. \A m \in Nat : m \in E
  BY <1>1, <1>2, InductionOverNat
<1>4. n \in E BY <1>3
<1> QED BY <1>4, Zenon DEF E

(* That function gives FlattenSeq its value. *)
LEMMA FlatIs ==
  ASSUME NEW s, Len(s) \in Nat, Len(s) # 0
  PROVE  \E f : FlatUpTo(f, s, Len(s)) /\ FlattenSeq(s) = f[Len(s)]
<1> DEFINE f == CHOOSE f : FlatUpTo(f, s, Len(s))
<1>1. FlatUpTo(f, s, Len(s))
  <2>1. \E h : FlatUpTo(h, s, Len(s)) BY FlatExists, Zenon
  <2> QED BY <2>1, Zenon
<1>2. FlattenSeq(s) = f[Len(s)]
  BY Zenon DEF FlattenSeq, FlatUpTo
<1> QED BY <1>1, <1>2, Zenon

(* FlattenSeq of a sequence with one more at its end. *)
LEMMA FlatAppend ==
  ASSUME NEW A, NEW s \in Seq(Seq(A)), NEW x \in Seq(A)
  PROVE  FlattenSeq(Append(s, x)) = FlattenSeq(s) \o x
<1> DEFINE t == Append(s, x)
           n == Len(s)
<1>1. /\ n \in Nat /\ t \in Seq(Seq(A)) /\ Len(t) = n + 1 /\ t[n + 1] = x
      /\ \A i \in 1 .. n : t[i] = s[i]
  BY AppendProperties, LenProperties
<1> HIDE DEF t
<1>2. PICK h : FlatUpTo(h, t, n + 1) /\ FlattenSeq(t) = h[n + 1]
  BY <1>1, FlatIs
<1>3. \A i \in 1 .. (n + 1) : h[i] = IF i = 1 THEN t[i] ELSE h[i - 1] \o t[i]
  BY <1>2, Zenon DEF FlatUpTo
<1>4. CASE n = 0
  <2>1. s = <<>> BY <1>4
  <2>2. FlattenSeq(s) = <<>> BY <2>1 DEF FlattenSeq
  <2>3. FlattenSeq(t) = x BY <1>1, <1>2, <1>3, <1>4
  <2> QED BY <2>2, <2>3, ConcatEmptySeq DEF t
<1>5. CASE n # 0
  <2>1. PICK f : FlatUpTo(f, s, n) /\ FlattenSeq(s) = f[n]
    BY <1>1, <1>5, FlatIs
  <2>2. \A i \in 1 .. n : f[i] = IF i = 1 THEN s[i] ELSE f[i - 1] \o s[i]
    BY <2>1, Zenon DEF FlatUpTo
  <2> DEFINE E == {i \in Nat : i \in 1 .. n => f[i] = h[i]}
  <2>3. 0 \in E OBVIOUS
  <2>4. ASSUME NEW i \in Nat, i \in E PROVE i + 1 \in E
    <3> SUFFICES ASSUME i + 1 \in 1 .. n PROVE f[i + 1] = h[i + 1]
      OBVIOUS
    <3>1. (i + 1) - 1 = i /\ i + 1 \in 1 .. (n + 1) OBVIOUS
    <3>2. CASE i = 0
      BY <3>1, <3>2, <2>2, <1>3, <1>1
    <3>3. CASE i # 0
      <4>1. i \in 1 .. n /\ i + 1 # 1 BY <3>3
      <4>2. f[i] = h[i] BY <4>1, <2>4
      <4>3. f[i + 1] = f[i] \o s[i + 1] BY <4>1, <3>1, <2>2
      <4>4. h[i + 1] = h[i] \o t[i + 1] BY <4>1, <3>1, <1>3
      <4> QED BY <4>2, <4>3, <4>4, <1>1
    <3> QED BY <3>2, <3>3
  <2> HIDE DEF E
  <2>5. \A i \in Nat : i \in E BY <2>3, <2>4, InductionOverNat
  <2>6. f[n] = h[n] BY <2>5, <1>1, <1>5 DEF E
  <2>7. h[n + 1] = h[n] \o t[n + 1]
    <3>1. (n + 1) - 1 = n /\ n + 1 \in 1 .. (n + 1) /\ n + 1 # 1 BY <1>1, <1>5
    <3> QED BY <3>1, <1>3
  <2> QED BY <2>1, <2>6, <2>7, <1>1, <1>2 DEF t
<1> QED BY <1>4, <1>5

(* What FlattenSeq makes of sequences is a sequence, of nothing is nothing. *)
LEMMA FlatType ==
  ASSUME NEW A
  PROVE  /\ FlattenSeq(<<>>) = <<>>
         /\ \A s \in Seq(Seq(A)) : FlattenSeq(s) \in Seq(A)
<1>1. FlattenSeq(<<>>) = <<>> BY DEF FlattenSeq
<1> DEFINE P == {s \in Seq(Seq(A)) : FlattenSeq(s) \in Seq(A)}
<1>2. <<>> \in P
  <2>1. <<>> \in Seq(Seq(A)) /\ <<>> \in Seq(A) BY EmptySeq
  <2> QED BY <1>1, <2>1
<1>3. ASSUME NEW s \in Seq(Seq(A)), NEW e \in Seq(A), s \in P PROVE Append(s, e) \in P
  <2>1. FlattenSeq(Append(s, e)) = FlattenSeq(s) \o e BY FlatAppend
  <2>2. FlattenSeq(s) \o e \in Seq(A) BY <1>3, ConcatProperties
  <2>3. Append(s, e) \in Seq(Seq(A)) BY AppendProperties
  <2> QED BY <2>1, <2>2, <2>3
<1> HIDE DEF P
<1>4. \A s \in Seq(Seq(A)) : s \in P BY <1>2, <1>3, InductionOverSeq
<1> QED BY <1>1, <1>4 DEF P

(* FlattenSeq of two sequences, one after the other. *)
LEMMA FlatConcat ==
  ASSUME NEW A, NEW s \in Seq(Seq(A)), NEW t \in Seq(Seq(A))
  PROVE  FlattenSeq(s \o t) = FlattenSeq(s) \o FlattenSeq(t)
<1> DEFINE P == {u \in Seq(Seq(A)) : FlattenSeq(s \o u) = FlattenSeq(s) \o FlattenSeq(u)}
<1>1. <<>> \in P
  <2>1. s \o <<>> = s BY ConcatEmptySeq
  <2>2. FlattenSeq(s) \o <<>> = FlattenSeq(s) BY FlatType, ConcatEmptySeq
  <2>3. <<>> \in Seq(Seq(A)) OBVIOUS
  <2> QED BY <2>1, <2>2, <2>3, FlatType
<1>2. ASSUME NEW u \in Seq(Seq(A)), NEW e \in Seq(A), u \in P PROVE Append(u, e) \in P
  <2>1. s \o Append(u, e) = Append(s \o u, e) OBVIOUS
  <2>2. s \o u \in Seq(Seq(A)) OBVIOUS
  <2>3. FlattenSeq(Append(s \o u, e)) = FlattenSeq(s \o u) \o e BY <2>2, FlatAppend
  <2>4. FlattenSeq(Append(u, e)) = FlattenSeq(u) \o e BY FlatAppend
  <2>5. (FlattenSeq(s) \o FlattenSeq(u)) \o e = FlattenSeq(s) \o (FlattenSeq(u) \o e)
    BY FlatType, ConcatAssociative
  <2>6. Append(u, e) \in Seq(Seq(A)) BY AppendProperties
  <2> QED BY <2>1, <2>3, <2>4, <2>5, <2>6, <1>2
<1> HIDE DEF P
<1>3. \A u \in Seq(Seq(A)) : u \in P BY <1>1, <1>2, InductionOverSeq
<1> QED BY <1>3 DEF P

----------------------------------------------------------------------------
(* Scan *)

ScanUpTo(f, g, args, n) ==
  f = [i \in 0 .. n |-> IF i = 0 THEN Nothing ELSE Read(g, f[i - 1], args[i])]

(* The recursion of Scan goes one argument further. *)
LEMMA ScanExtends ==
  ASSUME NEW g, NEW args, NEW m \in Nat, NEW f, ScanUpTo(f, g, args, m)
  PROVE  \E h : ScanUpTo(h, g, args, m + 1)
<1> DEFINE e == [i \in 0 .. (m + 1) |-> IF i = 0 THEN Nothing ELSE Read(g, f[i - 1], args[i])]
<1>1. \A i \in 0 .. m : f[i] = IF i = 0 THEN Nothing ELSE Read(g, f[i - 1], args[i])
  BY Zenon DEF ScanUpTo
<1>2. \A i \in 0 .. m : e[i] = f[i]
  BY <1>1
<1>3. \A i \in 0 .. (m + 1) : i # 0 => i - 1 \in 0 .. m
  OBVIOUS
<1>4. \A i \in 0 .. (m + 1) : (IF i = 0 THEN Nothing ELSE Read(g, f[i - 1], args[i])) =
                              (IF i = 0 THEN Nothing ELSE Read(g, e[i - 1], args[i]))
  <2> HIDE DEF e
  <2> QED BY <1>2, <1>3
<1>5. e = [i \in 0 .. (m + 1) |-> IF i = 0 THEN Nothing ELSE Read(g, e[i - 1], args[i])]
  BY <1>4, Zenon
<1>6. ScanUpTo(e, g, args, m + 1)
  BY <1>5, Zenon DEF ScanUpTo
<1> HIDE DEF e
<1> QED BY <1>6, Zenon

(* ... and so defines a function, whose last value is that of Scan. *)
LEMMA ScanIs ==
  ASSUME NEW g, NEW args, Len(args) \in Nat
  PROVE  \E f : ScanUpTo(f, g, args, Len(args)) /\ Scan(g, args) = f[Len(args)]
<1> DEFINE E == {m \in Nat : \E f : ScanUpTo(f, g, args, m)}
<1>1. 0 \in E
  <2>1. ScanUpTo([i \in 0 .. 0 |-> Nothing], g, args, 0)
    BY DEF ScanUpTo
  <2> QED BY <2>1
<1>2. ASSUME NEW m \in Nat, m \in E PROVE m + 1 \in E
  <2>1. PICK f : ScanUpTo(f, g, args, m) BY <1>2
  <2>2. m + 1 \in Nat OBVIOUS
  <2> QED BY <2>1, <2>2, ScanExtends, Zenon
<1> HIDE DEF E
<1>3. Len(args) \in E
  BY <1>1, <1>2, InductionOverNat
<1>4. \E h : ScanUpTo(h, g, args, Len(args))
  BY <1>3, Zenon DEF E
<1> DEFINE f == CHOOSE f : ScanUpTo(f, g, args, Len(args))
<1>5. ScanUpTo(f, g, args, Len(args))
  BY <1>4, Zenon
<1>6. Scan(g, args) = f[Len(args)]
  BY Zenon DEF Scan, ScanUpTo
<1> QED BY <1>5, <1>6, Zenon

(* Nothing read yet. *)
LEMMA ScanEmpty == ASSUME NEW g PROVE Scan(g, <<>>) = Nothing
<1>1. Len(<<>>) = 0 OBVIOUS
<1>2. PICK f : ScanUpTo(f, g, <<>>, 0) /\ Scan(g, <<>>) = f[0]
  BY <1>1, ScanIs
<1>3. f[0] = Nothing
  BY <1>2 DEF ScanUpTo
<1> QED BY <1>2, <1>3

(* One argument more is one more round of the loop. *)
LEMMA ScanAppend ==
  ASSUME NEW A, NEW g, NEW args \in Seq(A), NEW a \in A
  PROVE  Scan(g, Append(args, a)) = Read(g, Scan(g, args), a)
<1> DEFINE t == Append(args, a)
           n == Len(args)
<1>1. /\ n \in Nat /\ t \in Seq(A) /\ Len(t) = n + 1 /\ t[n + 1] = a
      /\ \A i \in 1 .. n : t[i] = args[i]
  BY AppendProperties, LenProperties
<1> HIDE DEF t
<1>2. PICK h : ScanUpTo(h, g, t, n + 1) /\ Scan(g, t) = h[n + 1]
  BY <1>1, ScanIs
<1>3. PICK f : ScanUpTo(f, g, args, n) /\ Scan(g, args) = f[n]
  BY <1>1, ScanIs
<1>4. \A i \in 0 .. (n + 1) : h[i] = IF i = 0 THEN Nothing ELSE Read(g, h[i - 1], t[i])
  BY <1>2, Zenon DEF ScanUpTo
<1>5. \A i \in 0 .. n : f[i] = IF i = 0 THEN Nothing ELSE Read(g, f[i - 1], args[i])
  BY <1>3, Zenon DEF ScanUpTo
<1> DEFINE E == {i \in Nat : i \in 0 .. n => f[i] = h[i]}
<1>6. 0 \in E BY <1>1, <1>4, <1>5
<1>7. ASSUME NEW i \in Nat, i \in E PROVE i + 1 \in E
  <2> SUFFICES ASSUME i + 1 \in 0 .. n PROVE f[i + 1] = h[i + 1]
    OBVIOUS
  <2>1. (i + 1) - 1 = i /\ i + 1 \in 0 .. (n + 1) /\ i \in 0 .. n /\ i + 1 # 0 /\ i + 1 \in 1 .. n
    BY <1>1
  <2>2. f[i] = h[i] BY <2>1, <1>7
  <2>3. f[i + 1] = Read(g, f[i], args[i + 1]) BY <2>1, <1>5
  <2>4. h[i + 1] = Read(g, h[i], t[i + 1]) BY <2>1, <1>4
  <2> QED BY <2>1, <2>2, <2>3, <2>4, <1>1
<1> HIDE DEF E
<1>8. n \in E BY <1>1, <1>6, <1>7, InductionOverNat
<1>9. f[n] = h[n] BY <1>8, <1>1 DEF E
<1>10. h[n + 1] = Read(g, h[n], t[n + 1])
  <2>1. (n + 1) - 1 = n /\ n + 1 \in 0 .. (n + 1) /\ n + 1 # 0 BY <1>1
  <2> QED BY <2>1, <1>4
<1> QED BY <1>1, <1>2, <1>3, <1>9, <1>10 DEF t

----------------------------------------------------------------------------
(* One round of the loop *)

(* A is the set of the arguments of a line, with NoFlag. *)
KeysOf(g, A) ==
  {"--", g.slot} \cup {Key(g, a.key) : a \in A} \cup {(g.lead \o g.then)[i] : i \in Nat}
Groups(K, A) == [key : K, args : Seq(A)]
GroupsOf(g, A) == Groups(KeysOf(g, A), A)
Readings(g, A) == [groups : Seq(GroupsOf(g, A)), open : A, refused : BOOLEAN]

Pending(r) == IF r.open = NoFlag THEN <<>> ELSE <<r.open>>
Sound(g, A, r) == r \in Readings(g, A) /\ (r.open = NoFlag \/ r.open.dash)

(* Words and pairs do not begin with a dash, flags do. *)
LEMMA DashOf ==
  /\ ~NoFlag.dash
  /\ \A w : ~Word(w).dash /\ Flag(w).dash /\ Word(w).key = w /\ Flag(w).key = w /\ ~Flag(w).eq
<1>1. ~NoFlag.dash /\ \A w : ~Word(w).dash
  BY Zenon DEF NoFlag, Word, Arg
<1>2. \A w : Flag(w).dash /\ ~Flag(w).eq
  BY Zenon DEF Flag, Arg
<1>3. \A w : Word(w).key = w /\ Flag(w).key = w
  BY DEF Word, Flag, Arg
<1> QED BY <1>1, <1>2, <1>3

(* The sequence of two. *)
LEMMA TwoOf ==
  ASSUME NEW A, NEW x \in A, NEW y \in A
  PROVE  Append(<<x>>, y) = <<x, y>> /\ <<x>> \o <<y>> = <<x, y>>
<1>1. /\ <<x>> \in Seq(A) /\ <<x, y>> \in Seq(A) /\ Len(<<x, y>>) = 2 /\ Len(<<x>>) = 1
      /\ <<x, y>>[1] = x /\ <<x, y>>[2] = y /\ <<x>>[1] = x
  OBVIOUS
<1> DEFINE two == <<x, y>>
           both == Append(<<x>>, y)
<1>2. both \in Seq(A) /\ Len(both) = 2 /\ both[1] = x /\ both[2] = y
  BY <1>1, AppendProperties
<1>3. both = <<x>> \o <<y>>
  BY <1>1, AppendIsConcat
<1> HIDE DEF both
<1>4. \A i \in 1 .. Len(both) : both[i] = two[i]
  BY <1>1, <1>2
<1> HIDE DEF two
<1>5. both = two
  BY <1>1, <1>2, <1>4, SeqEqual DEF two
<1> QED BY <1>3, <1>5 DEF both, two

(* What a round of the loop does to what has been read, unless it refuses.  *)
(* An argument is passed over by the parsers that let one pass, only.       *)
Round(g, A, r, a, q) ==
  \/ \E key \in KeysOf(g, A) : q = Taken(r, key, Pending(r) \o <<a>>)
  \/ r.open = NoFlag /\ a.dash /\ q = [r EXCEPT !.open = a]
  \/ r.open = NoFlag /\ InCommand(r) /\ q = [r EXCEPT !.groups[Len(r.groups)].args = Append(@, a)]
  \/ r.open = NoFlag /\ (g.lax \/ g.words = "first") /\ q = r

(* One round does this and nothing else. *)
LEMMA ReadRound ==
  ASSUME NEW g, NEW A, NEW r, Sound(g, A, r), NEW a \in A, ~Read(g, r, a).refused
  PROVE  ~r.refused /\ Round(g, A, r, a, Read(g, r, a))
<1> DEFINE n == Len(r.groups)
           first == g.lead \o g.then
           q == Read(g, r, a)
<1>1. r \in Readings(g, A) /\ n \in Nat
  BY LenProperties DEF Sound, Readings
<1>2. r.refused \in BOOLEAN BY <1>1 DEF Readings
<1>3. ~r.refused BY <1>2 DEF Read
<1>4. \A x : Refuse(r).refused BY <1>1 DEF Refuse, Readings
<1>5. \A key, args, v : ~TakeValue(g, r, key, args, v).refused =>
                           TakeValue(g, r, key, args, v) = Taken(r, key, args)
  BY <1>4 DEF TakeValue
<1>6. ASSUME r.open # NoFlag PROVE Round(g, A, r, a, q)
  <2>1. Key(g, r.open.key) \in KeysOf(g, A)
    BY <1>1 DEF Readings, KeysOf
  <2>2. q = TakeValue(g, r, Key(g, r.open.key), <<r.open, a>>, a)
    BY <1>3, <1>4, <1>6 DEF Read
  <2>3. q = Taken(r, Key(g, r.open.key), <<r.open, a>>)
    BY <2>2, <1>5
  <2>4. <<r.open>> \o <<a>> = <<r.open, a>> BY <1>1, TwoOf DEF Readings
  <2> QED BY <1>6, <2>1, <2>3, <2>4 DEF Round, Pending
<1>7. ASSUME r.open = NoFlag PROVE Round(g, A, r, a, q)
  <2>0. Pending(r) \o <<a>> = <<a>> BY <1>7 DEF Pending
  <2>1. ASSUME NEW key \in KeysOf(g, A), q = Taken(r, key, <<a>>) PROVE Round(g, A, r, a, q)
    BY <2>0, <2>1 DEF Round
  <2>2. CASE InCommand(r)
    BY <1>3, <1>7, <2>2 DEF Read, Round
  <2>3. CASE ~InCommand(r) /\ n < Len(first)
    <3>0. n + 1 \in Nat BY <1>1
    <3>1. first[n + 1] \in KeysOf(g, A) BY <3>0, Zenon DEF KeysOf
    <3>2. q = TakeValue(g, r, first[n + 1], <<a>>, a)
      BY <1>3, <1>7, <2>3 DEF Read
    <3> QED BY <3>1, <3>2, <1>5, <2>1
  <2> DEFINE past == ~InCommand(r) /\ ~(n < Len(first))
  <2>4. "--" \in KeysOf(g, A) /\ g.slot \in KeysOf(g, A) /\ Key(g, a.key) \in KeysOf(g, A)
    BY DEF KeysOf
  <2>5. CASE past /\ g.sep /\ a = Dashes
    <3>1. q = Taken(r, "--", <<a>>) BY <1>3, <1>7, <2>5 DEF Read
    <3> QED BY <3>1, <2>1, <2>4
  <2>6. CASE past /\ ~(g.sep /\ a = Dashes) /\ Known(g, a)
    <3>1. q = ReadFlag(g, r, a) BY <1>3, <1>7, <2>6 DEF Read
    <3>2. a.dash BY <2>6 DEF Known
    <3>3. \/ q = Taken(r, Key(g, a.key), <<a>>)
          \/ q = TakeValue(g, r, Key(g, a.key), <<a>>, Word(a.val))
          \/ q = [r EXCEPT !.open = a]
      BY <3>1, <1>4 DEF ReadFlag
    <3>4. \/ q = Taken(r, Key(g, a.key), <<a>>)
          \/ q = [r EXCEPT !.open = a]
      BY <3>3, <1>5
    <3>5. CASE q = [r EXCEPT !.open = a] BY <3>5, <3>2, <1>7 DEF Round
    <3> QED BY <3>4, <3>5, <2>1, <2>4
  <2>7. CASE past /\ ~(g.sep /\ a = Dashes) /\ ~Known(g, a) /\ Accepts(g, a)
    <3>1. q = ReadWord(g, r, a) BY <1>3, <1>7, <2>7 DEF Read
    <3>2. \/ q = Taken(r, g.slot, <<a>>)
          \/ q = Taken(r, "--", <<a>>)
          \/ g.words = "first" /\ q = r
      BY <3>1, <1>4 DEF ReadWord
    <3>3. CASE g.words = "first" /\ q = r BY <3>3, <1>7 DEF Round
    <3> QED BY <3>2, <3>3, <2>1, <2>4
  <2>8. CASE past /\ ~(g.sep /\ a = Dashes) /\ ~Known(g, a) /\ ~Accepts(g, a)
    <3>1. \/ q = Taken(r, "--", <<a>>)
          \/ g.lax /\ q = r
      BY <1>3, <1>4, <1>7, <2>8 DEF Read
    <3>2. CASE g.lax /\ q = r BY <3>2, <1>7 DEF Round
    <3> QED BY <3>1, <3>2, <2>1, <2>4
  <2> QED BY <2>2, <2>3, <2>5, <2>6, <2>7, <2>8
<1> QED BY <1>3, <1>6, <1>7

----------------------------------------------------------------------------
(* What has been read, in its order *)

(* more holds the arguments of gs, and then those of x. *)
Joins(gs, x, more) == Flattened(more) = Flattened(gs) \o x

(* The arguments of the groups, and of the groups with one more. *)
LEMMA FlattenedAppend ==
  ASSUME NEW K, NEW A, NEW gs \in Seq(Groups(K, A)), NEW gr \in Groups(K, A),
         NEW more, more = Append(gs, gr)
  PROVE  /\ Flattened(<<>>) = <<>>
         /\ Flattened(gs) \in Seq(A)
         /\ Joins(gs, gr.args, more)
<1> DEFINE G == Groups(K, A)
           M(s) == [i \in DOMAIN s |-> s[i].args]
           n == Len(gs)
<1>1. /\ n \in Nat /\ DOMAIN gs = 1 .. n /\ \A i \in 1 .. n : gs[i] \in G
      /\ gr \in G /\ more \in Seq(G)
      /\ Len(more) = n + 1 /\ DOMAIN more = 1 .. (n + 1)
      /\ more[n + 1] = gr /\ \A i \in 1 .. n : more[i] = gs[i]
  <2> HIDE DEF G
  <2>1. gs \in Seq(G) /\ gr \in G BY DEF G
  <2> QED BY <2>1, LenProperties, AppendProperties, ElementOfSeq
<1>2. gr.args \in Seq(A) /\ \A i \in 1 .. n : gs[i].args \in Seq(A)
  BY <1>1 DEF Groups
<1> HIDE DEF G
<1>3. M(gs) \in Seq(Seq(A)) /\ Len(M(gs)) = n /\ \A i \in 1 .. n : M(gs)[i] = gs[i].args
  <2> DEFINE B == Seq(A)
  <2>1. M(gs) = [i \in 1 .. n |-> gs[i].args] BY <1>1
  <2>2. \A i \in 1 .. n : gs[i].args \in B BY <1>2
  <2> HIDE DEF B
  <2>3. [i \in 1 .. n |-> gs[i].args] \in Seq(B) BY <1>1, <2>2
  <2>4. Len([i \in 1 .. n |-> gs[i].args]) = n BY <1>1
  <2> QED BY <2>1, <2>3, <2>4 DEF B
<1>4. M(more) \in Seq(Seq(A)) /\ Len(M(more)) = n + 1 /\ \A i \in 1 .. (n + 1) : M(more)[i] = more[i].args
  <2> DEFINE B == Seq(A)
  <2>1. M(more) = [i \in 1 .. (n + 1) |-> more[i].args] BY <1>1
  <2>2. \A i \in 1 .. (n + 1) : more[i].args \in B BY <1>1, <1>2
  <2> HIDE DEF B
  <2>3. [i \in 1 .. (n + 1) |-> more[i].args] \in Seq(B) BY <1>1, <2>2
  <2>4. Len([i \in 1 .. (n + 1) |-> more[i].args]) = n + 1 BY <1>1
  <2> QED BY <2>1, <2>3, <2>4 DEF B
<1>5. M(more) = Append(M(gs), gr.args)
  <2> DEFINE B == Seq(A)
             m == M(gs)
             x == gr.args
             l == M(more)
             k == Append(m, x)
  <2>1. m \in Seq(B) /\ Len(m) = n /\ x \in B /\ l \in Seq(B) /\ Len(l) = n + 1
    BY <1>2, <1>3, <1>4
  <2>2. l[n + 1] = x /\ \A i \in 1 .. n : l[i] = m[i]
    BY <1>1, <1>3, <1>4
  <2> HIDE DEF B, m, x, l
  <2>3. k \in Seq(B) /\ Len(k) = n + 1 /\ k[n + 1] = x /\ \A i \in 1 .. n : k[i] = m[i]
    BY <2>1, AppendProperties
  <2>4. \A i \in 1 .. Len(l) : l[i] = k[i] BY <1>1, <2>1, <2>2, <2>3
  <2> HIDE DEF k
  <2>5. l = k BY <2>1, <2>3, <2>4, SeqEqual
  <2> QED BY <2>5 DEF k, l, m, x
<1>6. Flattened(<<>>) = <<>>
  <2>1. [i \in DOMAIN <<>> |-> <<>>[i].args] = <<>> OBVIOUS
  <2> QED BY <2>1, FlatType DEF Flattened
<1>7. Flattened(gs) = FlattenSeq(M(gs)) /\ Flattened(more) = FlattenSeq(M(more))
  BY DEF Flattened
<1> HIDE DEF M
<1>8. FlattenSeq(M(gs)) \in Seq(A) BY <1>3, FlatType
<1>9. FlattenSeq(Append(M(gs), gr.args)) = FlattenSeq(M(gs)) \o gr.args
  BY <1>2, <1>3, FlatAppend
<1> QED BY <1>5, <1>6, <1>7, <1>8, <1>9 DEF Joins

Longer(gs, a, more) == more = [gs EXCEPT ![Len(gs)].args = Append(@, a)]

(* An argument more in the last group is one more at the end. *)
LEMMA FlattenedExtend ==
  ASSUME NEW K, NEW A, NEW gs \in Seq(Groups(K, A)), gs # <<>>, NEW a \in A,
         NEW more, Longer(gs, a, more)
  PROVE  /\ more \in Seq(Groups(K, A))
         /\ Joins(gs, <<a>>, more)
<1> DEFINE G == Groups(K, A)
<1>1. gs \in Seq(G) OBVIOUS
<1> HIDE DEF G
<1>2. PICK f \in Seq(G), last \in G : gs = Append(f, last)
  BY <1>1, SequenceEmptyOrAppend
<1> DEFINE n == Len(f)
           new == [last EXCEPT !.args = Append(@, a)]
           alt == Append(f, new)
<1>3. /\ n \in Nat /\ Len(gs) = n + 1 /\ gs[n + 1] = last /\ \A i \in 1 .. n : gs[i] = f[i]
      /\ DOMAIN gs = 1 .. (n + 1)
  BY <1>1, <1>2, AppendProperties, LenProperties
<1>4. last.args \in Seq(A) BY <1>2 DEF G, Groups
<1>5. Append(last.args, a) \in Seq(A) BY <1>4, AppendProperties
<1>6. new \in G /\ new.args = Append(last.args, a) BY <1>2, <1>5 DEF G, Groups
<1>7. more = [gs EXCEPT ![n + 1] = new]
  BY <1>3 DEF Longer
<1> HIDE DEF new
<1>8. more \in Seq(G) /\ Len(more) = n + 1 /\ more[n + 1] = new /\ \A i \in 1 .. n : more[i] = f[i]
  BY <1>1, <1>3, <1>6, <1>7, ExceptSeq
<1>9. alt \in Seq(G) /\ Len(alt) = n + 1 /\ alt[n + 1] = new /\ \A i \in 1 .. n : alt[i] = f[i]
  BY <1>3, <1>6, AppendProperties
<1> HIDE DEF alt
<1>10. \A i \in 1 .. Len(more) : more[i] = alt[i]
  <2> SUFFICES ASSUME NEW i \in 1 .. Len(more) PROVE more[i] = alt[i]
    OBVIOUS
  <2>1. i \in 1 .. n \/ i = n + 1 BY <1>3, <1>8
  <2>2. CASE i = n + 1 BY <2>2, <1>8, <1>9, Zenon
  <2>3. CASE i \in 1 .. n BY <2>3, <1>8, <1>9, Zenon
  <2> QED BY <2>1, <2>2, <2>3
<1>11. more = alt BY <1>8, <1>9, <1>10, SeqEqual
<1>12. /\ Flattened(f) \in Seq(A) /\ Flattened(gs) = Flattened(f) \o last.args
       /\ Flattened(alt) = Flattened(f) \o new.args
  <2>1. f \in Seq(Groups(K, A)) /\ last \in Groups(K, A)
        /\ new \in Groups(K, A)
    BY <1>2, <1>6, Zenon DEF G
  <2>2. Flattened(f) \in Seq(A) /\ Joins(f, last.args, gs)
    BY <1>2, <2>1, FlattenedAppend
  <2>3. Joins(f, new.args, alt)
    BY <2>1, FlattenedAppend DEF alt
  <2> QED BY <2>2, <2>3 DEF Joins
<1>13. (Flattened(f) \o last.args) \o <<a>> = Flattened(f) \o Append(last.args, a)
  <2>1. ASSUME NEW u \in Seq(A), NEW v \in Seq(A) PROVE (u \o v) \o <<a>> = u \o Append(v, a)
    <3>1. u \o Append(v, a) = Append(u \o v, a) OBVIOUS
    <3>2. Append(u \o v, a) = (u \o v) \o <<a>> OBVIOUS
    <3> QED BY <3>1, <3>2
  <2> QED BY <2>1, <1>4, <1>12
<1> QED BY <1>6, <1>8, <1>11, <1>12, <1>13 DEF G, Joins

----------------------------------------------------------------------------
(* The commands *)

(* What the arguments are when they start with the words of a command. *)
Begins(args, k1, k2, k3) ==
  /\ \A op, x, g : /\ Len(Top(op, x, g).path) = 1
                   /\ Starts(Top(op, x, g).path, args) => k1 \in x
  /\ \A op, x, y, g : /\ Len(Sub(op, x, y, g).path) = 2
                      /\ Starts(Sub(op, x, y, g).path, args) => k1 \in x /\ k2 \in y
  /\ \A op, x, y, z, g : /\ Len(Deep(op, x, y, z, g).path) = 3
                         /\ Starts(Deep(op, x, y, z, g).path, args) => k1 \in x /\ k2 \in y /\ k3 \in z

(* A command's words are what the arguments have before any "=". *)
LEMMA BeginsWith == ASSUME NEW args PROVE Begins(args, args[1].key, args[2].key, args[3].key)
<1>1. ASSUME NEW S, NEW a, a \in {Word(w) : w \in S} PROVE a.key \in S
  BY <1>1, DashOf, Zenon
<1>2. ASSUME NEW p, Starts(p, args), NEW i \in DOMAIN p PROVE args[i].key \in p[i]
  BY <1>1, <1>2 DEF Starts
<1>3. \A op, g, p : Is(op, p, g).path = p
  BY DEF Is
<1>4. ASSUME NEW op, NEW x, NEW g
      PROVE  Len(Top(op, x, g).path) = 1 /\ (Starts(Top(op, x, g).path, args) => args[1].key \in x)
  <2>1. Len(<<x>>) = 1 /\ DOMAIN <<x>> = {1} /\ <<x>>[1] = x OBVIOUS
  <2> QED BY <1>2, <1>3, <2>1 DEF Top
<1>5. ASSUME NEW op, NEW x, NEW y, NEW g
      PROVE  /\ Len(Sub(op, x, y, g).path) = 2
             /\ Starts(Sub(op, x, y, g).path, args) => args[1].key \in x /\ args[2].key \in y
  <2>1. Len(<<x, y>>) = 2 /\ DOMAIN <<x, y>> = {1, 2} /\ <<x, y>>[1] = x /\ <<x, y>>[2] = y OBVIOUS
  <2> QED BY <1>2, <1>3, <2>1 DEF Sub
<1>6. ASSUME NEW op, NEW x, NEW y, NEW z, NEW g
      PROVE  /\ Len(Deep(op, x, y, z, g).path) = 3
             /\ Starts(Deep(op, x, y, z, g).path, args) =>
                  args[1].key \in x /\ args[2].key \in y /\ args[3].key \in z
  <2>1. /\ Len(<<x, y, z>>) = 3 /\ DOMAIN <<x, y, z>> = {1, 2, 3}
        /\ <<x, y, z>>[1] = x /\ <<x, y, z>>[2] = y /\ <<x, y, z>>[3] = z
    OBVIOUS
  <2> QED BY <1>2, <1>3, <2>1 DEF Deep
<1> QED BY <1>4, <1>5, <1>6, Zenon DEF Begins

(* Two of a kind of commands that begin a line with as many words are one,  *)
(* and its first words are those of the kind.                               *)
Told(S, words, args, k1) ==
  /\ \A c \in S : Len(c.path) \in 1 .. 3
  /\ \A c, d \in S : Starts(c.path, args) /\ Starts(d.path, args) /\ Len(c.path) = Len(d.path) => c = d
  /\ \A c \in S : Starts(c.path, args) => k1 \in words

TopWords ==
  General \cup {"init", "doctor", "dr", "exec", "logs", "lg", "ssh-proxy", "proxy", "completions", "install"}

(* So it is with every kind ... *)
LEMMA EachTold ==
  ASSUME NEW args, NEW k1, NEW k2, NEW k3, Begins(args, k1, k2, k3)
  PROVE  /\ Told(TopCommands, TopWords, args, k1)
         /\ Told(SandboxCommands, {"sandbox", "sb"}, args, k1)
         /\ Told(GatewayCommands, {"gateway", "gw"}, args, k1)
         /\ Told(PolicyCommands, {"policy", "pol"}, args, k1)
         /\ Told(ProviderCommands \cup ProfileCommands, {"provider", "profile"}, args, k1)
         /\ Told(WorkspaceCommands, {"workspace", "ws"}, args, k1)
         /\ Told(StoreCommands, {"settings", "forward", "fwd", "service", "svc", "rule", "rl", "inference"},
                 args, k1)
<1>1. Told(TopCommands, TopWords, args, k1)
  <2>1. \A c \in TopCommands : Len(c.path) \in 1 .. 3
    BY SMTT(60) DEF Begins, TopCommands
  <2>2. \A c \in TopCommands : Starts(c.path, args) => k1 \in TopWords
    BY SMTT(60) DEF Begins, TopCommands, TopWords
  <2>3. ASSUME NEW c \in TopCommands, NEW d \in TopCommands,
               Starts(c.path, args), Starts(d.path, args), Len(c.path) = Len(d.path)
        PROVE  c = d
    <3>1. General \cap {"init", "doctor", "dr", "exec", "logs", "lg", "ssh-proxy", "proxy", "completions",
                        "install"} = {}
      BY DEF General
    <3> QED BY <2>3, <3>1, SMTT(60) DEF Begins, TopCommands
  <2> QED BY <2>1, <2>2, <2>3 DEF Told
<1>2. Told(SandboxCommands, {"sandbox", "sb"}, args, k1)
  <2>1. \A c \in SandboxCommands : Len(c.path) \in 1 .. 3
    BY SMTT(60) DEF Begins, SandboxCommands, Ls, Rm
  <2>2. \A c \in SandboxCommands : Starts(c.path, args) => k1 \in {"sandbox", "sb"}
    BY SMTT(60) DEF Begins, SandboxCommands, Ls, Rm
  <2>3. ASSUME NEW c \in SandboxCommands, NEW d \in SandboxCommands,
               Starts(c.path, args), Starts(d.path, args), Len(c.path) = Len(d.path)
        PROVE  c = d
    BY <2>3, SMTT(60) DEF Begins, SandboxCommands, Ls, Rm
  <2> QED BY <2>1, <2>2, <2>3 DEF Told
<1>3. Told(GatewayCommands, {"gateway", "gw"}, args, k1)
  BY SMTT(60) DEF Told, Begins, GatewayCommands
<1>4. Told(PolicyCommands, {"policy", "pol"}, args, k1)
  BY SMTT(60) DEF Told, Begins, PolicyCommands, Ls, Rm
<1>5. Told(ProviderCommands \cup ProfileCommands, {"provider", "profile"}, args, k1)
  <2>1. Told(ProviderCommands, {"provider"}, args, k1)
    <3>1. \A c \in ProviderCommands : Len(c.path) \in 1 .. 3
      BY SMTT(60) DEF Begins, ProviderCommands, Ls, Rm
    <3>2. \A c \in ProviderCommands : Starts(c.path, args) => k1 \in {"provider"}
      BY SMTT(60) DEF Begins, ProviderCommands, Ls, Rm
    <3>3. ASSUME NEW c \in ProviderCommands, NEW d \in ProviderCommands,
                 Starts(c.path, args), Starts(d.path, args), Len(c.path) = Len(d.path)
          PROVE  c = d
      BY <3>3, SMTT(60) DEF Begins, ProviderCommands, Ls, Rm
    <3> QED BY <3>1, <3>2, <3>3 DEF Told
  <2>2. Told(ProfileCommands, {"provider", "profile"}, args, k1)
    BY SMTT(60) DEF Told, Begins, ProfileCommands, Ls
  <2>3. ASSUME NEW c \in ProviderCommands, Starts(c.path, args) PROVE k1 = "provider" /\ k2 # "profile"
    BY <2>3, SMTT(60) DEF Begins, ProviderCommands, Ls, Rm
  <2>4. ASSUME NEW c \in ProfileCommands, Starts(c.path, args) PROVE k1 # "provider" \/ k2 = "profile"
    BY <2>4, SMTT(60) DEF Begins, ProfileCommands, Ls
  <2> QED BY <2>1, <2>2, <2>3, <2>4 DEF Told
<1>6. Told(WorkspaceCommands, {"workspace", "ws"}, args, k1)
  BY SMTT(60) DEF Told, Begins, WorkspaceCommands, Ls, Rm
<1>7. Told(StoreCommands, {"settings", "forward", "fwd", "service", "svc", "rule", "rl", "inference"},
           args, k1)
  <2>1. \A c \in StoreCommands : Len(c.path) \in 1 .. 3
    BY SMTT(60) DEF Begins, StoreCommands, Ls, Rm
  <2>2. \A c \in StoreCommands : Starts(c.path, args) => k1 \in
          {"settings", "forward", "fwd", "service", "svc", "rule", "rl", "inference"}
    BY SMTT(60) DEF Begins, StoreCommands, Ls, Rm
  <2>3. ASSUME NEW c \in StoreCommands, NEW d \in StoreCommands,
               Starts(c.path, args), Starts(d.path, args), Len(c.path) = Len(d.path)
        PROVE  c = d
    BY <2>3, SMTT(60) DEF Begins, StoreCommands, Ls, Rm
  <2> QED BY <2>1, <2>2, <2>3 DEF Told
<1> QED BY <1>1, <1>2, <1>3, <1>4, <1>5, <1>6, <1>7

(* ... and with all of them: whatever was typed, at most one command is     *)
(* found for it.                                                            *)
THEOREM OneCommand == \A args : \A c, d \in Matching(args) : c = d
<1> SUFFICES ASSUME NEW args, NEW c \in Matching(args), NEW d \in Matching(args) PROVE c = d
  OBVIOUS
<1> DEFINE k1 == args[1].key
<1>1. Begins(args, k1, args[2].key, args[3].key) BY BeginsWith
<1> HIDE DEF k1
<1>2. /\ c \in Commands /\ d \in Commands /\ Starts(c.path, args) /\ Starts(d.path, args)
      /\ Len(c.path) <= Len(d.path) /\ Len(d.path) <= Len(c.path)
  BY DEF Matching
<1>3. Len(c.path) \in 1 .. 3 /\ Len(d.path) \in 1 .. 3
  BY <1>1, <1>2, EachTold DEF Commands, Told
<1>4. Len(c.path) = Len(d.path)
  BY <1>2, <1>3
<1> QED BY <1>1, <1>2, <1>4, EachTold, SMTT(60) DEF Commands, Told, TopWords, General

(* Every command is named by one to three words. *)
LEMMA PathLengths == \A c \in Commands : Len(c.path) \in 1 .. 3
<1> SUFFICES ASSUME NEW c \in Commands PROVE Len(c.path) \in 1 .. 3
  OBVIOUS
<1> DEFINE args == <<>>
<1>1. Begins(args, args[1].key, args[2].key, args[3].key) BY BeginsWith
<1> HIDE DEF args
<1> QED BY <1>1, EachTold DEF Commands, Told

----------------------------------------------------------------------------
(* Nothing is dropped *)

(* A round of the loop that does not refuse keeps what has been read sound, *)
(* and adds the argument at its end.                                        *)
LEMMA RoundSound ==
  ASSUME NEW g, NEW A, NoFlag \in A, NEW r, Sound(g, A, r), NEW a \in A, NEW q,
         ~r.refused, Round(g, A, r, a, q)
  PROVE  /\ Sound(g, A, q) /\ ~q.refused
         /\ \/ Flattened(q.groups) \o Pending(q) = Append(Flattened(r.groups) \o Pending(r), a)
            \/ (g.lax \/ g.words = "first") /\ q = r
<1> DEFINE K == KeysOf(g, A)
           n == Len(r.groups)
           f == Flattened(r.groups)
           p == Pending(r)
<1>0. "--" \in K BY DEF KeysOf
<1>1. /\ r = [groups |-> r.groups, open |-> r.open, refused |-> r.refused]
      /\ r.groups \in Seq(Groups(K, A)) /\ r.open \in A /\ r.refused \in BOOLEAN
      /\ r.open = NoFlag \/ r.open.dash
  BY DEF Sound, Readings, GroupsOf
<1>2. \A x : x \in Readings(g, A) <=>
        /\ x = [groups |-> x.groups, open |-> x.open, refused |-> x.refused]
        /\ x.groups \in Seq(Groups(K, A)) /\ x.open \in A /\ x.refused \in BOOLEAN
  BY DEF Readings, GroupsOf
<1> HIDE DEF K
<1>3. p \in Seq(A) /\ (r.open = NoFlag => p = <<>>)
  BY <1>1 DEF Pending
<1>4. f \in Seq(A)
  <2>1. <<>> \in Seq(A) OBVIOUS
  <2>2. [key |-> "--", args |-> <<>>] \in Groups(K, A) BY <1>0, <2>1 DEF Groups
  <2> QED BY <1>1, <2>2, FlattenedAppend
<1> HIDE DEF f, p
<1>5. (f \o p) \o <<a>> = Append(f \o p, a) /\ f \o (p \o <<a>>) = (f \o p) \o <<a>>
      /\ f \o <<>> = f /\ p \o <<a>> \in Seq(A)
  BY <1>3, <1>4
<1>6. ASSUME NEW key \in K, q = Taken(r, key, p \o <<a>>)
      PROVE  Sound(g, A, q) /\ ~q.refused /\ Flattened(q.groups) \o Pending(q) = Append(f \o p, a)
  <2> DEFINE gr == Group(key, p \o <<a>>)
  <2>1. gr \in Groups(K, A) /\ gr.args = p \o <<a>> BY <1>5 DEF Group, Groups
  <2>2. q.groups = Append(r.groups, gr) /\ q.open = NoFlag /\ q.refused = r.refused
        /\ q = [groups |-> q.groups, open |-> q.open, refused |-> q.refused]
    <3> HIDE DEF gr
    <3>1. q = [r EXCEPT !.groups = Append(@, gr), !.open = NoFlag] BY <1>6, Zenon DEF Taken, gr
    <3> QED BY <1>1, <3>1
  <2> HIDE DEF gr
  <2>3. Flattened(q.groups) = f \o gr.args
    <3>0. r.groups \in Seq(Groups(K, A)) /\ gr \in Groups(K, A) BY <1>1, <2>1
    <3>1. Joins(r.groups, gr.args, q.groups)
      BY <2>2, <3>0, FlattenedAppend
    <3> QED BY <3>1 DEF f, Joins
  <2>4. q.groups \in Seq(Groups(K, A)) BY <1>1, <2>1, <2>2, AppendProperties
  <2>5. Flattened(q.groups) = Append(f \o p, a) BY <2>1, <2>3, <1>5
  <2>6. Pending(q) = <<>> BY <2>2 DEF Pending
  <2>7. Append(f \o p, a) \o <<>> = Append(f \o p, a) BY <1>3, <1>4
  <2>8. Sound(g, A, q) BY <1>1, <1>2, <2>2, <2>4 DEF Sound
  <2>9. ~q.refused BY <2>2
  <2> QED BY <2>5, <2>6, <2>7, <2>8, <2>9
<1>7. ASSUME r.open = NoFlag, a.dash, q = [r EXCEPT !.open = a]
      PROVE  Sound(g, A, q) /\ ~q.refused /\ Flattened(q.groups) \o Pending(q) = Append(f \o p, a)
  <2>1. q.groups = r.groups /\ q.open = a /\ q.refused = r.refused
        /\ q = [groups |-> q.groups, open |-> q.open, refused |-> q.refused]
    BY <1>1, <1>7
  <2>2. a # NoFlag BY <1>7, DashOf
  <2>3. Pending(q) = <<a>> BY <2>1, <2>2 DEF Pending
  <2>4. Flattened(q.groups) \o Pending(q) = Append(f \o p, a)
    BY <1>3, <1>5, <1>7, <2>1, <2>3 DEF f
  <2>5. Sound(g, A, q) BY <1>1, <1>2, <1>7, <2>1 DEF Sound
  <2>6. ~q.refused BY <2>1
  <2> QED BY <2>4, <2>5, <2>6
<1>8. ASSUME r.open = NoFlag, InCommand(r), q = [r EXCEPT !.groups[n].args = Append(@, a)]
      PROVE  Sound(g, A, q) /\ ~q.refused /\ Flattened(q.groups) \o Pending(q) = Append(f \o p, a)
  <2> DEFINE more == [r.groups EXCEPT ![n].args = Append(@, a)]
  <2>1. q.groups = more /\ q.open = r.open /\ q.refused = r.refused
        /\ q = [groups |-> q.groups, open |-> q.open, refused |-> q.refused]
    <3>1. q = [r EXCEPT !.groups = more] BY <1>1, <1>8
    <3> HIDE DEF more
    <3> QED BY <1>1, <3>1
  <2>2. r.groups # <<>> BY <1>8 DEF InCommand
  <2>3. more \in Seq(Groups(K, A)) /\ Flattened(more) = Append(f, a)
    <3>1. r.groups \in Seq(Groups(K, A)) BY <1>1
    <3>2. Longer(r.groups, a, more) BY DEF Longer
    <3> HIDE DEF more
    <3>3. more \in Seq(Groups(K, A)) /\ Joins(r.groups, <<a>>, more)
      BY <3>1, <3>2, <2>2, FlattenedExtend
    <3>4. f \o <<a>> = Append(f, a) BY <1>4
    <3> QED BY <3>3, <3>4 DEF f, Joins
  <2> HIDE DEF more
  <2>4. Pending(q) = <<>> BY <1>8, <2>1 DEF Pending
  <2>5. Append(f, a) \o <<>> = Append(f, a) BY <1>4
  <2>6. Flattened(q.groups) \o Pending(q) = Append(f \o p, a)
    BY <1>3, <1>5, <1>8, <2>1, <2>3, <2>4, <2>5
  <2>7. Sound(g, A, q) BY <1>1, <1>2, <2>1, <2>3 DEF Sound
  <2>8. ~q.refused BY <2>1
  <2> QED BY <2>6, <2>7, <2>8
<1>9. \/ \E key \in K : q = Taken(r, key, p \o <<a>>)
      \/ r.open = NoFlag /\ a.dash /\ q = [r EXCEPT !.open = a]
      \/ r.open = NoFlag /\ InCommand(r) /\ q = [r EXCEPT !.groups[n].args = Append(@, a)]
      \/ (g.lax \/ g.words = "first") /\ q = r
  BY Zenon DEF Round, p, K
<1>10. Flattened(r.groups) \o Pending(r) = f \o p BY DEF f, p
<1> HIDE DEF n
<1>11. CASE \E key \in K : q = Taken(r, key, p \o <<a>>) BY <1>6, <1>10, <1>11
<1>12. CASE r.open = NoFlag /\ a.dash /\ q = [r EXCEPT !.open = a] BY <1>7, <1>10, <1>12
<1>13. CASE r.open = NoFlag /\ InCommand(r) /\ q = [r EXCEPT !.groups[n].args = Append(@, a)]
  BY <1>8, <1>10, <1>13
<1>14. CASE (g.lax \/ g.words = "first") /\ q = r BY <1>14
<1> QED BY <1>9, <1>11, <1>12, <1>13, <1>14

(* What the loop has read of some arguments, unless it refused one of them, *)
(* is sound, and all of them in their order.                                *)
LEMMA ScanKeeps ==
  ASSUME NEW g, NEW A, NoFlag \in A
  PROVE  \A args \in Seq(A) : ~Scan(g, args).refused =>
           /\ Sound(g, A, Scan(g, args))
           /\ ~g.lax /\ g.words # "first" =>
                Flattened(Scan(g, args).groups) \o Pending(Scan(g, args)) = args
<1> DEFINE Good(args) ==
      ~Scan(g, args).refused =>
        /\ Sound(g, A, Scan(g, args))
        /\ ~g.lax /\ g.words # "first" =>
             Flattened(Scan(g, args).groups) \o Pending(Scan(g, args)) = args
    P == {args \in Seq(A) : Good(args)}
<1>1. <<>> \in P
  <2>1. Scan(g, <<>>) = Nothing BY ScanEmpty
  <2>2. Nothing.groups = <<>> /\ Nothing.open = NoFlag /\ Nothing.refused = FALSE BY DEF Nothing
  <2>3. Nothing \in Readings(g, A)
    <3> DEFINE G == GroupsOf(g, A)
    <3>1. <<>> \in Seq(G) OBVIOUS
    <3> HIDE DEF G
    <3>2. Nothing \in [groups : Seq(G), open : A, refused : BOOLEAN] BY <3>1 DEF Nothing
    <3> QED BY <3>2 DEF G, Readings
  <2>4. Sound(g, A, Nothing) BY <2>2, <2>3 DEF Sound
  <2>5. Flattened(<<>>) = <<>> BY FlatType DEF Flattened
  <2>6. Pending(Nothing) = <<>> BY <2>2 DEF Pending
  <2>7. <<>> \o <<>> = <<>> /\ <<>> \in Seq(A) OBVIOUS
  <2> QED BY <2>1, <2>2, <2>4, <2>5, <2>6, <2>7
<1>2. ASSUME NEW args \in Seq(A), NEW a \in A, args \in P PROVE Append(args, a) \in P
  <2> DEFINE r == Scan(g, args)
             q == Read(g, r, a)
  <2>1. Scan(g, Append(args, a)) = q BY ScanAppend
  <2>2. Append(args, a) \in Seq(A) BY AppendProperties
  <2>3. ASSUME ~q.refused PROVE ~r.refused
    BY <2>3 DEF Read
  <2>4. ASSUME ~q.refused
        PROVE  /\ Sound(g, A, q)
               /\ ~g.lax /\ g.words # "first" => Flattened(q.groups) \o Pending(q) = Append(args, a)
    <3>1. ~r.refused BY <2>3, <2>4
    <3>2. Sound(g, A, r) /\ (~g.lax /\ g.words # "first" => Flattened(r.groups) \o Pending(r) = args)
      BY <1>2, <3>1
    <3> HIDE DEF r
    <3>3. ~r.refused /\ Round(g, A, r, a, q) BY <2>4, <3>2, ReadRound
    <3> HIDE DEF q
    <3>4. /\ Sound(g, A, q)
          /\ \/ Flattened(q.groups) \o Pending(q) = Append(Flattened(r.groups) \o Pending(r), a)
             \/ (g.lax \/ g.words = "first") /\ q = r
      BY <3>2, <3>3, RoundSound, SMTT(30)
    <3> QED BY <3>2, <3>4
  <2> HIDE DEF r, q
  <2> QED BY <2>1, <2>2, <2>4
<1> HIDE DEF P
<1>3. \A args \in Seq(A) : args \in P BY <1>1, <1>2, InductionOverSeq
<1> QED BY <1>3 DEF P

(* The arguments of what has been read. *)
LEMMA FlattenedType ==
  ASSUME NEW g, NEW A, NEW r \in Readings(g, A)
  PROVE  Flattened(r.groups) \in Seq(A) /\ Flattened(r.groups) \o <<>> = Flattened(r.groups)
<1> DEFINE gr == [key |-> "--", args |-> <<>>]
<1>1. gr \in GroupsOf(g, A)
  <2>1. "--" \in KeysOf(g, A) BY DEF KeysOf
  <2>2. <<>> \in Seq(A) OBVIOUS
  <2> QED BY <2>1, <2>2 DEF GroupsOf, Groups
<1>2. r.groups \in Seq(GroupsOf(g, A)) BY DEF Readings
<1> HIDE DEF gr
<1>3. Flattened(r.groups) \in Seq(A)
  BY <1>1, <1>2, FlattenedAppend DEF GroupsOf
<1> QED BY <1>3

(* The end of some arguments is a sequence of arguments. *)
LEMMA AfterType ==
  ASSUME NEW A, NEW args \in Seq(A), NEW c \in Commands, Starts(c.path, args)
  PROVE  After(c, args) \in Seq(A)
<1>1. Len(c.path) \in Nat /\ Len(args) \in Nat /\ Len(args) >= Len(c.path)
  BY PathLengths DEF Starts
<1>2. \A i \in (Len(c.path) + 1) .. Len(args) : args[i] \in A
  BY <1>1
<1> QED BY <1>1, <1>2, SubSeqProperties DEF After

(* The global flags are never refused ... *)
LEMMA GlobalsRefuseNothing ==
  ASSUME NEW A, NoFlag \in A
  PROVE  \A typed \in Seq(A) : ~Scan(Globals, typed).refused
<1> DEFINE P == {typed \in Seq(A) : ~Scan(Globals, typed).refused}
<1>1. /\ Globals.must = No /\ ~Globals.once /\ Globals.words = "stop" /\ ~Globals.sep
      /\ Globals.lead = <<>> /\ Globals.then = <<>>
  BY DEF Globals, Plain
<1>2. \A key, v : Fits(Must(Globals, key), v)
  BY <1>1 DEF Must, Fits, No
<1>3. <<>> \in P
  <2>1. ~Nothing.refused BY DEF Nothing
  <2>2. <<>> \in Seq(A) OBVIOUS
  <2> QED BY <2>1, <2>2, ScanEmpty
<1>4. ASSUME NEW typed \in Seq(A), NEW a \in A, typed \in P PROVE Append(typed, a) \in P
  <2> DEFINE r == Scan(Globals, typed)
             q == Read(Globals, r, a)
  <2>1. Scan(Globals, Append(typed, a)) = q /\ Append(typed, a) \in Seq(A)
    BY ScanAppend, AppendProperties
  <2>2. ~r.refused /\ Sound(Globals, A, r) BY <1>4, ScanKeeps
  <2> HIDE DEF r
  <2>3. r = [groups |-> r.groups, open |-> r.open, refused |-> r.refused]
        /\ r.groups \in Seq(GroupsOf(Globals, A))
    BY <2>2 DEF Sound, Readings
  <2>4. \A key, args, v : TakeValue(Globals, r, key, args, v) = Taken(r, key, args)
    BY <1>2 DEF TakeValue
  <2>5. \A key, args : ~Taken(r, key, args).refused
    BY <2>2, <2>3 DEF Taken
  <2>6. ~[r EXCEPT !.open = a].refused BY <2>2, <2>3
  <2>7. ~ReadFlag(Globals, r, a).refused
    BY <1>1, <2>4, <2>5, <2>6 DEF ReadFlag, Repeats
  <2>8. \A x : ~[r EXCEPT !.groups = x].refused BY <2>2, <2>3
  <2>9. ~[r EXCEPT !.groups[Len(r.groups)].args = Append(@, a)].refused
    BY <2>8
  <2>10. ~Accepts(Globals, a) BY <1>1 DEF Accepts
  <2>11. ~q.refused
    BY <1>1, <2>2, <2>4, <2>5, <2>7, <2>9, <2>10 DEF Read
  <2> QED BY <2>1, <2>11
<1> HIDE DEF P
<1>5. \A typed \in Seq(A) : typed \in P BY <1>3, <1>4, InductionOverSeq
<1> QED BY <1>5 DEF P

(* ... and what follows them is a sequence of arguments. *)
LEMMA RestType ==
  ASSUME NEW A, NoFlag \in A, NEW typed \in Seq(A)
  PROVE  Rest(typed) \in Seq(A)
<1> DEFINE r == Scan(Globals, typed)
<1>1. CASE ~InCommand(r)
  <2>1. <<>> \in Seq(A) OBVIOUS
  <2> QED BY <1>1, <2>1 DEF Rest
<1>2. CASE InCommand(r)
  <2>1. r.groups \in Seq(GroupsOf(Globals, A)) /\ r.groups # <<>>
    BY <1>2, GlobalsRefuseNothing, ScanKeeps DEF InCommand, Sound, Readings
  <2> HIDE DEF r
  <2>2. Last(r.groups) \in GroupsOf(Globals, A)
    BY <2>1 DEF Last
  <2>3. Last(r.groups).args \in Seq(A) BY <2>2 DEF GroupsOf, Groups
  <2> QED BY <1>2, <2>3 DEF Rest, r
<1> QED BY <1>1, <1>2

(* What a handler is called with: the groups the parser of the one command  *)
(* that was found has read, of what follows its words.                      *)
LEMMA ExecutedCalled ==
  ASSUME NEW A, NoFlag \in A, NEW typed \in Seq(A), Executed(typed).how = "called"
  PROVE  /\ Rest(typed) \in Seq(A) /\ Rest(typed) # <<>> /\ ~WantsHelp(Rest(typed))
         /\ Matched(Rest(typed)) \in Matching(Rest(typed))
         /\ LET c == Matched(Rest(typed))
                r == Scan(c.grammar, After(c, Rest(typed)))
            IN  /\ Complete(c.grammar, r) /\ Sensible(c.op, r)
                /\ Executed(typed) = [how |-> "called", op |-> c.op, groups |-> r.groups,
                                      meaning |-> Meaning(c.op, c.grammar, r)]
<1> DEFINE args == Rest(typed)
<1>1. \A how : Ends(how).how = how BY DEF Ends
<1>2. ~WantsHelp(args) /\ args # <<>> /\ Executed(typed) = Called(args)
  BY <1>1 DEF Executed
<1>3. args \in Seq(A) BY RestType
<1> HIDE DEF args
<1>4. Matching(args) # {} /\ Called(args).how = "called"
  BY <1>1, <1>2 DEF Called
<1>5. Matched(args) \in Matching(args) BY <1>4 DEF Matched
<1> DEFINE c == Matched(args)
           r == Scan(c.grammar, After(c, args))
<1>6. Called(args) = IF Complete(c.grammar, r) /\ Sensible(c.op, r)
                     THEN [how |-> "called", op |-> c.op, meaning |-> Meaning(c.op, c.grammar, r),
                           groups |-> r.groups]
                     ELSE Ends("refused")
  BY <1>4, Zenon DEF Called
<1> HIDE DEF c, r
<1>7. Complete(c.grammar, r) /\ Sensible(c.op, r)
  <2>1. Ends("refused").how # "called" BY <1>1
  <2> QED BY <1>4, <1>6, <2>1
<1>8. Executed(typed) = [how |-> "called", op |-> c.op, groups |-> r.groups,
                         meaning |-> Meaning(c.op, c.grammar, r)]
  BY <1>2, <1>6, <1>7
<1> QED BY <1>2, <1>3, <1>5, <1>7, <1>8 DEF args, c, r

(* The line is a sequence of arguments, and what comes of it what Execute   *)
(* makes of it.                                                             *)
TypingInv ==
  /\ line \in Seq(Args) /\ task \in Tasks \cup {NoTask}
  /\ outcome.how = "called" => outcome = Executed(line)

(* It is so at first. *)
LEMMA TypingInvInit == Init => TypingInv
<1> SUFFICES ASSUME Init PROVE TypingInv
  OBVIOUS
<1>1. line \in Seq(Args) BY TaskAssumption DEF Init
<1>2. outcome.how # "called" BY DEF Init, Typing, Ends
<1> QED BY <1>1, <1>2 DEF TypingInv, Init

(* Typing, and running what was typed, keep it so. *)
LEMMA TypingInvStep == TypingInv /\ Next => TypingInv'
<1> SUFFICES ASSUME TypingInv, Next PROVE TypingInv'
  OBVIOUS
<1> USE DEF TypingInv
<1>1. CASE Enter BY <1>1 DEF Enter
<1>2. ASSUME NEW a \in task.next, Type(a) PROVE TypingInv'
  <2>0. \A e, s, n : [env |-> e, start |-> s, next |-> n].next = n OBVIOUS
  <2>1. NoTask.next = {} BY <2>0, Zenon DEF NoTask
  <2>2. a \in Args BY <2>1, TaskAssumption, <1>2
  <2>3. line' \in Seq(Args) BY <1>2, <2>2 DEF Type
  <2>4. outcome'.how # "called" BY <1>2 DEF Type, Typing, Ends
  <2> QED BY <1>2, <2>3, <2>4 DEF Type
<1> QED BY <1>1, <1>2 DEF Next

(* ... and so does every step of the commands. *)
LEMMA TypingInvAlways == SshSpec => []TypingInv
<1>1. SshInit => TypingInv BY TypingInvInit DEF SshInit
<1>2. TypingInv /\ [SshNext]_vars => TypingInv'
  <2> SUFFICES ASSUME TypingInv, [SshNext]_vars PROVE TypingInv'
    OBVIOUS
  <2>1. CASE Next BY <2>1, TypingInvStep
  <2>2. CASE TypedCall
    <3>1. line' = <<>> /\ outcome' = Ends("gone") /\ task' = NoTask BY <2>2 DEF TypedCall
    <3>2. outcome'.how # "called" BY <3>1 DEF Ends
    <3>3. <<>> \in Seq(Args) OBVIOUS
    <3> QED BY <3>1, <3>2, <3>3 DEF TypingInv
  <2>3. CASE UNCHANGED typing BY <2>3 DEF TypingInv, typing
  <2>4. ASSUME NEW t \in Terminals, Step(t) PROVE UNCHANGED typing
    BY <2>4 DEF Step, Resolve, Render, ReadManaged, WriteManaged, ReadUser, WriteUser
  <2>5. ASSUME NEW n, NEW u, SelectGateway(n) \/ RemoveGateway(n) \/ AddGateway(n, u)
        PROVE  UNCHANGED typing
    BY <2>5 DEF SelectGateway, RemoveGateway, AddGateway, Reconfigure, Change
  <2>6. ASSUME NEW lines, EditUser(lines) PROVE UNCHANGED typing
    BY <2>6 DEF EditUser, Change
  <2>7. CASE UNCHANGED vars BY <2>7, <2>3 DEF vars
  <2> QED BY <2>1, <2>2, <2>3, <2>4, <2>5, <2>6, <2>7 DEF SshNext
<1> QED BY <1>1, <1>2, PTL DEF SshSpec

----------------------------------------------------------------------------
(* The user's own file *)

(* Two sequences, one after the other, and one with nothing after it. *)
LEMMA Concats ==
  ASSUME NEW A, NEW u \in Seq(A), NEW v \in Seq(A)
  PROVE  /\ u \o v \in Seq(A) /\ Len(u \o v) = Len(u) + Len(v)
         /\ Len(u) \in Nat /\ Len(v) \in Nat
         /\ DOMAIN u = 1 .. Len(u) /\ DOMAIN v = 1 .. Len(v) /\ DOMAIN (u \o v) = 1 .. (Len(u) + Len(v))
         /\ \A i \in 1 .. Len(u) : (u \o v)[i] = u[i] /\ u[i] \in A
         /\ \A i \in 1 .. Len(v) : (u \o v)[Len(u) + i] = v[i] /\ v[i] \in A
         /\ u \o <<>> = u /\ <<>> \o u = u
<1>1. /\ u \o v \in Seq(A) /\ Len(u \o v) = Len(u) + Len(v)
      /\ \A i \in 1 .. Len(u) : (u \o v)[i] = u[i]
      /\ \A i \in 1 .. Len(v) : (u \o v)[Len(u) + i] = v[i]
  OBVIOUS
<1>2. u \o <<>> = u /\ <<>> \o u = u BY ConcatEmptySeq
<1> QED BY <1>1, <1>2

(* A line of the user's as a sequence, any other as none. *)
Mark(l) == IF l \notin {Include, Blank} THEN <<l>> ELSE <<>>
Marks(lines) == [i \in DOMAIN lines |-> Mark(lines[i])]

(* The user's lines of a file, as FlattenSeq finds them. *)
LEMMA OwnLinesFlat ==
  /\ \A lines : OwnLines(lines) = FlattenSeq(Marks(lines))
  /\ \A L : \A lines \in Seq(L) : Marks(lines) \in Seq(Seq(L)) /\ Len(Marks(lines)) = Len(lines)
<1>1. \A lines : OwnLines(lines) = FlattenSeq(Marks(lines))
  BY DEF OwnLines, Picked, Marks, Mark
<1>2. ASSUME NEW L, NEW lines \in Seq(L)
      PROVE  Marks(lines) \in Seq(Seq(L)) /\ Len(Marks(lines)) = Len(lines)
  <2> DEFINE B == Seq(L)
             n == Len(lines)
  <2>1. \A l \in L : Mark(l) \in B BY DEF Mark
  <2>2. n \in Nat /\ DOMAIN lines = 1 .. n /\ \A i \in 1 .. n : lines[i] \in L OBVIOUS
  <2>3. Marks(lines) = [i \in 1 .. n |-> Mark(lines[i])] BY <2>2 DEF Marks
  <2>4. \A i \in 1 .. n : Mark(lines[i]) \in B BY <2>1, <2>2
  <2> HIDE DEF B, n
  <2>5. [i \in 1 .. n |-> Mark(lines[i])] \in Seq(B) /\ Len([i \in 1 .. n |-> Mark(lines[i])]) = n
    BY <2>2, <2>4
  <2> QED BY <2>3, <2>5 DEF B, n
<1> QED BY <1>1, <1>2, Zenon

(* The user's lines of two sequences, one after the other. *)
LEMMA OwnLinesConcat ==
  ASSUME NEW L, NEW u \in Seq(L), NEW v \in Seq(L)
  PROVE  /\ OwnLines(u) \in Seq(L) /\ OwnLines(v) \in Seq(L)
         /\ OwnLines(u \o v) = OwnLines(u) \o OwnLines(v)
<1> DEFINE w == u \o v
           m == Marks(u)
           n == Marks(v)
           k == Marks(w)
           B == Seq(L)
<1>1. m \in Seq(B) /\ n \in Seq(B) /\ Len(m) = Len(u) /\ Len(n) = Len(v)
  BY OwnLinesFlat
<1>2. /\ w \in Seq(L) /\ Len(w) = Len(u) + Len(v)
      /\ Len(u) \in Nat /\ Len(v) \in Nat
      /\ DOMAIN u = 1 .. Len(u) /\ DOMAIN v = 1 .. Len(v) /\ DOMAIN w = 1 .. (Len(u) + Len(v))
      /\ \A i \in 1 .. Len(u) : w[i] = u[i]
      /\ \A i \in 1 .. Len(v) : w[Len(u) + i] = v[i]
  BY Concats
<1> HIDE DEF w
<1>3. k \in Seq(B) /\ Len(k) = Len(u) + Len(v)
  BY <1>2, OwnLinesFlat
<1>4. /\ \A i \in 1 .. Len(u) : m[i] = Mark(u[i])
      /\ \A i \in 1 .. Len(v) : n[i] = Mark(v[i])
      /\ \A i \in 1 .. (Len(u) + Len(v)) : k[i] = Mark(w[i])
  BY <1>2 DEF Marks
<1> HIDE DEF m, n, k, B
<1>5. /\ m \o n \in Seq(B) /\ Len(m \o n) = Len(u) + Len(v)
      /\ \A i \in 1 .. Len(u) : (m \o n)[i] = m[i]
      /\ \A i \in 1 .. Len(v) : (m \o n)[Len(u) + i] = n[i]
  <2>1. m \in Seq(B) /\ n \in Seq(B) BY <1>1
  <2>2. /\ m \o n \in Seq(B) /\ Len(m \o n) = Len(m) + Len(n)
        /\ \A i \in 1 .. Len(m) : (m \o n)[i] = m[i]
        /\ \A i \in 1 .. Len(n) : (m \o n)[Len(m) + i] = n[i]
    BY <2>1, ConcatProperties
  <2> QED BY <1>1, <2>2, Zenon
<1>6. k = m \o n
  <2> DEFINE mn == m \o n
  <2> HIDE DEF mn
  <2>1. \A i \in 1 .. Len(k) : k[i] = mn[i]
    <3> SUFFICES ASSUME NEW i \in 1 .. Len(k) PROVE k[i] = mn[i]
      OBVIOUS
    <3>1. CASE i \in 1 .. Len(u) BY <3>1, <1>2, <1>3, <1>4, <1>5 DEF mn
    <3>2. CASE i \notin 1 .. Len(u)
      <4>1. PICK j \in 1 .. Len(v) : i = Len(u) + j
        <5>1. i - Len(u) \in 1 .. Len(v) /\ i = Len(u) + (i - Len(u)) BY <3>2, <1>2, <1>3
        <5> QED BY <5>1
      <4> QED BY <4>1, <1>2, <1>3, <1>4, <1>5 DEF mn
    <3> QED BY <3>1, <3>2
  <2>2. mn \in Seq(B) /\ Len(mn) = Len(k) BY <1>5, <1>3 DEF mn
  <2>3. k = mn BY <1>3, <2>1, <2>2, SeqEqual
  <2> QED BY <2>3 DEF mn
<1>7. FlattenSeq(m \o n) = FlattenSeq(m) \o FlattenSeq(n)
  BY <1>1, FlatConcat DEF B
<1>8. FlattenSeq(m) \in Seq(L) /\ FlattenSeq(n) \in Seq(L)
  BY <1>1, FlatType DEF B
<1>9. OwnLines(u) = FlattenSeq(m) /\ OwnLines(v) = FlattenSeq(n) /\ OwnLines(w) = FlattenSeq(k)
  BY OwnLinesFlat DEF m, n, k
<1> QED BY <1>6, <1>7, <1>8, <1>9 DEF w

(* Blank lines and the Include are none of them. *)
LEMMA OwnLinesNone == \A u \in Seq({Include, Blank}) : OwnLines(u) = <<>>
<1> DEFINE L == {Include, Blank}
           P == {u \in Seq(L) : OwnLines(u) = <<>>}
<1>1. <<>> \in P
  <2>1. Marks(<<>>) = <<>> BY DEF Marks
  <2>2. <<>> \in Seq(L) OBVIOUS
  <2> QED BY <2>1, <2>2, OwnLinesFlat, FlatType
<1>2. ASSUME NEW u \in Seq(L), NEW l \in L, u \in P PROVE Append(u, l) \in P
  <2>1. Mark(l) = <<>> BY DEF Mark
  <2> HIDE DEF L
  <2>2. Append(u, l) = u \o <<l>> /\ <<l>> \in Seq(L) /\ Append(u, l) \in Seq(L) OBVIOUS
  <2>3. OwnLines(<<l>>) = <<>>
    <3>1. Marks(<<l>>) = <<<<>>>>
      <4>1. DOMAIN <<l>> = 1 .. 1 /\ <<l>>[1] = l OBVIOUS
      <4>2. Marks(<<l>>) = [i \in 1 .. 1 |-> <<>>] BY <4>1, <2>1 DEF Marks
      <4> QED BY <4>2
    <3>2. <<<<>>>> = Append(<<>>, <<>>) OBVIOUS
    <3>3. <<>> \in Seq(Seq(L)) /\ <<>> \in Seq(L) OBVIOUS
    <3>4. FlattenSeq(Append(<<>>, <<>>)) = FlattenSeq(<<>>) \o <<>> BY <3>3, FlatAppend
    <3>5. FlattenSeq(<<>>) \o <<>> = <<>> BY FlatType
    <3> QED BY <3>1, <3>2, <3>4, <3>5, OwnLinesFlat
  <2>4. OwnLines(u \o <<l>>) = OwnLines(u) \o OwnLines(<<l>>) BY <2>2, OwnLinesConcat
  <2>5. <<>> \o <<>> = <<>> OBVIOUS
  <2> QED BY <1>2, <2>2, <2>3, <2>4, <2>5
<1> HIDE DEF P, L
<1>3. \A u \in Seq(L) : u \in P BY <1>1, <1>2, InductionOverSeq
<1> QED BY <1>3 DEF P, L

(* A part of a sequence. *)
LEMMA Parts ==
  ASSUME NEW L, NEW lines \in Seq(L), NEW m \in Nat \ {0}, NEW n \in Nat, n <= Len(lines), m <= n + 1
  PROVE  /\ SubSeq(lines, m, n) \in Seq(L) /\ Len(SubSeq(lines, m, n)) = (n - m) + 1
         /\ \A i \in 1 .. ((n - m) + 1) : SubSeq(lines, m, n)[i] = lines[(m + i) - 1]
<1>1. \A i \in m .. n : lines[i] \in L OBVIOUS
<1> QED BY <1>1, SubSeqProperties

(* A sequence is what is before a place and what is from there on. *)
LEMMA SplitAt ==
  ASSUME NEW L, NEW lines \in Seq(L), NEW k \in Nat, k <= Len(lines)
  PROVE  /\ SubSeq(lines, 1, k) \in Seq(L) /\ SubSeq(lines, k + 1, Len(lines)) \in Seq(L)
         /\ SubSeq(lines, 1, k) \o SubSeq(lines, k + 1, Len(lines)) = lines
<1> DEFINE u == SubSeq(lines, 1, k)
           v == SubSeq(lines, k + 1, Len(lines))
           w == u \o v
<1>1. Len(lines) \in Nat OBVIOUS
<1>2. u \in Seq(L) /\ Len(u) = k /\ \A i \in 1 .. k : u[i] = lines[i]
  <2>1. \A i \in 1 .. k : lines[i] \in L BY <1>1
  <2> QED BY <1>1, <2>1, SubSeqProperties
<1>3. /\ v \in Seq(L) /\ Len(v) = Len(lines) - k
      /\ \A i \in 1 .. (Len(lines) - k) : v[i] = lines[k + i]
  <2>1. \A i \in (k + 1) .. Len(lines) : lines[i] \in L BY <1>1
  <2>2. k + 1 \in Nat /\ k + 1 <= Len(lines) + 1 BY <1>1
  <2> QED BY <1>1, <2>1, <2>2, SubSeqProperties
<1> HIDE DEF u, v
<1>4. /\ w \in Seq(L) /\ Len(w) = Len(u) + Len(v)
      /\ \A i \in 1 .. Len(u) + Len(v) : w[i] = IF i <= Len(u) THEN u[i] ELSE v[i - Len(u)]
  BY <1>2, <1>3, ConcatProperties
<1> HIDE DEF w
<1>5. \A i \in 1 .. Len(lines) : w[i] = lines[i]
  <2> SUFFICES ASSUME NEW i \in 1 .. Len(lines) PROVE w[i] = lines[i]
    OBVIOUS
  <2>1. CASE i <= k BY <2>1, <1>1, <1>2, <1>3, <1>4
  <2>2. CASE ~(i <= k)
    <3>1. i - k \in 1 .. (Len(lines) - k) /\ k + (i - k) = i BY <2>2, <1>1
    <3>2. w[i] = v[i - k] BY <2>2, <1>1, <1>2, <1>3, <1>4
    <3>3. v[i - k] = lines[k + (i - k)] BY <3>1, <1>3
    <3> QED BY <3>1, <3>2, <3>3
  <2> QED BY <2>1, <2>2
<1>6. Len(w) = Len(lines) BY <1>1, <1>2, <1>3, <1>4
<1>7. w = lines BY <1>4, <1>5, <1>6, SeqEqual
<1> QED BY <1>2, <1>3, <1>7 DEF u, v, w

(* The least of some places in a file. *)
LEMMA LeastIs ==
  ASSUME NEW S, S \subseteq Nat, NEW otherwise
  PROVE  IF S = {} THEN Least(S, otherwise) = otherwise
         ELSE Least(S, otherwise) \in S /\ \A j \in S : Least(S, otherwise) <= j
<1>1. CASE S = {} BY <1>1 DEF Least
<1>2. CASE S # {}
  <2>1. \E m \in S : \A k \in S : m <= k BY <1>2, LeastOfNaturals
  <2> QED BY <1>2, <2>1, Zenon DEF Least
<1> QED BY <1>1, <1>2

(* What Trimmed leaves out are blank lines at the end. *)
LEMMA TrimmedIs ==
  ASSUME NEW L, NEW lines \in Seq(L)
  PROVE  \E k \in Nat : /\ k <= Len(lines) /\ Trimmed(lines) = SubSeq(lines, 1, k)
                        /\ \A i \in 1 .. Len(lines) : i > k => lines[i] = Blank
                        /\ k # 0 => lines[k] # Blank
<1> DEFINE kept == {i \in DOMAIN lines : lines[i] # Blank}
           n == Len(lines)
<1>1. n \in Nat /\ DOMAIN lines = 1 .. n OBVIOUS
<1>2. CASE kept = {}
  <2>1. Trimmed(lines) = SubSeq(lines, 1, 0) BY <1>2 DEF Trimmed
  <2>2. \A i \in 1 .. n : lines[i] = Blank BY <1>1, <1>2
  <2> QED BY <1>1, <2>1, <2>2
<1>3. CASE kept # {}
  <2> DEFINE S == {n - i : i \in kept}
             last == CHOOSE i \in kept : \A j \in kept : j <= i
  <2>0. kept \subseteq 1 .. n BY <1>1
  <2> HIDE DEF kept
  <2>1. S \subseteq Nat /\ S # {}
    <3>1. \A i \in kept : n - i \in Nat BY <1>1, <2>0
    <3> QED BY <1>3, <3>1
  <2>2. \E m \in S : \A k \in S : m <= k
    <3> HIDE DEF S
    <3> QED BY <2>1, LeastOfNaturals
  <2>3. \E i \in kept : \A j \in kept : j <= i
    <3>1. PICK i \in kept : \A j \in kept : n - i <= n - j BY <2>2
    <3>2. \A j \in kept : j <= i BY <3>1, <2>0, <1>1
    <3> QED BY <3>2
  <2>4. last \in kept /\ \A j \in kept : j <= last BY <2>3, Zenon
  <2>5. Trimmed(lines) = SubSeq(lines, 1, last) BY <1>3 DEF Trimmed, kept
  <2> HIDE DEF last
  <2>6. last \in Nat /\ last <= n /\ last \in 1 .. n BY <2>0, <2>4, <1>1
  <2>7. \A i \in 1 .. n : i > last => lines[i] = Blank BY <2>4, <2>6, <1>1 DEF kept
  <2>8. lines[last] # Blank BY <2>4 DEF kept
  <2> QED BY <2>5, <2>6, <2>7, <2>8
<1> QED BY <1>2, <1>3

(* No line of the user's is lost with the blank ones. *)
LEMMA OwnLinesTrimmed ==
  ASSUME NEW L, NEW lines \in Seq(L)
  PROVE  Trimmed(lines) \in Seq(L) /\ OwnLines(Trimmed(lines)) = OwnLines(lines)
<1>1. PICK k \in Nat : /\ k <= Len(lines) /\ Trimmed(lines) = SubSeq(lines, 1, k)
                       /\ \A i \in 1 .. Len(lines) : i > k => lines[i] = Blank
  BY TrimmedIs
<1> DEFINE u == SubSeq(lines, 1, k)
           v == SubSeq(lines, k + 1, Len(lines))
<1>2. u \in Seq(L) /\ v \in Seq(L) /\ u \o v = lines BY <1>1, SplitAt
<1>3. v \in Seq({Include, Blank})
  <2>1. \A i \in (k + 1) .. Len(lines) : lines[i] \in {Include, Blank} BY <1>1
  <2> QED BY <1>1, <2>1, SubSeqProperties
<1> HIDE DEF u, v
<1>4. OwnLines(v) = <<>> BY <1>3, OwnLinesNone
<1>5. OwnLines(u) \in Seq(L) /\ OwnLines(lines) = OwnLines(u) \o <<>>
  <2>1. OwnLines(u) \in Seq(L) /\ OwnLines(u \o v) = OwnLines(u) \o OwnLines(v) BY <1>2, OwnLinesConcat
  <2> QED BY <1>2, <1>4, <2>1
<1>6. OwnLines(u) \o <<>> = OwnLines(u) BY <1>5, ConcatEmptySeq
<1> QED BY <1>1, <1>2, <1>5, <1>6 DEF u

(* An installer adds an Include to the user's file, and nothing goes. *)
LEMMA OwnLinesEnsured ==
  ASSUME NEW L, Include \in L, Blank \in L, NEW lines \in Seq(L)
  PROVE  EnsureInclude(lines) \in Seq(L) /\ OwnLines(EnsureInclude(lines)) = OwnLines(lines)
<1> DEFINE first == FirstBlock(lines)
           n == Len(lines)
<1>1. n \in Nat /\ DOMAIN lines = 1 .. n OBVIOUS
<1>2. first \in Nat \ {0} /\ first <= n + 1
  <2> DEFINE S == {i \in DOMAIN lines : IsBlockStart(lines[i])}
  <2>1. S \subseteq 1 .. n BY <1>1
  <2>2. first = Least(S, n + 1) BY DEF FirstBlock
  <2> HIDE DEF S
  <2>3. S \subseteq Nat BY <2>1
  <2>4. Least(S, n + 1) = n + 1 \/ Least(S, n + 1) \in S BY <2>3, LeastIs, Zenon
  <2>5. first = n + 1 \/ first \in 1 .. n BY <2>1, <2>2, <2>4, Zenon
  <2> HIDE DEF first
  <2> QED BY <1>1, <2>5
<1> HIDE DEF first
<1>3. ASSUME NEW u \in Seq(L), NEW v \in Seq(L), NEW w \in Seq({Include, Blank}), w \in Seq(L)
      PROVE  u \o w \o v \in Seq(L) /\ OwnLines(u \o w \o v) = OwnLines(u) \o OwnLines(v)
  <2>1. u \o w \in Seq(L) /\ (u \o w) \o v \in Seq(L) BY <1>3, ConcatProperties
  <2>2. OwnLines((u \o w) \o v) = OwnLines(u \o w) \o OwnLines(v) BY <2>1, OwnLinesConcat
  <2>3. OwnLines(u \o w) = OwnLines(u) \o OwnLines(w) /\ OwnLines(u) \in Seq(L) BY <1>3, OwnLinesConcat
  <2>4. OwnLines(w) = <<>> BY <1>3, OwnLinesNone
  <2>5. OwnLines(u) \o <<>> = OwnLines(u) BY <2>3, ConcatEmptySeq
  <2> QED BY <2>1, <2>2, <2>3, <2>4, <2>5
<1>4. CASE Include \in ToSet(lines) BY <1>4 DEF EnsureInclude
<1>5. CASE Include \notin ToSet(lines) /\ first > n
  <2>1. EnsureInclude(lines) = Trimmed(lines) \o <<Include>> BY <1>5 DEF EnsureInclude, first
  <2>2. Trimmed(lines) \in Seq(L) /\ OwnLines(Trimmed(lines)) = OwnLines(lines) BY OwnLinesTrimmed
  <2> DEFINE u == Trimmed(lines)
             w == <<Include>>
  <2>3. w \in Seq({Include, Blank}) /\ w \in Seq(L) /\ <<>> \in Seq(L) OBVIOUS
  <2> HIDE DEF u, w
  <2>4. u \o w \o <<>> \in Seq(L) /\ OwnLines(u \o w \o <<>>) = OwnLines(u) \o OwnLines(<<>>)
    BY <1>3, <2>2, <2>3 DEF u
  <2>5. OwnLines(<<>>) = <<>>
    <3>1. <<>> \in Seq({Include, Blank}) OBVIOUS
    <3> QED BY <3>1, OwnLinesNone
  <2>6. u \o w \in Seq(L) /\ OwnLines(u) \in Seq(L) BY <2>2, <2>3, ConcatProperties, OwnLinesConcat DEF u
  <2>7. u \o w \o <<>> = u \o w /\ OwnLines(u) \o <<>> = OwnLines(u) BY <2>6, ConcatEmptySeq
  <2> QED BY <2>1, <2>2, <2>4, <2>5, <2>6, <2>7 DEF u, w
<1>6. CASE Include \notin ToSet(lines) /\ ~(first > n)
  <2> DEFINE u == SubSeq(lines, 1, first - 1)
             v == SubSeq(lines, first, n)
             w == <<Include, Blank>>
  <2>1. EnsureInclude(lines) = u \o w \o v BY <1>6 DEF EnsureInclude, first
  <2>2. u \in Seq(L) /\ v \in Seq(L) /\ u \o v = lines
    <3>1. first - 1 \in Nat /\ first - 1 <= n /\ (first - 1) + 1 = first BY <1>1, <1>2
    <3> QED BY <3>1, SplitAt
  <2>3. w \in Seq({Include, Blank}) /\ w \in Seq(L) OBVIOUS
  <2> HIDE DEF u, v, w
  <2>4. OwnLines(u \o v) = OwnLines(u) \o OwnLines(v) BY <2>2, OwnLinesConcat
  <2>5. u \o w \o v \in Seq(L) /\ OwnLines(u \o w \o v) = OwnLines(u) \o OwnLines(v)
    BY <2>2, <2>3, <1>3
  <2> QED BY <2>1, <2>2, <2>4, <2>5
<1> QED BY <1>4, <1>5, <1>6

----------------------------------------------------------------------------
(* Options by their names *)

(* Nothing comes of sequences only if all are empty. *)
LEMMA FlatNothing ==
  ASSUME NEW A
  PROVE  \A s \in Seq(Seq(A)) : FlattenSeq(s) = <<>> => \A i \in 1 .. Len(s) : s[i] = <<>>
<1> DEFINE P == {s \in Seq(Seq(A)) : FlattenSeq(s) = <<>> => \A i \in 1 .. Len(s) : s[i] = <<>>}
<1>1. <<>> \in P
  <2>1. <<>> \in Seq(Seq(A)) /\ Len(<<>>) = 0 OBVIOUS
  <2> QED BY <2>1
<1>2. ASSUME NEW s \in Seq(Seq(A)), NEW x \in Seq(A), s \in P PROVE Append(s, x) \in P
  <2> DEFINE B == Seq(A)
             t == Append(s, x)
  <2>1. FlattenSeq(t) = FlattenSeq(s) \o x /\ FlattenSeq(s) \in B BY FlatAppend, FlatType
  <2>2. /\ t \in Seq(B) /\ Len(t) = Len(s) + 1 /\ t[Len(s) + 1] = x /\ Len(s) \in Nat
        /\ \A i \in 1 .. Len(s) : t[i] = s[i]
    <3> HIDE DEF B
    <3>1. s \in Seq(B) /\ x \in B BY DEF B
    <3> QED BY <3>1, AppendProperties, LenProperties
  <2>3. ASSUME FlattenSeq(t) = <<>> PROVE FlattenSeq(s) = <<>> /\ x = <<>>
    <3>1. \A u, v \in Seq(A) : u \o v = <<>> => u = <<>> /\ v = <<>> BY ConcatEmptySeq
    <3> QED BY <2>1, <2>3, <3>1
  <2> HIDE DEF t, B
  <2>4. ASSUME FlattenSeq(t) = <<>>, NEW i \in 1 .. Len(t) PROVE t[i] = <<>>
    <3>1. CASE i = Len(s) + 1 BY <3>1, <2>2, <2>3, <2>4
    <3>2. CASE i # Len(s) + 1
      <4>1. i \in 1 .. Len(s) BY <3>2, <2>2
      <4> QED BY <4>1, <2>2, <2>3, <2>4, <1>2
    <3> QED BY <3>1, <3>2
  <2> QED BY <2>2, <2>4 DEF t, B
<1> HIDE DEF P
<1>3. \A s \in Seq(Seq(A)) : s \in P BY <1>1, <1>2, InductionOverSeq
<1> QED BY <1>3 DEF P

(* The elements at some places of a sequence, and the others left out. *)
Sieve(s, keep) == [i \in DOMAIN s |-> IF i \in keep THEN <<s[i]>> ELSE <<>>]

(* They are a sequence, and empty only if no place is kept. *)
LEMMA SieveIs ==
  ASSUME NEW B, NEW s, NEW n \in Nat, DOMAIN s = 1 .. n,
         NEW keep, keep \subseteq 1 .. n, \A i \in keep : s[i] \in B
  PROVE  /\ Sieve(s, keep) \in Seq(Seq(B)) /\ FlattenSeq(Sieve(s, keep)) \in Seq(B)
         /\ FlattenSeq(Sieve(s, keep)) = <<>> => keep = {}
<1> DEFINE C == Seq(B)
           E(i) == IF i \in keep THEN <<s[i]>> ELSE <<>>
           t == Sieve(s, keep)
<1>1. \A i \in 1 .. n : E(i) \in C
  <2>1. <<>> \in C OBVIOUS
  <2>2. \A x \in B : <<x>> \in C OBVIOUS
  <2> QED BY <2>1, <2>2
<1>2. t = [i \in 1 .. n |-> E(i)] BY DEF Sieve
<1> HIDE DEF C, E, t
<1>3. t \in Seq(C) /\ Len(t) = n BY <1>1, <1>2
<1>4. FlattenSeq(t) \in Seq(B) BY <1>3, FlatType DEF C
<1>5. ASSUME FlattenSeq(t) = <<>> PROVE keep = {}
  <2>1. \A i \in 1 .. n : t[i] = <<>> BY <1>3, <1>5, FlatNothing DEF C
  <2>2. \A i \in keep : t[i] = <<s[i]>> BY <1>2 DEF E
  <2>3. \A x : <<x>> # <<>> OBVIOUS
  <2> QED BY <2>1, <2>2, <2>3
<1> QED BY <1>3, <1>4, <1>5 DEF t, C

(* Where the groups of an option are. *)
Of(r, key) == {i \in DOMAIN r.groups : r.groups[i].key = key}

(* The groups of an option are groups that were read, and all if there is one. *)
LEMMA GivenIs ==
  ASSUME NEW G, NEW r, r.groups \in Seq(G), NEW key
  PROVE  /\ Given(r, key) \in Seq({r.groups[i] : i \in Of(r, key)})
         /\ Has(r, key) <=> Of(r, key) # {}
<1> DEFINE s == r.groups
           B == {s[i] : i \in Of(r, key)}
<1>1. Given(r, key) = FlattenSeq(Sieve(s, Of(r, key)))
  <2>1. Sieve(s, Of(r, key)) = [i \in DOMAIN s |-> IF s[i].key = key THEN <<s[i]>> ELSE <<>>]
    BY DEF Sieve, Of
  <2> QED BY <2>1, Zenon DEF Given, Picked
<1>2. Len(s) \in Nat /\ DOMAIN s = 1 .. Len(s) OBVIOUS
<1>3. Of(r, key) \subseteq 1 .. Len(s) BY <1>2 DEF Of
<1>4. \A i \in Of(r, key) : s[i] \in B OBVIOUS
<1> HIDE DEF s, B
<1>5. Given(r, key) \in Seq(B) /\ (Given(r, key) = <<>> => Of(r, key) = {})
  BY <1>1, <1>2, <1>3, <1>4, SieveIs, Zenon
<1>6. ASSUME Of(r, key) = {} PROVE Given(r, key) = <<>>
  <2>1. B = {} BY <1>6 DEF B
  <2> QED BY <1>5, <2>1
<1> QED BY <1>5, <1>6 DEF B, s, Has

(* The parsers of the two commands take the name from a word. *)
NameParser(g) ==
  /\ g.slot = "name" /\ "name" \notin g.value \cup g.bare
  /\ g.lead = <<>> /\ g.then = <<>> /\ g.same = No /\ ~g.lax /\ ~g.once /\ g.words = "once"
  /\ g.many = {} /\ g.needs = {{"name"}}

NameRead(A, r) ==
  /\ \A i \in DOMAIN r.groups : r.groups[i].key = "name" => \E a \in A : ~a.dash /\ r.groups[i].args = <<a>>
  /\ r.open # NoFlag => r.open.key # "name"

(* One more group, of a word or of another option. *)
LEMMA NameTaken ==
  ASSUME NEW G, NEW A, NEW r, r.groups \in Seq(G), DOMAIN r = {"groups", "open", "refused"}, NameRead(A, r),
         NEW key, NEW args, Group(key, args) \in G,
         key = "name" => \E a \in A : ~a.dash /\ args = <<a>>
  PROVE  NameRead(A, Taken(r, key, args))
<1> DEFINE more == Append(r.groups, Group(key, args))
           q == Taken(r, key, args)
<1>1. q.groups = more /\ q.open = NoFlag BY DEF Taken
<1>2. /\ Len(more) = Len(r.groups) + 1 /\ Len(r.groups) \in Nat /\ more \in Seq(G)
      /\ \A i \in 1 .. Len(r.groups) : more[i] = r.groups[i]
      /\ more[Len(r.groups) + 1] = Group(key, args) /\ DOMAIN r.groups = 1 .. Len(r.groups)
  BY AppendProperties, LenProperties
<1>3. Group(key, args).key = key /\ Group(key, args).args = args BY DEF Group
<1> HIDE DEF more, q
<1>4. ASSUME NEW i \in DOMAIN more, more[i].key = "name"
      PROVE  \E a \in A : ~a.dash /\ more[i].args = <<a>>
  <2>1. i \in 1 .. Len(r.groups) \/ i = Len(r.groups) + 1 BY <1>2
  <2>2. CASE i \in 1 .. Len(r.groups) BY <2>2, <1>2, <1>4 DEF NameRead
  <2>3. CASE i = Len(r.groups) + 1 BY <2>3, <1>2, <1>3, <1>4
  <2> QED BY <2>1, <2>2, <2>3
<1> QED BY <1>1, <1>4 DEF NameRead, q

(* One round keeps it so. *)
LEMMA NameRound ==
  ASSUME NEW g, NameParser(g), NEW A, NoFlag \in A, NEW r, Sound(g, A, r), NameRead(A, r), NEW a \in A,
         ~Read(g, r, a).refused
  PROVE  NameRead(A, Read(g, r, a))
<1> DEFINE n == Len(r.groups)
           q == Read(g, r, a)
           G == GroupsOf(g, A)
<1>1. /\ r.groups \in Seq(G) /\ r.open \in A /\ r.refused \in BOOLEAN
      /\ DOMAIN r = {"groups", "open", "refused"}
  BY DEF Sound, Readings
<1>2. ~r.refused BY <1>1 DEF Read
<1>3. n \in Nat /\ Len(g.lead \o g.then) = 0 BY <1>1, LenProperties DEF NameParser
<1>4. \A x : Refuse(r).refused BY <1>1 DEF Refuse
<1>5. \A key, args, v : ~TakeValue(g, r, key, args, v).refused =>
                           TakeValue(g, r, key, args, v) = Taken(r, key, args)
  BY <1>4 DEF TakeValue
<1>6. \A f : Key(g, f) = f BY DEF NameParser, Key, No
<1>7. ASSUME NEW key \in KeysOf(g, A), NEW args \in Seq(A), q = Taken(r, key, args),
             key = "name" => \E x \in A : ~x.dash /\ args = <<x>>
      PROVE  NameRead(A, q)
  <2>1. Group(key, args) \in G BY DEF GroupsOf, Groups, Group
  <2> HIDE DEF q, G
  <2> QED BY <1>1, <1>7, <2>1, NameTaken
<1>8. /\ \A x \in A : Key(g, x.key) \in KeysOf(g, A) /\ x.key \in KeysOf(g, A)
      /\ "--" \in KeysOf(g, A) /\ "name" \in KeysOf(g, A)
  BY <1>6 DEF KeysOf, NameParser
<1>9. <<a>> \in Seq(A) /\ <<r.open, a>> \in Seq(A) BY <1>1
<1>10. CASE r.open # NoFlag
  <2>1. q = TakeValue(g, r, Key(g, r.open.key), <<r.open, a>>, a)
    BY <1>2, <1>4, <1>10 DEF Read
  <2>2. q = Taken(r, r.open.key, <<r.open, a>>) BY <2>1, <1>5, <1>6
  <2>3. r.open.key # "name" BY <1>10 DEF NameRead
  <2> QED BY <2>2, <2>3, <1>1, <1>7, <1>8, <1>9
<1>11. CASE r.open = NoFlag /\ InCommand(r)
  <2> DEFINE more == [r.groups EXCEPT ![n].args = Append(@, a)]
  <2>1. q = [r EXCEPT !.groups = more] BY <1>2, <1>11 DEF Read
  <2>2. q.groups = more /\ q.open = NoFlag
    <3> HIDE DEF more
    <3> QED BY <2>1, <1>1, <1>11
  <2>3. n # 0 /\ r.groups[n].key = "--" /\ DOMAIN r.groups = 1 .. n
    BY <1>1, <1>11, LenProperties DEF InCommand, Last
  <2>4. r.groups[n] \in G BY <1>1, <1>3, <2>3
  <2>5. /\ DOMAIN more = 1 .. n /\ more[n].key = "--"
        /\ \A i \in 1 .. n : i # n => more[i] = r.groups[i]
    BY <1>1, <1>3, <2>3, <2>4 DEF G, GroupsOf, Groups
  <2> HIDE DEF more, q
  <2>6. ASSUME NEW i \in DOMAIN more, more[i].key = "name"
        PROVE  \E x \in A : ~x.dash /\ more[i].args = <<x>>
    <3>1. i # n BY <2>5, <2>6
    <3>2. more[i] = r.groups[i] /\ i \in DOMAIN r.groups BY <3>1, <2>3, <2>5
    <3> QED BY <3>2, <2>6 DEF NameRead
  <2> QED BY <2>2, <2>6 DEF NameRead, q
<1> DEFINE past == r.open = NoFlag /\ ~InCommand(r)
<1>12. ~(n < Len(g.lead \o g.then)) BY <1>3
<1>13. CASE past /\ g.sep /\ a = Dashes
  <2>1. q = Taken(r, "--", <<a>>) BY <1>2, <1>12, <1>13 DEF Read
  <2> QED BY <2>1, <1>7, <1>8, <1>9
<1>14. CASE past /\ ~(g.sep /\ a = Dashes) /\ Known(g, a)
  <2>1. q = ReadFlag(g, r, a) BY <1>2, <1>12, <1>14 DEF Read
  <2>2. a.key # "name" BY <1>14 DEF Known, NameParser
  <2>3. \/ q = Taken(r, a.key, <<a>>)
        \/ q = [r EXCEPT !.open = a]
    BY <2>1, <1>4, <1>5, <1>6 DEF ReadFlag
  <2>4. CASE q = [r EXCEPT !.open = a]
    <3>1. q.groups = r.groups /\ q.open = a BY <2>4, <1>1
    <3> QED BY <3>1, <2>2 DEF NameRead
  <2> QED BY <2>2, <2>3, <2>4, <1>7, <1>8, <1>9
<1>15. CASE past /\ ~(g.sep /\ a = Dashes) /\ ~Known(g, a)
  <2>0. ~g.lax /\ g.words = "once" /\ g.slot = "name" BY DEF NameParser
  <2>1. Accepts(g, a) /\ q = ReadWord(g, r, a) BY <1>2, <1>4, <1>12, <1>15, <2>0 DEF Read
  <2>2. ~a.dash BY <2>0, <2>1 DEF Accepts
  <2>3. q = Taken(r, "name", <<a>>) BY <2>0, <2>1, <1>4 DEF ReadWord
  <2> QED BY <2>2, <2>3, <1>7, <1>8, <1>9
<1> QED BY <1>10, <1>11, <1>13, <1>14, <1>15

(* ... and so the name is a word of the line. *)
LEMMA NamesRead ==
  ASSUME NEW g, NameParser(g), NEW A, NoFlag \in A
  PROVE  \A args \in Seq(A) : ~Scan(g, args).refused => NameRead(A, Scan(g, args))
<1> DEFINE P == {args \in Seq(A) : ~Scan(g, args).refused => NameRead(A, Scan(g, args))}
<1>1. <<>> \in P
  <2>1. Nothing.groups = <<>> /\ Nothing.open = NoFlag BY DEF Nothing
  <2>2. NameRead(A, Nothing) BY <2>1 DEF NameRead
  <2>3. <<>> \in Seq(A) OBVIOUS
  <2> QED BY <2>2, <2>3, ScanEmpty
<1>2. ASSUME NEW args \in Seq(A), NEW a \in A, args \in P PROVE Append(args, a) \in P
  <2> DEFINE r == Scan(g, args)
  <2>1. Scan(g, Append(args, a)) = Read(g, r, a) /\ Append(args, a) \in Seq(A)
    BY ScanAppend, AppendProperties
  <2>2. ASSUME ~Read(g, r, a).refused PROVE NameRead(A, Read(g, r, a))
    <3>1. ~r.refused BY <2>2 DEF Read
    <3>2. NameRead(A, r) /\ Sound(g, A, r) BY <3>1, <1>2, ScanKeeps
    <3> HIDE DEF r
    <3> QED BY <2>2, <3>2, NameRound
  <2> HIDE DEF r
  <2> QED BY <2>1, <2>2
<1> HIDE DEF P
<1>3. \A args \in Seq(A) : args \in P BY <1>1, <1>2, InductionOverSeq
<1> QED BY <1>3 DEF P

(* The commands that write a host, by their parsers. *)
LEMMA SshParsers ==
  \A c \in Commands : c.op \in SshCommands => NameParser(c.grammar)
<1>1. NameParser(SandboxSSHConfig)
  BY DEF NameParser, SandboxSSHConfig, Plain
<1>2. NameParser(SandboxConnect)
  BY DEF NameParser, SandboxConnect, Plain
<1>3. /\ \A op, x, g : Top(op, x, g).op = op
      /\ \A op, x, y, g : Sub(op, x, y, g).op = op /\ Sub(op, x, y, g).grammar = g
      /\ \A op, x, y, z, g : Deep(op, x, y, z, g).op = op
  BY DEF Top, Sub, Deep, Is
<1> DEFINE Parsed(S) == \A c \in S : c.op \in {"sandbox.ssh-config", "sandbox.connect"} => NameParser(c.grammar)
<1>4. Parsed(TopCommands) BY <1>3, SMTT(60) DEF TopCommands
<1>5. Parsed(SandboxCommands) BY <1>1, <1>2, <1>3, SMTT(60) DEF SandboxCommands
<1>6. Parsed(GatewayCommands) BY <1>3, SMTT(60) DEF GatewayCommands
<1>7. Parsed(PolicyCommands) BY <1>3, SMTT(60) DEF PolicyCommands
<1>8. Parsed(ProviderCommands) BY <1>3, SMTT(60) DEF ProviderCommands
<1>9. Parsed(ProfileCommands) BY <1>3, SMTT(60) DEF ProfileCommands
<1>10. Parsed(WorkspaceCommands) BY <1>3, SMTT(60) DEF WorkspaceCommands
<1>11. Parsed(StoreCommands) BY <1>3, SMTT(60) DEF StoreCommands
<1> QED BY <1>4, <1>5, <1>6, <1>7, <1>8, <1>9, <1>10, <1>11 DEF Commands, SshCommands

LineArgs == Args \cup {NoFlag}

(* Where nothing is held back and nothing adds up, a handler gets what the  *)
(* parser has found.                                                        *)
LEMMA AllPassed ==
  ASSUME NEW op \in SshCommands \cup {"ssh-proxy"}, NEW g, g.many = {}, NEW r,
         op = "ssh-proxy" => ~Has(r, "--gateway")
  PROVE  Meaning(op, g, r) = Fields(g, r)
<1>1. /\ op \notin {"member.add", "member.rm", "provider.refresh.configure", "profile.show", "profile.file",
                   "profile.lint", "sandbox.list", "settings.get", "settings.set", "settings.rm",
                   "rule.approve", "logs", "service.get", "doctor.cleanup", "gateway.login",
                   "policy.set", "policy.list", "policy.get"}
  BY DEF SshCommands
<1>2. Meaning(op, g, r) = Passed(op, g, r) BY <1>1, Zenon DEF Meaning
<1>3. Unread(op, r) = {}
  <2>1. CASE op = "ssh-proxy" BY <2>1, <1>1, SMT DEF Unread
  <2>2. CASE op # "ssh-proxy" BY <2>2, <1>1, SMT DEF Unread
  <2> QED BY <2>1, <2>2
<1>5. DOMAIN Fields(g, r) \ Unread(op, r) = DOMAIN Fields(g, r) BY <1>3
<1>6. \A key, value : Handed(op, g, key, value) = value BY <1>1, Zenon DEF Handed
<1>7. Passed(op, g, r) = [key \in DOMAIN Fields(g, r) |-> Fields(g, r)[key]]
  BY <1>5, <1>6, Zenon DEF Passed
<1>8. Fields(g, r) = [key \in DOMAIN Fields(g, r) |-> Fields(g, r)[key]]
  BY Zenon DEF Fields
<1> QED BY <1>2, <1>7, <1>8

SandboxArgs == LineArgs \ HelpWords

(* The sandbox such a command is called with is a word that was typed. *)
LEMMA SandboxTyped ==
  ASSUME NEW typed \in Seq(Args), Executed(typed).how = "called", Executed(typed).op \in SshCommands
  PROVE  Executed(typed).meaning["name"] \in SandboxArgs
<1> DEFINE args == Rest(typed)
           c == Matched(args)
           g == c.grammar
           r == Scan(g, After(c, args))
<1>1. typed \in Seq(LineArgs) /\ NoFlag \in LineArgs BY DEF LineArgs
<1>2. /\ args \in Seq(LineArgs) /\ ~WantsHelp(args) /\ c \in Matching(args)
      /\ Complete(g, r)
      /\ Executed(typed) = [how |-> "called", op |-> c.op, groups |-> r.groups, meaning |-> Meaning(c.op, g, r)]
  BY <1>1, ExecutedCalled
<1>3. c \in Commands /\ Starts(c.path, args) /\ c.op \in SshCommands
  BY <1>2 DEF Matching
<1>4. Executed(typed).meaning = Fields(g, r)
  <2>1. Executed(typed).meaning = Meaning(c.op, g, r) BY <1>2
  <2>0. g.many = {} /\ c.op # "ssh-proxy" BY <1>3, SshParsers DEF NameParser, SshCommands
  <2> HIDE DEF c, r
  <2>2. Meaning(c.op, g, r) = Fields(g, r) BY <1>3, <2>0, AllPassed
  <2> QED BY <2>1, <2>2
<1>5. NameParser(g) BY <1>3, SshParsers
<1> HIDE DEF c, args
<1>6. NoFlag \in SandboxArgs
  <2>1. NoFlag.key = "" /\ ~NoFlag.dash BY DashOf, Zenon DEF NoFlag
  <2>2. \A w : Word(w).key = w /\ Flag(w).dash BY DashOf
  <2>3. NoFlag # Flag("-h") /\ NoFlag # Flag("--help") BY <2>1, <2>2
  <2>4. NoFlag # Word("help") BY <2>1, <2>2
  <2> QED BY <1>1, <2>3, <2>4 DEF SandboxArgs, HelpWords
<1>7. After(c, args) \in Seq(SandboxArgs)
  <2>1. \A i \in 1 .. Len(args) : args[i] \in SandboxArgs
    BY <1>2 DEF WantsHelp, SandboxArgs
  <2>2. args \in Seq(SandboxArgs)
    <3>1. Len(args) \in Nat /\ args = [i \in 1 .. Len(args) |-> args[i]] BY <1>2
    <3> QED BY <2>1, <3>1
  <2> QED BY <1>3, <2>2, AfterType
<1>8. ~r.refused BY <1>2 DEF Complete
<1>9. NameRead(SandboxArgs, r) /\ r \in Readings(g, SandboxArgs)
  BY <1>5, <1>6, <1>7, <1>8, NamesRead, ScanKeeps DEF Sound
<1> HIDE DEF r
<1>10. Has(r, "name") BY <1>2, <1>5 DEF Complete, NameParser
<1> DEFINE gs == Given(r, "name")
           S == {r.groups[i] : i \in Of(r, "name")}
<1>11. gs \in Seq(S) /\ gs # <<>> /\ Of(r, "name") # {}
  <2>1. r.groups \in Seq(GroupsOf(g, SandboxArgs)) BY <1>9 DEF Readings
  <2> QED BY <2>1, <1>10, GivenIs DEF Has
<1>12. \A gr \in S : ValueOf(gr) \in SandboxArgs
  <2> SUFFICES ASSUME NEW i \in Of(r, "name") PROVE ValueOf(r.groups[i]) \in SandboxArgs
    OBVIOUS
  <2>1. r.groups[i].key = "name" BY DEF Of
  <2>2. PICK a \in SandboxArgs : ~a.dash /\ r.groups[i].args = <<a>> BY <2>1, <1>9 DEF NameRead, Of
  <2>3. Len(<<a>>) = 1 /\ <<a>>[1] = a OBVIOUS
  <2> QED BY <2>1, <2>2, <2>3 DEF ValueOf
<1>13. Value(r, "name") \in SandboxArgs
  <2>1. Value(r, "name") = Last(Values(r, "name")) BY <1>10 DEF Value
  <2>2. Values(r, "name") = [i \in DOMAIN gs |-> ValueOf(gs[i])] BY DEF Values
  <2> DEFINE n == Len(gs)
  <2> HIDE DEF gs, S
  <2>3. n \in Nat \ {0} /\ DOMAIN gs = 1 .. n /\ gs[n] \in S BY <1>11
  <2>4. Len(Values(r, "name")) = n /\ Values(r, "name")[n] = ValueOf(gs[n])
    <3>1. Values(r, "name") = [i \in 1 .. n |-> ValueOf(gs[i])] BY <2>2, <2>3
    <3> QED BY <3>1, <2>3
  <2> QED BY <2>1, <2>3, <2>4, <1>12 DEF Last
<1>14. Fields(g, r)["name"] = Value(r, "name")
  <2>1. "name" \in {r.groups[i].key : i \in DOMAIN r.groups} BY <1>11 DEF Of
  <2> QED BY <2>1, <1>5 DEF Fields, NameParser
<1> QED BY <1>4, <1>13, <1>14

----------------------------------------------------------------------------
(* The gateway asked for *)

AskedUpTo(f, env, gs, n) ==
  f = [i \in 0 .. n |-> IF i = 0 THEN FromEnviron(env) ELSE Applied(f[i - 1], gs[i])]

(* The recursion of GatewayAsked goes one flag further. *)
LEMMA AskedExtends ==
  ASSUME NEW env, NEW gs, NEW m \in Nat, NEW f, AskedUpTo(f, env, gs, m)
  PROVE  \E h : AskedUpTo(h, env, gs, m + 1)
<1> DEFINE e == [i \in 0 .. (m + 1) |-> IF i = 0 THEN FromEnviron(env) ELSE Applied(f[i - 1], gs[i])]
<1>1. \A i \in 0 .. m : f[i] = IF i = 0 THEN FromEnviron(env) ELSE Applied(f[i - 1], gs[i])
  BY Zenon DEF AskedUpTo
<1>2. \A i \in 0 .. m : e[i] = f[i]
  BY <1>1
<1>3. \A i \in 0 .. (m + 1) : i # 0 => i - 1 \in 0 .. m
  OBVIOUS
<1>4. \A i \in 0 .. (m + 1) : (IF i = 0 THEN FromEnviron(env) ELSE Applied(f[i - 1], gs[i])) =
                              (IF i = 0 THEN FromEnviron(env) ELSE Applied(e[i - 1], gs[i]))
  <2> HIDE DEF e
  <2> QED BY <1>2, <1>3
<1>5. e = [i \in 0 .. (m + 1) |-> IF i = 0 THEN FromEnviron(env) ELSE Applied(e[i - 1], gs[i])]
  BY <1>4, Zenon
<1>6. AskedUpTo(e, env, gs, m + 1)
  BY <1>5, Zenon DEF AskedUpTo
<1> HIDE DEF e
<1> QED BY <1>6, Zenon

(* What is a URL in what was asked for looks like one. *)
LEMMA AskedTyped ==
  ASSUME NEW env, NEW globals, Len(globals.groups) \in Nat
  PROVE  GatewayAsked(env, globals).url \in Urls \cup {""}
<1> DEFINE gs == globals.groups
           n == Len(gs)
           E == {m \in Nat : \E f : AskedUpTo(f, env, gs, m)}
           Named(x) == \E u, w : u \in Urls \cup {""} /\ x = [url |-> u, name |-> w]
<1>1. \E f : AskedUpTo(f, env, gs, n)
  <2>1. 0 \in E
    <3>1. AskedUpTo([i \in 0 .. 0 |-> FromEnviron(env)], env, gs, 0)
      BY DEF AskedUpTo
    <3> QED BY <3>1
  <2>2. ASSUME NEW m \in Nat, m \in E PROVE m + 1 \in E
    <3>1. PICK f : AskedUpTo(f, env, gs, m) BY <2>2
    <3>2. m + 1 \in Nat OBVIOUS
    <3> QED BY <3>1, <3>2, AskedExtends, Zenon
  <2> HIDE DEF E
  <2>3. n \in E BY <2>1, <2>2, InductionOverNat
  <2> QED BY <2>3, Zenon DEF E
<1> DEFINE f == CHOOSE f : AskedUpTo(f, env, gs, n)
<1>2. AskedUpTo(f, env, gs, n) BY <1>1, Zenon
<1>3. GatewayAsked(env, globals) = f[n]
  BY Zenon DEF GatewayAsked, AskedUpTo
<1> HIDE DEF f, E
<1>4. \A i \in 0 .. n : f[i] = IF i = 0 THEN FromEnviron(env) ELSE Applied(f[i - 1], gs[i])
  BY <1>2, Zenon DEF AskedUpTo
<1>5. Named(FromEnviron(env)) BY Zenon DEF FromEnviron
<1>6. ASSUME NEW x, Named(x), NEW gr PROVE Named(Applied(x, gr))
  <2>1. PICK u, w : u \in Urls \cup {""} /\ x = [url |-> u, name |-> w] BY <1>6
  <2>2. \A v : [x EXCEPT !.name = v] = [url |-> u, name |-> v]
    <3>1. \A p, q, v : [[url |-> p, name |-> q] EXCEPT !.name = v] = [url |-> p, name |-> v] OBVIOUS
    <3> QED BY <2>1, <3>1, Zenon
  <2> QED BY <2>1, <2>2, Zenon DEF Applied
<1> HIDE DEF Named
<1> DEFINE T == {i \in Nat : i \in 0 .. n => Named(f[i])}
<1>7. 0 \in T BY <1>4, <1>5
<1>8. ASSUME NEW i \in Nat, i \in T PROVE i + 1 \in T
  <2> SUFFICES ASSUME i + 1 \in 0 .. n PROVE Named(f[i + 1])
    OBVIOUS
  <2>1. i \in 0 .. n /\ (i + 1) - 1 = i /\ i + 1 # 0 OBVIOUS
  <2>2. Named(f[i]) BY <2>1, <1>8
  <2>3. f[i + 1] = Applied(f[i], gs[i + 1]) BY <2>1, <1>4
  <2> QED BY <2>2, <2>3, <1>6
<1> HIDE DEF T
<1>9. \A i \in Nat : i \in T BY <1>7, <1>8, InductionOverNat
<1>10. Named(f[n]) BY <1>9 DEF T
<1>11. PICK u, w : u \in Urls \cup {""} /\ f[n] = [url |-> u, name |-> w] BY <1>10, Zenon DEF Named
<1>12. \A x, y : [url |-> x, name |-> y].url = x OBVIOUS
<1>13. GatewayAsked(env, globals) = [url |-> u, name |-> w] BY <1>3, <1>11
<1>14. GatewayAsked(env, globals).url = u BY <1>12, <1>13, Zenon
<1> QED BY <1>11, <1>14, Zenon

----------------------------------------------------------------------------
(* The terminals *)

Places == {"idle", "resolve", "render", "managed", "upsert", "user", "include", "done", "failed"}
Writing == {"managed", "upsert", "user", "include", "done"}
OfTerminals(f) == f = [t \in Terminals |-> f[t]]

GatewayArgs == {ByName(n) : n \in Names} \cup {ByUrl(u) : u \in Urls}
BlockOf(s, g, u) == <<Host({s}), Setting, ProxyCommand(SSHProxyFor(g, s), u)>>

(* These arguments of ssh-proxy lead to a URL, or did. *)
Leads(g, u) ==
  \/ g = ByUrl(u)
  \/ \E n \in Names : g = ByName(n) /\ (UrlOf(conf, n) = u \/ <<n, u>> \in moved)

Rendered(t) ==
  \E g \in GatewayArgs, u \in Urls : Leads(g, u) /\ block[t] = BlockOf(job[t].sandbox, g, u)

GatewaysTyped(c) ==
  DOMAIN c.gateways \subseteq Names /\ \A n \in DOMAIN c.gateways : c.gateways[n] \in Urls
JobTyped(j) == j.sandbox \in SandboxArgs /\ j.asked.url \in Urls \cup {""}

TerminalInv(t) ==
  /\ pc[t] # "idle" => JobTyped(job[t])
  /\ pc[t] = "render" => url[t] \in Urls
  /\ pc[t] \in {"idle", "resolve", "render"} => block[t] = <<>>
  /\ pc[t] \in Writing => block[t] # <<>>
  /\ block[t] # <<>> => Rendered(t)

(* A command has what it needs, and its block leads where it should. *)
CommandInv ==
  /\ pc \in [Terminals -> Places]
  /\ OfTerminals(job) /\ OfTerminals(url) /\ OfTerminals(block) /\ OfTerminals(seen)
  /\ GatewaysTyped(conf)
  /\ \A t \in Terminals : TerminalInv(t)

(* Changing the gateways, what led to a URL does so or is known to have moved. *)
LEMMA LeadsOn ==
  ASSUME NEW new, Reconfigure(new), GatewaysTyped(conf), NEW g \in GatewayArgs, NEW u \in Urls, Leads(g, u)
  PROVE  Leads(g, u)'
<1>1. conf' = new BY DEF Reconfigure
<1>2. CASE g = ByUrl(u) BY <1>2 DEF Leads
<1>3. ASSUME NEW n \in Names, g = ByName(n), UrlOf(conf, n) = u \/ <<n, u>> \in moved
      PROVE  Leads(g, u)'
  <2>1. CASE <<n, u>> \in moved
    <3>1. <<n, u>> \in moved' BY <2>1 DEF Reconfigure
    <3> QED BY <3>1, <1>3 DEF Leads
  <2>2. CASE UrlOf(conf, n) = u
    <3>1. n \in DOMAIN conf.gateways
      <4>1. "" \notin Urls BY LineAssumption, Zenon
      <4> QED BY <2>2, <4>1, Zenon DEF UrlOf
    <3>2. CASE UrlOf(new, n) = u BY <3>2, <1>1, <1>3 DEF Leads
    <3>3. CASE UrlOf(new, n) # u
      <4>1. <<n, u>> \in moved' BY <3>1, <3>3, <2>2 DEF Reconfigure
      <4> QED BY <4>1, <1>3 DEF Leads
    <3> QED BY <3>2, <3>3
  <2> QED BY <2>1, <2>2, <1>3
<1> QED BY <1>2, <1>3 DEF Leads

(* What has no part in it keeps it so. *)
LEMMA CommandInvKept ==
  ASSUME CommandInv, UNCHANGED command, GatewaysTyped(conf'),
         \A g \in GatewayArgs, u \in Urls : Leads(g, u) => Leads(g, u)'
  PROVE  CommandInv'
<1>1. UNCHANGED <<pc, job, url, block, seen>> BY DEF command
<1>2. ASSUME NEW t \in Terminals PROVE TerminalInv(t)'
  <2>1. TerminalInv(t) BY DEF CommandInv
  <2>2. ASSUME Rendered(t) PROVE Rendered(t)'
    <3>1. PICK g \in GatewayArgs, u \in Urls : Leads(g, u) /\ block[t] = BlockOf(job[t].sandbox, g, u)
      BY <2>2 DEF Rendered
    <3>2. block'[t] = BlockOf(job'[t].sandbox, g, u) BY <3>1, <1>1
    <3> QED BY <3>1, <3>2 DEF Rendered
  <2> QED BY <2>1, <2>2, <1>1 DEF TerminalInv
<1> QED BY <1>1, <1>2 DEF CommandInv, OfTerminals

(* ... with the gateways as they are. *)
LEMMA CommandInvQuiet == CommandInv /\ UNCHANGED <<conf, moved, command>> => CommandInv'
<1> SUFFICES ASSUME CommandInv, UNCHANGED <<conf, moved, command>> PROVE CommandInv'
  OBVIOUS
<1>1. GatewaysTyped(conf') BY DEF CommandInv
<1>2. \A g \in GatewayArgs, u \in Urls : Leads(g, u) => Leads(g, u)' BY DEF Leads
<1> QED BY <1>1, <1>2, CommandInvKept

(* A change of the gateways. *)
LEMMA CommandInvReconfigure ==
  ASSUME CommandInv, NEW n \in Names,
         SelectGateway(n) \/ RemoveGateway(n) \/ \E u \in Urls : AddGateway(n, u)
  PROVE  CommandInv'
<1>1. PICK new : Reconfigure(new) /\ GatewaysTyped(new)
  <2>0. GatewaysTyped(conf) BY DEF CommandInv
  <2>1. CASE SelectGateway(n)
    <3> DEFINE new == [current |-> n, gateways |-> conf.gateways]
    <3>1. Reconfigure(new) BY <2>1 DEF SelectGateway
    <3>2. GatewaysTyped(new) BY <2>0 DEF GatewaysTyped
    <3> QED BY <3>1, <3>2
  <2>2. CASE RemoveGateway(n)
    <3> DEFINE fewer == [m \in DOMAIN conf.gateways \ {n} |-> conf.gateways[m]]
               new == [current |-> IF conf.current = n THEN "" ELSE conf.current, gateways |-> fewer]
    <3>1. Reconfigure(new) BY <2>2, Zenon DEF RemoveGateway
    <3>2. DOMAIN fewer \subseteq Names /\ \A m \in DOMAIN fewer : fewer[m] \in Urls
      BY <2>0 DEF GatewaysTyped
    <3>3. \A c, gs : [current |-> c, gateways |-> gs].gateways = gs OBVIOUS
    <3>4. new.gateways = fewer BY <3>3, Zenon
    <3> HIDE DEF fewer, new
    <3>5. GatewaysTyped(new) BY <3>2, <3>4 DEF GatewaysTyped
    <3> QED BY <3>1, <3>5
  <2>3. ASSUME NEW u \in Urls, AddGateway(n, u)
        PROVE  \E new : Reconfigure(new) /\ GatewaysTyped(new)
    <3> DEFINE more == [m \in DOMAIN conf.gateways \cup {n} |-> IF m = n THEN u ELSE conf.gateways[m]]
               new == [current |-> n, gateways |-> more]
    <3>1. Reconfigure(new) BY <2>3 DEF AddGateway
    <3>2. DOMAIN more \subseteq Names /\ \A m \in DOMAIN more : more[m] \in Urls
      BY <2>0 DEF GatewaysTyped
    <3> HIDE DEF more
    <3>3. GatewaysTyped(new) BY <3>2 DEF GatewaysTyped
    <3> QED BY <3>1, <3>3
  <2> QED BY <2>1, <2>2, <2>3
<1>2. conf' = new /\ UNCHANGED command BY <1>1 DEF Reconfigure, Change
<1>3. \A g \in GatewayArgs, v \in Urls : Leads(g, v) => Leads(g, v)'
  BY <1>1, LeadsOn DEF CommandInv
<1> QED BY <1>1, <1>2, <1>3, CommandInvKept

(* One terminal goes on: the others keep what they have, and their blocks.  *)
LEMMA CommandInvGoes ==
  ASSUME CommandInv, UNCHANGED <<conf, moved>>, NEW t \in Terminals, NEW p \in Places, Goto(t, p),
         NEW j, job' = [job EXCEPT ![t] = j], NEW v, url' = [url EXCEPT ![t] = v],
         NEW b, block' = [block EXCEPT ![t] = b], OfTerminals(seen'),
         p # "idle" /\ JobTyped(j),
         p = "render" => v \in Urls,
         p \in {"resolve", "render"} => b = <<>>,
         p \in Writing => b # <<>>,
         b # <<>> => \E g \in GatewayArgs, u \in Urls : Leads(g, u) /\ b = BlockOf(j.sandbox, g, u)
  PROVE  CommandInv'
<1>1. /\ pc' \in [Terminals -> Places] /\ pc' = [pc EXCEPT ![t] = p]
      /\ OfTerminals(job') /\ OfTerminals(url') /\ OfTerminals(block')
  BY DEF CommandInv, OfTerminals, Goto
<1>2. GatewaysTyped(conf') BY DEF CommandInv
<1>3. \A g, u : Leads(g, u)' <=> Leads(g, u) BY DEF Leads
<1>4. pc'[t] = p /\ job'[t] = j /\ url'[t] = v /\ block'[t] = b
  BY <1>1 DEF CommandInv, OfTerminals
<1>5. ASSUME NEW o \in Terminals, o # t
      PROVE  pc'[o] = pc[o] /\ job'[o] = job[o] /\ url'[o] = url[o] /\ block'[o] = block[o]
  BY <1>1, <1>5 DEF CommandInv, OfTerminals
<1>6. ASSUME NEW o \in Terminals PROVE TerminalInv(o)'
  <2>1. CASE o = t
    <3>1. b # <<>> => Rendered(t)' BY <1>3, <1>4 DEF Rendered
    <3> QED BY <2>1, <3>1, <1>4 DEF TerminalInv
  <2>2. CASE o # t
    <3>1. Rendered(o) => Rendered(o)' BY <2>2, <1>3, <1>5 DEF Rendered
    <3>2. TerminalInv(o) BY DEF CommandInv
    <3> QED BY <2>2, <3>1, <3>2, <1>5 DEF TerminalInv
  <2> QED BY <2>1, <2>2
<1> QED BY <1>1, <1>2, <1>6 DEF CommandInv

(* A function of the terminals that is not changed. *)
LEMMA Unmoved == \A f : OfTerminals(f) => \A t \in Terminals : f = [f EXCEPT ![t] = f[t]]
  BY DEF OfTerminals

(* Nothing written is lost on the way. *)
LEMMA CommandInvWrites ==
  ASSUME CommandInv, UNCHANGED <<conf, moved, job, url, block>>, NEW t \in Terminals,
         pc[t] \in Writing \cup {"resolve"}, NEW p, Goto(t, p),
         (pc[t] \in Writing /\ p \in Writing) \/ p = "failed", OfTerminals(seen')
  PROVE  CommandInv'
<1>1. p \in Places /\ p # "idle" /\ p # "resolve" /\ p # "render" BY DEF Writing, Places
<1>2. /\ job' = [job EXCEPT ![t] = job[t]] /\ url' = [url EXCEPT ![t] = url[t]]
      /\ block' = [block EXCEPT ![t] = block[t]]
  BY Unmoved DEF CommandInv
<1>3. TerminalInv(t) BY DEF CommandInv
<1>4. pc[t] # "idle" BY DEF Writing
<1>5. JobTyped(job[t]) BY <1>3, <1>4 DEF TerminalInv
<1>6. p \in Writing => block[t] # <<>>
  <2>1. "failed" \notin Writing BY DEF Writing
  <2> QED BY <2>1, <1>3 DEF TerminalInv
<1> DEFINE j == job[t]
           v == url[t]
           b == block[t]
<1>7. b # <<>> => \E g \in GatewayArgs, u \in Urls : Leads(g, u) /\ b = BlockOf(j.sandbox, g, u)
  BY <1>3 DEF TerminalInv, Rendered
<1>8. /\ job' = [job EXCEPT ![t] = j] /\ url' = [url EXCEPT ![t] = v] /\ block' = [block EXCEPT ![t] = b]
      /\ JobTyped(j) /\ (p \in Writing => b # <<>>)
  BY <1>2, <1>5, <1>6
<1> HIDE DEF j, v, b
<1>9. UNCHANGED <<conf, moved>> /\ Goto(t, p) /\ OfTerminals(seen') OBVIOUS
<1>10. p # "idle" /\ (p = "render" => v \in Urls) /\ (p \in {"resolve", "render"} => b = <<>>) BY <1>1
<1> QED BY <1>1, <1>7, <1>8, <1>9, <1>10, CommandInvGoes

(* A terminal is called. *)
LEMMA CommandInvCall ==
  ASSUME CommandInv, NEW t \in Terminals, NEW j, JobTyped(j), Call(t, j)
  PROVE  CommandInv'
<1>1. url' = [url EXCEPT ![t] = url[t]] /\ block' = [block EXCEPT ![t] = block[t]]
  BY Unmoved DEF CommandInv, Call
<1>2. block[t] = <<>> BY DEF CommandInv, TerminalInv, Call
<1>3. "resolve" \in Places /\ "resolve" \notin Writing BY DEF Places, Writing
<1>4. /\ UNCHANGED <<conf, moved>> /\ OfTerminals(seen') /\ job' = [job EXCEPT ![t] = j]
      /\ Goto(t, "resolve")
  BY DEF Call, CommandInv
<1> QED BY <1>1, <1>2, <1>3, <1>4, CommandInvGoes

(* The gateway found for a command is a URL, or none. *)
LEMMA UrlFound ==
  ASSUME NEW c, GatewaysTyped(c), NEW e, NEW asked, asked.url \in Urls \cup {""}
  PROVE  CurrentGatewayURL(c, e, asked) \in Urls \cup {""}
<1>1. \A n : UrlOf(c, n) \in Urls \cup {""} BY Zenon DEF UrlOf, GatewaysTyped
<1> QED BY <1>1, Zenon DEF CurrentGatewayURL

(* A command finds its gateway. *)
LEMMA CommandInvResolve ==
  ASSUME CommandInv, NEW t \in Terminals, Resolve(t)
  PROVE  CommandInv'
<1> DEFINE u == CurrentGatewayURL(conf, job[t].env, job[t].asked)
           p == IF u = "" THEN "failed" ELSE "render"
<1>1. /\ pc[t] = "resolve" /\ url' = [url EXCEPT ![t] = u] /\ Goto(t, p)
      /\ UNCHANGED <<conf, moved, job, block, seen>>
  BY DEF Resolve
<1>2. TerminalInv(t) /\ JobTyped(job[t]) /\ block[t] = <<>>
  BY <1>1 DEF CommandInv, TerminalInv
<1>3. u \in Urls \cup {""} BY <1>2, UrlFound DEF CommandInv, JobTyped
<1>4. p \in Places /\ p # "idle" /\ p \notin Writing BY DEF Places, Writing
<1>5. p = "render" => u \in Urls BY <1>3, Zenon
<1>6. job' = [job EXCEPT ![t] = job[t]] /\ block' = [block EXCEPT ![t] = block[t]] /\ OfTerminals(seen')
  BY <1>1, Unmoved DEF CommandInv
<1> HIDE DEF u, p
<1> QED BY <1>1, <1>2, <1>4, <1>5, <1>6, CommandInvGoes

(* The gateway's arguments in a block lead to the URL it is made for. *)
LEMMA ArgsFound ==
  ASSUME GatewaysTyped(conf), NEW asked, NEW u \in Urls,
         NEW g \in ProxyGatewayArgs(conf, asked, u) \cup {ByUrl(u)}
  PROVE  g \in GatewayArgs /\ Leads(g, u)
<1> DEFINE having == {n \in DOMAIN conf.gateways : conf.gateways[n] = u}
           names == IF asked.name \in having THEN {asked.name}
                    ELSE IF conf.current \in having THEN {conf.current} ELSE having
<1>1. names \subseteq having OBVIOUS
<1>2. g = ByUrl(u) \/ \E n \in names : g = ByName(n)
  BY Zenon DEF ProxyGatewayArgs
<1>3. \A n \in having : n \in Names /\ UrlOf(conf, n) = u BY DEF GatewaysTyped, UrlOf
<1> HIDE DEF having, names
<1> QED BY <1>1, <1>2, <1>3 DEF GatewayArgs, Leads

(* A command renders its block. *)
LEMMA CommandInvRender ==
  ASSUME CommandInv, NEW t \in Terminals, Render(t)
  PROVE  CommandInv'
<1> DEFINE p == IF job[t].install THEN "managed" ELSE "done"
<1>1. PICK g \in ProxyGatewayArgs(conf, job[t].asked, url[t]) \cup {ByUrl(url[t])} :
        block' = [block EXCEPT ![t] = BlockOf(job[t].sandbox, g, url[t])]
  BY DEF Render, BlockOf
<1>2. /\ pc[t] = "render" /\ url' = [url EXCEPT ![t] = ""] /\ Goto(t, p)
      /\ UNCHANGED <<conf, moved, job, seen>>
  BY DEF Render
<1>3. TerminalInv(t) /\ JobTyped(job[t]) /\ url[t] \in Urls /\ GatewaysTyped(conf)
  BY <1>2 DEF CommandInv, TerminalInv
<1>4. g \in GatewayArgs /\ Leads(g, url[t]) BY <1>1, <1>3, ArgsFound
<1>5. p \in Places /\ p \notin {"idle", "resolve", "render"} BY DEF Places
<1>6. job' = [job EXCEPT ![t] = job[t]] /\ OfTerminals(seen')
  BY <1>2, Unmoved DEF CommandInv
<1>7. BlockOf(job[t].sandbox, g, url[t]) # <<>> BY DEF BlockOf
<1> DEFINE v == ""
<1> HIDE DEF p, v
<1>8. url' = [url EXCEPT ![t] = v] BY <1>2, Zenon DEF v
<1>9. p # "render" BY <1>5
<1> QED BY <1>1, <1>2, <1>3, <1>4, <1>5, <1>6, <1>7, <1>8, <1>9, CommandInvGoes

(* A command reads or writes a file. *)
LEMMA CommandInvFiles ==
  ASSUME CommandInv, NEW t \in Terminals,
         ReadManaged(t) \/ WriteManaged(t) \/ ReadUser(t) \/ WriteUser(t)
  PROVE  CommandInv'
<1>1. OfTerminals(seen) BY DEF CommandInv
<1>2. ASSUME NEW lines, seen' = [seen EXCEPT ![t] = lines] PROVE OfTerminals(seen')
  BY <1>1, <1>2 DEF OfTerminals
<1>3. OfTerminals(seen') 
  BY <1>1, <1>2 DEF ReadManaged, WriteManaged, ReadUser, WriteUser
<1>4. UNCHANGED <<conf, moved, job, url, block>>
  BY DEF ReadManaged, WriteManaged, ReadUser, WriteUser
<1>5. PICK p \in Writing : Goto(t, p)
  <2>1. {"upsert", "user", "include", "done"} \subseteq Writing BY DEF Writing
  <2> QED BY <2>1 DEF ReadManaged, WriteManaged, ReadUser, WriteUser
<1>6. pc[t] \in Writing
  BY DEF ReadManaged, WriteManaged, ReadUser, WriteUser, Writing
<1> QED BY <1>3, <1>4, <1>5, <1>6, CommandInvWrites

(* What a handler is called with is of the right kind. *)
LEMMA AskedJob ==
  ASSUME TypingInv, outcome.how = "called", outcome.op \in SshCommands
  PROVE  JobTyped(Asked(outcome))
<1> DEFINE s == outcome.meaning["name"]
           asked == GatewayAsked(task.env, Scan(Globals, line))
<1>1. s \in SandboxArgs
  <2>1. outcome = Executed(line) /\ line \in Seq(Args) BY DEF TypingInv
  <2> QED BY <2>1, SandboxTyped
<1>2. asked.url \in Urls \cup {""}
  <2> DEFINE r == Scan(Globals, line)
  <2>1. line \in Seq(LineArgs) /\ NoFlag \in LineArgs BY DEF TypingInv, LineArgs
  <2>2. r.groups \in Seq(GroupsOf(Globals, LineArgs))
    BY <2>1, GlobalsRefuseNothing, ScanKeeps DEF Sound, Readings
  <2> HIDE DEF r
  <2>3. Len(r.groups) \in Nat BY <2>2
  <2> QED BY <2>3, AskedTyped DEF r
<1>3. Asked(outcome).sandbox = s /\ Asked(outcome).asked = asked BY DEF Asked
<1> QED BY <1>1, <1>2, <1>3 DEF JobTyped

(* It is so at first. *)
LEMMA CommandInvInit == SshInit => CommandInv
<1> SUFFICES ASSUME SshInit PROVE CommandInv
  OBVIOUS
<1>1. /\ pc = [t \in Terminals |-> "idle"] /\ job = [t \in Terminals |-> Idle]
      /\ url = [t \in Terminals |-> ""] /\ conf = Gateways
      /\ block = [t \in Terminals |-> <<>>] /\ seen = [t \in Terminals |-> <<>>]
  BY DEF SshInit
<1>2. OfTerminals(job) /\ OfTerminals(block) /\ OfTerminals(seen) BY <1>1 DEF OfTerminals
<1>3. OfTerminals(url)
  <2> DEFINE v == ""
  <2>1. url = [t \in Terminals |-> v] BY <1>1, Zenon
  <2> HIDE DEF v
  <2> QED BY <2>1 DEF OfTerminals
<1>4. \A t \in Terminals : pc[t] = "idle" /\ block[t] = <<>> BY <1>1
<1>5. pc \in [Terminals -> Places] BY <1>1 DEF Places
<1>6. "idle" \notin Writing BY DEF Writing
<1>7. \A t \in Terminals : TerminalInv(t) BY <1>4, <1>6 DEF TerminalInv
<1>8. GatewaysTyped(conf) BY <1>1, SshAssumption DEF GatewaysTyped
<1> QED BY <1>2, <1>3, <1>5, <1>7, <1>8 DEF CommandInv

(* ... and after every step. *)
LEMMA CommandInvStep == TypingInv /\ CommandInv /\ [SshNext]_vars => CommandInv'
<1> SUFFICES ASSUME TypingInv, CommandInv, [SshNext]_vars PROVE CommandInv'
  OBVIOUS
<1>1. CASE UNCHANGED <<conf, moved, command>> BY <1>1, CommandInvQuiet
<1>2. CASE TypedCall
  <2>1. Typist \in Terminals BY SshAssumption
  <2>2. JobTyped(Asked(outcome)) /\ Call(Typist, Asked(outcome)) BY <1>2, AskedJob DEF TypedCall
  <2> QED BY <2>1, <2>2, CommandInvCall
<1>3. ASSUME NEW t \in Terminals, NEW j \in Jobs, Call(t, j) PROVE CommandInv'
  <2>1. JobTyped(j) BY SshAssumption, Zenon DEF JobTyped, SandboxArgs, LineArgs
  <2> QED BY <1>3, <2>1, CommandInvCall
<1>4. ASSUME NEW t \in Terminals, Step(t) PROVE CommandInv'
  BY <1>4, CommandInvResolve, CommandInvRender, CommandInvFiles DEF Step
<1>5. ASSUME NEW n \in Names, SelectGateway(n) \/ RemoveGateway(n) \/ \E u \in Urls : AddGateway(n, u)
      PROVE  CommandInv'
  BY <1>5, CommandInvReconfigure
<1>6. ASSUME NEW lines, EditUser(lines) PROVE UNCHANGED <<conf, moved, command>>
  BY <1>6 DEF EditUser, Change
<1>7. CASE UNCHANGED vars BY <1>7, <1>1 DEF vars
<1> QED BY <1>1, <1>2, <1>3, <1>4, <1>5, <1>6, <1>7 DEF SshNext

(* So it is always. *)
LEMMA CommandInvAlways == SshSpec => [](TypingInv /\ CommandInv)
<1>1. SshInit => CommandInv BY CommandInvInit
<1> QED BY <1>1, CommandInvStep, TypingInvAlways, PTL DEF SshSpec

----------------------------------------------------------------------------
(* The file of Host blocks *)

ProxyLine == {ProxyCommand(SSHProxyFor(g, s), u) : g \in GatewayArgs, s \in SandboxArgs, u \in Urls}
ManagedLine == {Blank, Setting} \cup {Host({s}) : s \in SandboxArgs} \cup ProxyLine
Three(s, p) == <<Host({s}), Setting, p>>

(* Lines by their kinds. *)
LEMMA Kinds ==
  /\ Blank.kind = "blank" /\ Setting.kind = "setting" /\ Include.kind = "include"
  /\ \A names : Host(names).kind = "host" /\ Host(names).names = names
  /\ \A p \in ProxyLine : p.kind = "proxy"
  /\ \A s, p : Three(s, p)[1] = Host({s}) /\ Three(s, p)[2] = Setting /\ Three(s, p)[3] = p
               /\ Len(Three(s, p)) = 3
<1>1. \A c, f : ProxyCommand(c, f).kind = "proxy" BY DEF ProxyCommand
<1>2. \A p \in ProxyLine : p.kind = "proxy" BY <1>1 DEF ProxyLine
<1>3. \A s, p : Three(s, p)[1] = Host({s}) /\ Three(s, p)[2] = Setting /\ Three(s, p)[3] = p
                /\ Len(Three(s, p)) = 3
  BY DEF Three
<1> QED BY <1>2, <1>3 DEF Blank, Setting, Include, Host

(* B is the set of blocks that were rendered, each for a sandbox. *)
Blocks(B) == \A b \in B : \E s \in SandboxArgs, p \in ProxyLine : b = Three(s, p)

(* One of them begins at this line. *)
BlockAt(B, lines, i) ==
  /\ i \in DOMAIN lines /\ i + 1 \in DOMAIN lines /\ i + 2 \in DOMAIN lines
  /\ \E b \in B : lines[i] = b[1] /\ lines[i + 1] = b[2] /\ lines[i + 2] = b[3]
  /\ i + 3 \in DOMAIN lines => lines[i + 3] = Blank

(* The file is one block after the other, with a blank line between them,   *)
(* and one for a sandbox.                                                   *)
Shaped(B, lines) ==
  /\ lines \in Seq(ManagedLine)
  /\ \A i \in DOMAIN lines :
       \/ BlockAt(B, lines, i)
       \/ i > 1 /\ BlockAt(B, lines, i - 1)
       \/ i > 2 /\ BlockAt(B, lines, i - 2)
       \/ lines[i] = Blank /\ BlockAt(B, lines, i + 1)
  /\ \A i, j \in DOMAIN lines : BlockAt(B, lines, i) /\ BlockAt(B, lines, j) /\ lines[i] = lines[j] => i = j

(* The Host line of a sandbox. *)
ForSandbox(l) == \E s \in SandboxArgs : l = Host({s})

(* The lines of a block. *)
LEMMA BlockLines ==
  ASSUME NEW B, Blocks(B), NEW lines, NEW i, BlockAt(B, lines, i)
  PROVE  /\ ForSandbox(lines[i])
         /\ lines[i].kind = "host" /\ lines[i + 1] = Setting /\ lines[i + 1].kind = "setting"
         /\ lines[i + 2] \in ProxyLine /\ lines[i + 2].kind = "proxy"
<1>1. PICK b \in B : lines[i] = b[1] /\ lines[i + 1] = b[2] /\ lines[i + 2] = b[3]
  BY DEF BlockAt
<1>2. PICK s \in SandboxArgs, p \in ProxyLine : b = Three(s, p) BY DEF Blocks
<1>3. lines[i] = Host({s}) /\ lines[i + 1] = Setting /\ lines[i + 2] = p BY <1>1, <1>2, Kinds
<1>4. lines[i].kind = "host" /\ lines[i + 1].kind = "setting" /\ lines[i + 2].kind = "proxy"
  BY <1>3, Kinds
<1> QED BY <1>3, <1>4 DEF ForSandbox

(* Where a block starts. *)
LEMMA HostAt ==
  ASSUME NEW B, Blocks(B), NEW lines, Shaped(B, lines), NEW i \in DOMAIN lines
  PROVE  /\ IsBlockStart(lines[i]) <=> BlockAt(B, lines, i)
         /\ lines[i].kind = "host" <=> BlockAt(B, lines, i)
         /\ lines[i].kind = "proxy" <=> i > 2 /\ BlockAt(B, lines, i - 2)
         /\ lines[i] = Blank => BlockAt(B, lines, i + 1)
         /\ lines[i] # Blank \/ i + 1 \in DOMAIN lines
<1>0. i \in Nat /\ (i - 1) + 1 = i /\ (i - 2) + 2 = i BY DEF Shaped
<1>1. CASE BlockAt(B, lines, i)
  <2>1. lines[i].kind = "host" BY <1>1, BlockLines
  <2>2. ASSUME i > 2, BlockAt(B, lines, i - 2) PROVE FALSE
    BY <2>1, <2>2, <1>0, BlockLines
  <2>3. lines[i] # Blank BY <2>1, Kinds
  <2> QED BY <1>1, <2>1, <2>2, <2>3 DEF IsBlockStart
<1>2. CASE i > 1 /\ BlockAt(B, lines, i - 1)
  <2>1. lines[i].kind = "setting" BY <1>0, <1>2, BlockLines
  <2>2. ASSUME i > 2, BlockAt(B, lines, i - 2) PROVE FALSE
    BY <2>1, <2>2, <1>0, BlockLines
  <2>3. lines[i] # Blank BY <2>1, Kinds
  <2>4. ~BlockAt(B, lines, i) BY <2>1, BlockLines
  <2> QED BY <2>1, <2>2, <2>3, <2>4 DEF IsBlockStart
<1>3. CASE i > 2 /\ BlockAt(B, lines, i - 2)
  <2>1. lines[i].kind = "proxy" BY <1>0, <1>3, BlockLines
  <2>3. lines[i] # Blank BY <2>1, Kinds
  <2>4. ~BlockAt(B, lines, i) BY <2>1, BlockLines
  <2> QED BY <1>3, <2>1, <2>3, <2>4 DEF IsBlockStart
<1>4. CASE lines[i] = Blank /\ BlockAt(B, lines, i + 1)
  <2>1. lines[i].kind = "blank" BY <1>4, Kinds
  <2>2. ASSUME i > 2, BlockAt(B, lines, i - 2) PROVE FALSE
    BY <2>1, <2>2, <1>0, BlockLines
  <2>4. ~BlockAt(B, lines, i) BY <2>1, BlockLines
  <2>5. i + 1 \in DOMAIN lines BY <1>4 DEF BlockAt
  <2> QED BY <1>4, <2>1, <2>2, <2>4, <2>5 DEF IsBlockStart
<1> QED BY <1>1, <1>2, <1>3, <1>4 DEF Shaped

(* A file whose last line is not blank is trimmed. *)
LEMMA TrimmedAlready ==
  ASSUME NEW L, NEW lines \in Seq(L), lines = <<>> \/ lines[Len(lines)] # Blank
  PROVE  Trimmed(lines) = lines
<1>1. PICK k \in Nat : /\ k <= Len(lines) /\ Trimmed(lines) = SubSeq(lines, 1, k)
                       /\ \A i \in 1 .. Len(lines) : i > k => lines[i] = Blank
  BY TrimmedIs
<1>2. Len(lines) \in Nat /\ (lines = <<>> => Len(lines) = 0) /\ (lines # <<>> => Len(lines) # 0) OBVIOUS
<1>3. k = Len(lines) BY <1>1, <1>2
<1> DEFINE u == SubSeq(lines, 1, k)
           v == SubSeq(lines, k + 1, Len(lines))
<1>4. u \in Seq(L) /\ v \in Seq(L) /\ u \o v = lines BY <1>1, SplitAt
<1>5. Len(v) = 0
  <2>1. \A i \in (k + 1) .. Len(lines) : lines[i] \in L BY <1>1
  <2> QED BY <1>1, <1>2, <1>3, <2>1, SubSeqProperties
<1> HIDE DEF u, v
<1>6. v = <<>> BY <1>4, <1>5
<1>7. u \o <<>> = u BY <1>4, ConcatEmptySeq
<1> QED BY <1>1, <1>4, <1>6, <1>7 DEF u

(* ... as is the file of Host blocks. *)
LEMMA ShapedTrimmed ==
  ASSUME NEW B, Blocks(B), NEW lines, Shaped(B, lines)
  PROVE  Trimmed(lines) = lines
<1>1. lines \in Seq(ManagedLine) BY DEF Shaped
<1>2. CASE lines = <<>> BY <1>1, <1>2, TrimmedAlready
<1>3. CASE lines # <<>>
  <2>1. Len(lines) \in DOMAIN lines /\ Len(lines) + 1 \notin DOMAIN lines BY <1>1, <1>3
  <2>2. lines[Len(lines)] # Blank BY <2>1, HostAt
  <2> QED BY <1>1, <2>2, TrimmedAlready
<1> QED BY <1>2, <1>3

(* Blocks of one file that another has as well, at the same places. *)
LEMMA BlocksAgree ==
  ASSUME NEW B, Blocks(B), NEW lines, Shaped(B, lines), NEW M \in Seq(ManagedLine),
         Len(lines) <= Len(M), NEW i \in DOMAIN lines
  PROVE  /\ BlockAt(B, lines, i) /\ (\A j \in i .. i + 3 : j \in DOMAIN lines => M[j] = lines[j])
            /\ (i + 3 \in DOMAIN M \ DOMAIN lines => M[i + 3] = Blank)
            => BlockAt(B, M, i)
         /\ IsBlockStart(M[i]) /\ M[i] = lines[i] => BlockAt(B, lines, i)
<1>1. DOMAIN lines = 1 .. Len(lines) /\ DOMAIN M = 1 .. Len(M) /\ Len(lines) \in Nat /\ Len(M) \in Nat /\ i \in Nat
  BY DEF Shaped
<1>2. ASSUME BlockAt(B, lines, i), \A j \in i .. i + 3 : j \in DOMAIN lines => M[j] = lines[j],
             i + 3 \in DOMAIN M \ DOMAIN lines => M[i + 3] = Blank
      PROVE  BlockAt(B, M, i)
  <2>1. M[i] = lines[i] /\ M[i + 1] = lines[i + 1] /\ M[i + 2] = lines[i + 2]
    BY <1>1, <1>2 DEF BlockAt
  <2>2. i \in DOMAIN M /\ i + 1 \in DOMAIN M /\ i + 2 \in DOMAIN M BY <1>1, <1>2 DEF BlockAt
  <2>3. i + 3 \in DOMAIN M => M[i + 3] = Blank BY <1>1, <1>2 DEF BlockAt
  <2> QED BY <2>1, <2>2, <2>3, <1>2 DEF BlockAt
<1> QED BY <1>2, HostAt

(* Whose hosts a file has. *)
LEMMA SandboxesOf ==
  ASSUME NEW B, Blocks(B), NEW lines, Shaped(B, lines), NEW s
  PROVE  s \in Sandboxes(lines) <=> \E i \in DOMAIN lines : BlockAt(B, lines, i) /\ lines[i] = Host({s})
<1>1. s \in Sandboxes(lines) <=> \E i \in DOMAIN lines : lines[i].kind = "host" /\ s \in lines[i].names
  BY DEF Sandboxes
<1>2. ASSUME NEW i \in DOMAIN lines
      PROVE  lines[i].kind = "host" /\ s \in lines[i].names <=> BlockAt(B, lines, i) /\ lines[i] = Host({s})
  <2>1. lines[i].kind = "host" <=> BlockAt(B, lines, i) BY HostAt
  <2>2. ASSUME BlockAt(B, lines, i) PROVE s \in lines[i].names <=> lines[i] = Host({s})
    <3>0. ForSandbox(lines[i]) BY <2>2, BlockLines
    <3>1. PICK o \in SandboxArgs : lines[i] = Host({o}) BY <3>0, Zenon DEF ForSandbox
    <3>2. Host({o}).names = {o} /\ Host({s}).names = {s} BY Kinds
    <3> QED BY <3>1, <3>2
  <2> QED BY <2>1, <2>2
<1> QED BY <1>1, <1>2

(* The lines of a block in a file of such lines. *)
LEMMA ThreeLines ==
  ASSUME NEW s \in SandboxArgs, NEW p \in ProxyLine
  PROVE  Three(s, p) \in Seq(ManagedLine) /\ Len(Three(s, p)) = 3
<1>1. Host({s}) \in ManagedLine /\ Setting \in ManagedLine /\ p \in ManagedLine BY DEF ManagedLine
<1> QED BY <1>1 DEF Three

(* A file of one block. *)
LEMMA ShapedNew ==
  ASSUME NEW B, Blocks(B), NEW s \in SandboxArgs, NEW p \in ProxyLine, Three(s, p) \in B
  PROVE  Shaped(B, Three(s, p)) /\ Sandboxes(Three(s, p)) = {s}
<1> DEFINE M == Three(s, p)
<1>1. M \in Seq(ManagedLine) /\ DOMAIN M = 1 .. 3 BY ThreeLines DEF Three
<1>2. M[1] = Host({s}) /\ M[2] = Setting /\ M[3] = p BY Kinds
<1>3. M \in B OBVIOUS
<1> HIDE DEF M
<1>4. BlockAt(B, M, 1) BY <1>1, <1>3 DEF BlockAt
<1>5. \A i \in 1 .. 3 : BlockAt(B, M, i) => i = 1
  BY <1>1 DEF BlockAt
<1>6. Shaped(B, M)
  <2>1. \A i \in 1 .. 3 : i = 1 \/ i - 1 = 1 \/ i - 2 = 1 OBVIOUS
  <2>2. \A i \in 1 .. 3 : \/ BlockAt(B, M, i)
                          \/ i > 1 /\ BlockAt(B, M, i - 1)
                          \/ i > 2 /\ BlockAt(B, M, i - 2)
                          \/ M[i] = Blank /\ BlockAt(B, M, i + 1)
    BY <1>4, <2>1
  <2> QED BY <1>1, <1>5, <2>2 DEF Shaped
<1>7. \A o : o \in Sandboxes(M) <=> o = s
  <2> SUFFICES ASSUME NEW o PROVE o \in Sandboxes(M) <=> o = s
    OBVIOUS
  <2>1. Host({o}).names = {o} /\ Host({s}).names = {s} BY Kinds
  <2>2. o \in Sandboxes(M) <=> \E i \in DOMAIN M : BlockAt(B, M, i) /\ M[i] = Host({o})
    BY <1>6, SandboxesOf
  <2>3. o \in Sandboxes(M) <=> M[1] = Host({o}) BY <1>1, <1>4, <1>5, <2>2
  <2>4. Host({s}) = Host({o}) <=> o = s BY <2>1
  <2> QED BY <1>2, <2>3, <2>4
<1> QED BY <1>6, <1>7 DEF M

(* A block goes to the end, after a blank line. *)
LEMMA ShapedAppended ==
  ASSUME NEW B, Blocks(B), NEW lines, Shaped(B, lines),
         NEW s \in SandboxArgs, NEW p \in ProxyLine, Three(s, p) \in B,
         \A i \in DOMAIN lines : ~IsHostLineFor(lines[i], s)
  PROVE  /\ Shaped(B, lines \o <<Blank>> \o Three(s, p))
         /\ Sandboxes(lines \o <<Blank>> \o Three(s, p)) = Sandboxes(lines) \cup {s}
<1> DEFINE new == Three(s, p)
           M == lines \o <<Blank>> \o new
           n == Len(lines)
<1>0. n \in Nat /\ DOMAIN lines = 1 .. n /\ lines \in Seq(ManagedLine) BY DEF Shaped
<1>1. /\ M \in Seq(ManagedLine) /\ Len(M) = n + 4
      /\ \A i \in 1 .. n : M[i] = lines[i]
      /\ M[n + 1] = Blank /\ M[n + 2] = new[1] /\ M[n + 3] = new[2] /\ M[n + 4] = new[3]
  <2>1. Blank \in ManagedLine BY DEF ManagedLine
  <2>2. new \in Seq(ManagedLine) /\ Len(new) = 3 BY ThreeLines
  <2> DEFINE b == <<Blank>>
             w == lines \o b
  <2>3. b \in Seq(ManagedLine) /\ Len(b) = 1 /\ b[1] = Blank BY <2>1
  <2> HIDE DEF b, new, n
  <2>4. /\ w \in Seq(ManagedLine) /\ Len(w) = Len(lines) + 1
        /\ \A i \in 1 .. Len(lines) : w[i] = lines[i]
        /\ \A i \in 1 .. Len(b) : w[Len(lines) + i] = b[i]
    <3>1. lines \in Seq(ManagedLine) /\ b \in Seq(ManagedLine) BY <1>0, <2>3
    <3>2. /\ lines \o b \in Seq(ManagedLine) /\ Len(lines \o b) = Len(lines) + Len(b)
          /\ \A i \in 1 .. Len(lines) : (lines \o b)[i] = lines[i]
          /\ \A i \in 1 .. Len(b) : (lines \o b)[Len(lines) + i] = b[i]
      BY <3>1, ConcatProperties
    <3> QED BY <2>3, <3>2, Zenon
  <2>5. w \in Seq(ManagedLine) /\ Len(w) = n + 1 /\ (\A i \in 1 .. n : w[i] = lines[i]) /\ w[n + 1] = Blank
    BY <2>3, <2>4 DEF n
  <2> HIDE DEF w
  <2>6. /\ w \o new \in Seq(ManagedLine) /\ Len(w \o new) = (n + 1) + 3
        /\ \A i \in 1 .. Len(w) : (w \o new)[i] = w[i]
        /\ \A i \in 1 .. Len(new) : (w \o new)[Len(w) + i] = new[i]
    <3>1. w \in Seq(ManagedLine) /\ new \in Seq(ManagedLine) BY <2>2, <2>5
    <3>2. /\ w \o new \in Seq(ManagedLine) /\ Len(w \o new) = Len(w) + Len(new)
          /\ \A i \in 1 .. Len(w) : (w \o new)[i] = w[i]
          /\ \A i \in 1 .. Len(new) : (w \o new)[Len(w) + i] = new[i]
      BY <3>1, ConcatProperties
    <3> QED BY <2>2, <2>5, <3>2, Zenon
  <2> DEFINE m == w \o new
  <2> HIDE DEF m
  <2>7. /\ m \in Seq(ManagedLine) /\ Len(m) = (n + 1) + 3
        /\ \A i \in 1 .. (n + 1) : m[i] = w[i]
        /\ \A i \in 1 .. 3 : m[(n + 1) + i] = new[i]
    BY <2>2, <2>5, <2>6 DEF m
  <2>8. (n + 1) + 3 = n + 4 /\ (n + 1) + 1 = n + 2 /\ (n + 1) + 2 = n + 3 BY <1>0
  <2>9. m[n + 1] = Blank /\ \A i \in 1 .. n : m[i] = lines[i] BY <1>0, <2>5, <2>7
  <2>10. m[n + 2] = new[1] /\ m[n + 3] = new[2] /\ m[n + 4] = new[3] BY <1>0, <2>7, <2>8
  <2> QED BY <2>7, <2>8, <2>9, <2>10 DEF m, w, b
<1>2. new[1] = Host({s}) /\ new[2] = Setting /\ new[3] = p /\ new \in B BY Kinds
<1> HIDE DEF new, M, n
<1>3. DOMAIN M = 1 .. (n + 4) BY <1>1
<1>4. BlockAt(B, M, n + 2)
  <2>1. n + 2 \in 1 .. n + 4 /\ (n + 2) + 1 = n + 3 /\ (n + 2) + 2 = n + 4 /\ (n + 2) + 3 \notin 1 .. (n + 4)
        /\ n + 3 \in 1 .. n + 4 /\ n + 4 \in 1 .. n + 4
    BY <1>0
  <2> QED BY <2>1, <1>1, <1>2, <1>3 DEF BlockAt
<1>5. ASSUME NEW i \in DOMAIN lines PROVE BlockAt(B, lines, i) <=> BlockAt(B, M, i)
  <2>1. i \in 1 .. n /\ M[i] = lines[i] /\ Len(lines) <= Len(M) BY <1>0, <1>1 DEF n
  <2>2. \A j \in i .. i + 3 : j \in DOMAIN lines => M[j] = lines[j] BY <1>0, <1>1
  <2>3. ASSUME BlockAt(B, lines, i), i + 3 \in DOMAIN M \ DOMAIN lines PROVE M[i + 3] = Blank
    <3>1. i + 2 \in 1 .. n BY <2>3, <1>0 DEF BlockAt
    <3>2. i + 3 = n + 1 BY <2>3, <3>1, <2>1, <1>0
    <3> QED BY <3>2, <1>1
  <2>4. BlockAt(B, M, i) => IsBlockStart(M[i])
    <3>1. BlockAt(B, M, i) => M[i].kind = "host" BY BlockLines
    <3> QED BY <3>1 DEF IsBlockStart
  <2> QED BY <1>1, <2>1, <2>2, <2>3, <2>4, BlocksAgree
<1>6. ASSUME NEW i \in DOMAIN M, i \notin DOMAIN lines, BlockAt(B, M, i) PROVE i = n + 2
  <2>1. i \in {n + 1, n + 2, n + 3, n + 4} BY <1>0, <1>3, <1>6
  <2>2. M[i].kind = "host" BY <1>6, BlockLines
  <2>3. p.kind = "proxy" /\ Setting.kind = "setting" /\ Blank.kind = "blank" BY Kinds
  <2> QED BY <2>1, <2>2, <2>3, <1>1, <1>2
<1>7. Shaped(B, M)
  <2>1. ASSUME NEW i \in DOMAIN M
        PROVE  \/ BlockAt(B, M, i)
               \/ i > 1 /\ BlockAt(B, M, i - 1)
               \/ i > 2 /\ BlockAt(B, M, i - 2)
               \/ M[i] = Blank /\ BlockAt(B, M, i + 1)
    <3>1. CASE i \in DOMAIN lines
      <4>1. \/ BlockAt(B, lines, i)
            \/ i > 1 /\ BlockAt(B, lines, i - 1)
            \/ i > 2 /\ BlockAt(B, lines, i - 2)
            \/ lines[i] = Blank /\ BlockAt(B, lines, i + 1)
        BY <3>1 DEF Shaped
      <4>2. i > 1 => i - 1 \in DOMAIN lines BY <3>1, <1>0
      <4>3. i > 2 => i - 2 \in DOMAIN lines BY <3>1, <1>0
      <4>4. BlockAt(B, lines, i + 1) => i + 1 \in DOMAIN lines BY DEF BlockAt
      <4>5. M[i] = lines[i] BY <3>1, <1>0, <1>1
      <4> QED BY <3>1, <4>1, <4>2, <4>3, <4>4, <4>5, <1>5
    <3>2. CASE i \notin DOMAIN lines
      <4>1. i = n + 1 \/ i = n + 2 \/ i = n + 3 \/ i = n + 4 BY <3>2, <1>0, <1>3
      <4>2. /\ (n + 1) + 1 = n + 2 /\ (n + 3) - 1 = n + 2 /\ (n + 4) - 2 = n + 2 /\ n + 3 > 1 /\ n + 4 > 2 BY <1>0
      <4> QED BY <4>1, <4>2, <1>1, <1>4
    <3> QED BY <3>1, <3>2
  <2>2. ASSUME NEW i \in DOMAIN M, NEW j \in DOMAIN M, BlockAt(B, M, i), BlockAt(B, M, j), M[i] = M[j]
        PROVE  i = j
    <3>1. ASSUME NEW k \in DOMAIN lines, BlockAt(B, M, k), M[k] = M[n + 2] PROVE FALSE
      <4>1. lines[k] = Host({s}) BY <3>1, <1>0, <1>1, <1>2
      <4>2. Host({s}).kind = "host" /\ Host({s}).names = {s} BY Kinds
      <4>3. IsHostLineFor(lines[k], s) BY <4>1, <4>2 DEF IsHostLineFor
      <4> QED BY <4>3
    <3>2. CASE i \in DOMAIN lines /\ j \in DOMAIN lines
      <4>1. BlockAt(B, lines, i) /\ BlockAt(B, lines, j) BY <3>2, <2>2, <1>5
      <4>2. lines[i] = lines[j] BY <3>2, <2>2, <1>0, <1>1
      <4> QED BY <3>2, <4>1, <4>2 DEF Shaped
    <3>3. CASE i \notin DOMAIN lines BY <3>3, <3>1, <2>2, <1>6
    <3>4. CASE j \notin DOMAIN lines BY <3>4, <3>1, <2>2, <1>6
    <3> QED BY <3>2, <3>3, <3>4
  <2> QED BY <1>1, <2>1, <2>2 DEF Shaped
<1>8. ASSUME NEW o PROVE o \in Sandboxes(M) <=> o \in Sandboxes(lines) \/ o = s
  <2>1. o \in Sandboxes(M) <=> \E i \in DOMAIN M : BlockAt(B, M, i) /\ M[i] = Host({o})
    BY <1>7, SandboxesOf
  <2>2. o \in Sandboxes(lines) <=> \E i \in DOMAIN lines : BlockAt(B, lines, i) /\ lines[i] = Host({o})
    BY SandboxesOf
  <2>3. DOMAIN lines \subseteq DOMAIN M /\ n + 2 \in DOMAIN M BY <1>0, <1>3
  <2>4. \A i \in DOMAIN lines : M[i] = lines[i] BY <1>0, <1>1
  <2>5. M[n + 2] = Host({o}) <=> o = s
    <3>1. Host({o}).names = {o} /\ Host({s}).names = {s} BY Kinds
    <3> QED BY <3>1, <1>1, <1>2
  <2>6. (\E i \in DOMAIN M : BlockAt(B, M, i) /\ M[i] = Host({o})) =>
          o = s \/ \E i \in DOMAIN lines : BlockAt(B, lines, i) /\ lines[i] = Host({o})
    BY <2>4, <2>5, <1>5, <1>6
  <2>7. (\E i \in DOMAIN lines : BlockAt(B, lines, i) /\ lines[i] = Host({o})) =>
          (\E i \in DOMAIN M : BlockAt(B, M, i) /\ M[i] = Host({o}))
    BY <2>3, <2>4, <1>5
  <2>8. o = s => (\E i \in DOMAIN M : BlockAt(B, M, i) /\ M[i] = Host({o}))
    BY <2>3, <2>5, <1>4
  <2> QED BY <2>1, <2>2, <2>6, <2>7, <2>8
<1> QED BY <1>7, <1>8 DEF M, new

(* Another ProxyCommand in the block of the same sandbox. *)
LEMMA ShapedReplaced ==
  ASSUME NEW B, Blocks(B), NEW lines, Shaped(B, lines),
         NEW s \in SandboxArgs, NEW p \in ProxyLine, Three(s, p) \in B,
         NEW i \in DOMAIN lines, BlockAt(B, lines, i), lines[i] = Host({s}),
         NEW M \in Seq(ManagedLine), Len(M) = Len(lines), M[i + 2] = p,
         \A j \in DOMAIN lines : j # i + 2 => M[j] = lines[j]
  PROVE  Shaped(B, M) /\ Sandboxes(M) = Sandboxes(lines) \cup {s}
<1>0. /\ Len(lines) \in Nat /\ DOMAIN lines = 1 .. Len(lines) /\ DOMAIN M = DOMAIN lines
      /\ i + 2 \in DOMAIN lines /\ i + 1 \in DOMAIN lines
  BY DEF Shaped, BlockAt
<1> DEFINE n == Len(lines)
<1> HIDE DEF n
<1>1. n \in Nat /\ DOMAIN lines = 1 .. n /\ DOMAIN M = 1 .. n /\ i \in Nat /\ i >= 1 BY <1>0 DEF n
<1>2. M[i + 2].kind = "proxy" /\ lines[i + 2].kind = "proxy" BY Kinds, BlockLines
<1>3. BlockAt(B, M, i)
  <2>1. i # i + 2 /\ i + 1 # i + 2 /\ i + 3 # i + 2 BY <1>1
  <2>2. M[i] = Host({s}) /\ M[i + 1] = Setting BY <1>0, <2>1, BlockLines
  <2>3. Three(s, p)[1] = Host({s}) /\ Three(s, p)[2] = Setting /\ Three(s, p)[3] = p BY Kinds
  <2>4. i + 3 \in DOMAIN M => M[i + 3] = Blank BY <1>0, <2>1 DEF BlockAt
  <2> QED BY <1>0, <2>2, <2>3, <2>4 DEF BlockAt
<1>4. ASSUME NEW k \in DOMAIN lines PROVE BlockAt(B, lines, k) <=> BlockAt(B, M, k)
  <2>1. CASE k = i BY <2>1, <1>3
  <2>2. CASE k # i
    <3>0. k \in Nat /\ k + 2 # i + 2 /\ Len(lines) <= Len(M) BY <2>2, <1>0, <1>1
    <3>1. ASSUME BlockAt(B, lines, k) PROVE BlockAt(B, M, k)
      <4>1. lines[k].kind = "host" /\ lines[k + 1].kind = "setting" BY <3>1, BlockLines
      <4>2. k # i + 2 /\ k + 1 # i + 2 BY <4>1, <1>2
      <4>3. k + 3 \in DOMAIN lines => lines[k + 3].kind = "blank"
        <5>1. k + 3 \in DOMAIN lines => lines[k + 3] = Blank BY <3>1 DEF BlockAt
        <5> QED BY <5>1, Kinds
      <4>4. k + 3 \in DOMAIN lines => k + 3 # i + 2 BY <4>3, <1>2
      <4>5. \A j \in k .. k + 3 : j = k \/ j = k + 1 \/ j = k + 2 \/ j = k + 3 BY <3>0
      <4>6. \A j \in k .. k + 3 : j \in DOMAIN lines => M[j] = lines[j]
        BY <4>2, <4>4, <4>5, <3>0
      <4>7. k + 3 \in DOMAIN M \ DOMAIN lines => M[k + 3] = Blank BY <1>0
      <4> QED BY <3>0, <3>1, <4>6, <4>7, BlocksAgree
    <3>2. ASSUME BlockAt(B, M, k) PROVE BlockAt(B, lines, k)
      <4>1. M[k].kind = "host" BY <3>2, BlockLines
      <4>2. k # i + 2 BY <4>1, <1>2
      <4>3. M[k] = lines[k] BY <4>2
      <4>4. IsBlockStart(M[k]) BY <4>1 DEF IsBlockStart
      <4> QED BY <3>0, <4>3, <4>4, BlocksAgree
    <3> QED BY <3>1, <3>2
  <2> QED BY <2>1, <2>2
<1>5. ASSUME NEW k \in DOMAIN lines, BlockAt(B, lines, k) PROVE M[k] = lines[k]
  <2>1. lines[k].kind = "host" BY <1>5, BlockLines
  <2>2. k # i + 2 BY <2>1, <1>2
  <2> QED BY <2>2
<1>6. Shaped(B, M)
  <2>1. ASSUME NEW k \in DOMAIN M
        PROVE  \/ BlockAt(B, M, k)
               \/ k > 1 /\ BlockAt(B, M, k - 1)
               \/ k > 2 /\ BlockAt(B, M, k - 2)
               \/ M[k] = Blank /\ BlockAt(B, M, k + 1)
    <3>1. \/ BlockAt(B, lines, k)
          \/ k > 1 /\ BlockAt(B, lines, k - 1)
          \/ k > 2 /\ BlockAt(B, lines, k - 2)
          \/ lines[k] = Blank /\ BlockAt(B, lines, k + 1)
      BY <1>0 DEF Shaped
    <3>2. k > 1 => k - 1 \in DOMAIN lines BY <1>1
    <3>3. k > 2 => k - 2 \in DOMAIN lines BY <1>1
    <3>4. BlockAt(B, lines, k + 1) => k + 1 \in DOMAIN lines BY DEF BlockAt
    <3>5. lines[k] = Blank => M[k] = lines[k]
      <4>1. lines[k] = Blank => lines[k].kind = "blank" BY Kinds
      <4>2. lines[k] = Blank => k # i + 2 BY <4>1, <1>2
      <4> QED BY <4>2, <1>0
    <3> QED BY <3>1, <3>2, <3>3, <3>4, <3>5, <1>0, <1>4
  <2>2. ASSUME NEW k \in DOMAIN M, NEW j \in DOMAIN M, BlockAt(B, M, k), BlockAt(B, M, j), M[k] = M[j]
        PROVE  k = j
    <3>1. k \in DOMAIN lines /\ j \in DOMAIN lines BY <1>0
    <3>2. BlockAt(B, lines, k) /\ BlockAt(B, lines, j) BY <3>1, <2>2, <1>4
    <3>3. lines[k] = lines[j] BY <3>1, <3>2, <2>2, <1>5
    <3> QED BY <3>1, <3>2, <3>3 DEF Shaped
  <2> QED BY <2>1, <2>2 DEF Shaped
<1>7. ASSUME NEW o PROVE o \in Sandboxes(M) <=> o \in Sandboxes(lines)
  <2>1. o \in Sandboxes(M) <=> \E k \in DOMAIN M : BlockAt(B, M, k) /\ M[k] = Host({o})
    BY <1>6, SandboxesOf
  <2>2. o \in Sandboxes(lines) <=> \E k \in DOMAIN lines : BlockAt(B, lines, k) /\ lines[k] = Host({o})
    BY SandboxesOf
  <2> QED BY <2>1, <2>2, <1>0, <1>4, <1>5
<1>8. s \in Sandboxes(lines) BY SandboxesOf
<1> QED BY <1>6, <1>7, <1>8

(* Three lines and a blank one after them. *)
LEMMA ThreeKept ==
  ASSUME NEW L, NEW u \in Seq(L), NEW n \in Nat, Len(u) = n, n = 3 \/ n = 4,
         u[3] # Blank, n = 4 => u[4] = Blank
  PROVE  Len(Trimmed(u)) = 3
<1>1. PICK m \in Nat : /\ m <= Len(u) /\ Trimmed(u) = SubSeq(u, 1, m)
                       /\ \A j \in 1 .. Len(u) : j > m => u[j] = Blank
                       /\ m # 0 => u[m] # Blank
  BY TrimmedIs
<1>2. m = 3
  <2>1. 3 <= m BY <1>1
  <2>2. m # 4 BY <1>1
  <2> QED BY <2>1, <2>2, <1>1
<1>3. Len(SubSeq(u, 1, 3)) = 3
  <2>1. \A j \in 1 .. 3 : u[j] \in L OBVIOUS
  <2> QED BY <2>1, SubSeqProperties
<1> QED BY <1>1, <1>2, <1>3

(* A block and the blank line after it. *)
LEMMA BlockTrimmed ==
  ASSUME NEW B, Blocks(B), NEW lines, Shaped(B, lines), NEW i \in Nat \ {0}, BlockAt(B, lines, i),
         NEW k \in Nat, k \in DOMAIN lines, k = i + 2 \/ k = i + 3
  PROVE  Len(Trimmed(SubSeq(lines, i, k))) = 3
<1> DEFINE u == SubSeq(lines, i, k)
           n == (k - i) + 1
<1>1. lines \in Seq(ManagedLine) /\ Len(lines) \in Nat /\ DOMAIN lines = 1 .. Len(lines) BY DEF Shaped
<1>2. k <= Len(lines) /\ i <= k + 1 BY <1>1
<1>3. u \in Seq(ManagedLine) /\ Len(u) = n /\ \A j \in 1 .. n : u[j] = lines[(i + j) - 1]
  BY <1>1, <1>2, Parts
<1>4. (n = 3 /\ k = i + 2) \/ (n = 4 /\ k = i + 3) OBVIOUS
<1>5. (i + 3) - 1 = i + 2 /\ (i + 4) - 1 = i + 3 OBVIOUS
<1> HIDE DEF u, n
<1>6. n \in Nat /\ (n = 3 \/ n = 4) BY <1>4
<1>7. u[3] # Blank
  <2>1. lines[i + 2].kind = "proxy" BY BlockLines
  <2>2. u[3] = lines[i + 2] BY <1>3, <1>5, <1>6
  <2> QED BY <2>1, <2>2, Kinds
<1>8. n = 4 => u[4] = Blank
  <2>1. n = 4 => k = i + 3 BY <1>4
  <2>2. n = 4 => u[4] = lines[i + 3] BY <1>3, <1>5, <1>6
  <2>3. i + 3 \in DOMAIN lines => lines[i + 3] = Blank BY DEF BlockAt
  <2> QED BY <2>1, <2>2, <2>3
<1>9. Len(Trimmed(u)) = 3 BY <1>3, <1>6, <1>7, <1>8, ThreeKept
<1> QED BY <1>9 DEF u
(* A file that is another one with three other lines from a place on. *)
ThreeIn(L, lines, new, i, M) ==
  /\ M \in Seq(L) /\ Len(M) = Len(lines)
  /\ M[i] = new[1] /\ M[i + 1] = new[2] /\ M[i + 2] = new[3]
  /\ \A j \in 1 .. Len(lines) : j \notin {i, i + 1, i + 2} => M[j] = lines[j]

(* A sequence that is one after another, place by place. *)
Follows(L, u, v, w) ==
  /\ w \in Seq(L) /\ Len(w) = Len(u) + Len(v)
  /\ \A j \in 1 .. Len(u) + Len(v) : w[j] = IF j <= Len(u) THEN u[j] ELSE v[j - Len(u)]

(* ... as their concatenation is. *)
LEMMA FollowsIs == \A L : \A u, v \in Seq(L) : Follows(L, u, v, u \o v)
<1> SUFFICES ASSUME NEW L, NEW u \in Seq(L), NEW v \in Seq(L) PROVE Follows(L, u, v, u \o v)
  OBVIOUS
<1> QED BY ConcatProperties DEF Follows

(* Three lines in the place of three others. *)
LEMMA ThreeReplaced ==
  ASSUME NEW L, NEW lines \in Seq(L), NEW new \in Seq(L), Len(new) = 3,
         NEW i \in Nat \ {0}, i + 2 <= Len(lines),
         NEW M, M = SubSeq(lines, 1, i - 1) \o new \o SubSeq(lines, i + 3, Len(lines))
  PROVE  ThreeIn(L, lines, new, i, M)
<1> DEFINE n == Len(lines)
           k == i - 1
           u == SubSeq(lines, 1, k)
           v == SubSeq(lines, i + 3, n)
           x == u \o new
           w == x \o v
<1>0. n \in Nat /\ k \in Nat /\ k + 1 = i /\ k + 3 <= n OBVIOUS
<1>1. u \in Seq(L) /\ Len(u) = k /\ \A j \in 1 .. k : u[j] = lines[j]
  <2>1. \A j \in 1 .. k : lines[j] \in L BY <1>0
  <2> QED BY <1>0, <2>1, SubSeqProperties
<1>2. v \in Seq(L) /\ Len(v) = n - (k + 3) /\ \A j \in 1 .. n - (k + 3) : v[j] = lines[(k + 3) + j]
  <2> DEFINE m == i + 3
  <2>1. m \in Nat \ {0} /\ n \in Nat /\ n <= Len(lines) /\ m <= n + 1 BY <1>0
  <2>2. (n - m) + 1 = n - (k + 3) /\ \A j \in 1 .. n - (k + 3) : (m + j) - 1 = (k + 3) + j BY <1>0
  <2>3. v = SubSeq(lines, m, n) OBVIOUS
  <2> HIDE DEF m, n, k, v
  <2>4. /\ SubSeq(lines, m, n) \in Seq(L) /\ Len(SubSeq(lines, m, n)) = (n - m) + 1
        /\ \A j \in 1 .. ((n - m) + 1) : SubSeq(lines, m, n)[j] = lines[(m + j) - 1]
    BY <2>1, Parts
  <2> QED BY <2>2, <2>3, <2>4, Zenon
<1> HIDE DEF u, v
<1>3. /\ x \in Seq(L) /\ Len(x) = Len(u) + 3
      /\ \A j \in 1 .. Len(u) + 3 : x[j] = IF j <= Len(u) THEN u[j] ELSE new[j - Len(u)]
  <2>1. u \in Seq(L) /\ new \in Seq(L) BY <1>1
  <2>2. Follows(L, u, new, x) BY <2>1, FollowsIs, Zenon
  <2>3. Len(new) = 3 OBVIOUS
  <2> QED BY <2>2, <2>3, Zenon DEF Follows
<1> HIDE DEF x
<1>4. Follows(L, x, v, w) BY <1>2, <1>3, FollowsIs, Zenon
<1> HIDE DEF w, n, k
<1>5. Len(x) = k + 3 /\ Len(w) = n BY <1>0, <1>1, <1>2, <1>3, <1>4 DEF Follows
<1>6. /\ \A j \in 1 .. k + 3 : x[j] = IF j <= k THEN u[j] ELSE new[j - k]
      /\ \A j \in 1 .. n : w[j] = IF j <= k + 3 THEN x[j] ELSE v[j - (k + 3)]
  BY <1>1, <1>3, <1>4, <1>5 DEF Follows
<1>7. \A j \in 1 .. k : w[j] = lines[j] BY <1>0, <1>1, <1>6
<1>8. w[k + 1] = new[1] /\ w[k + 2] = new[2] /\ w[k + 3] = new[3] BY <1>0, <1>6
<1>9. \A j \in 1 .. n : j > k + 3 => w[j] = lines[j]
  <2> SUFFICES ASSUME NEW j \in 1 .. n, j > k + 3 PROVE w[j] = lines[j]
    OBVIOUS
  <2>1. j - (k + 3) \in 1 .. n - (k + 3) /\ (k + 3) + (j - (k + 3)) = j BY <1>0
  <2>2. w[j] = v[j - (k + 3)] BY <1>0, <1>6
  <2> QED BY <2>1, <2>2, <1>2
<1>10. i = k + 1 /\ i + 1 = k + 2 /\ i + 2 = k + 3 BY <1>0
<1>11. \A j \in 1 .. n : j \notin {i, i + 1, i + 2} => j \in 1 .. k \/ j > k + 3 BY <1>0, <1>10
<1>12. w \in Seq(L) BY <1>4 DEF Follows
<1>13. w = M BY DEF w, x, u, v, n, k
<1> QED BY <1>5, <1>7, <1>8, <1>9, <1>10, <1>11, <1>12, <1>13 DEF n, ThreeIn

(* An installer's write: the block of its sandbox is there, and the others  *)
(* are as they were.                                                        *)
LEMMA UpsertShaped ==
  ASSUME NEW B, Blocks(B), NEW lines, Shaped(B, lines),
         NEW s \in SandboxArgs, NEW p \in ProxyLine, Three(s, p) \in B
  PROVE  /\ Shaped(B, UpsertHostBlock(lines, s, Three(s, p)))
         /\ Sandboxes(UpsertHostBlock(lines, s, Three(s, p))) = Sandboxes(lines) \cup {s}
<1> DEFINE new == Three(s, p)
           n == Len(lines)
           S == {i \in DOMAIN lines : IsHostLineFor(lines[i], s)}
           start == Least(S, 0)
           N == {i \in DOMAIN lines : i > start /\ IsBlockStart(lines[i])}
           next == Least(N, Len(lines) + 1)
           old == Trimmed(SubSeq(lines, start, next - 1))
           M == SubSeq(lines, 1, start - 1) \o new \o SubSeq(lines, start + Len(old), Len(lines))
<1>1. /\ lines \in Seq(ManagedLine) /\ n \in Nat /\ DOMAIN lines = 1 .. n /\ Trimmed(lines) = lines
  BY ShapedTrimmed DEF Shaped
<1>2. new \in Seq(ManagedLine) /\ Len(new) = 3 /\ new[1] = Host({s}) /\ new[2] = Setting /\ new[3] = p
  BY ThreeLines, Kinds
<1>3. UpsertHostBlock(lines, s, new) =
        IF start = 0 THEN IF lines = <<>> THEN new ELSE lines \o <<Blank>> \o new ELSE Trimmed(M)
  BY <1>1, Zenon DEF UpsertHostBlock
<1>4. IF S = {} THEN start = 0 ELSE start \in S /\ \A j \in S : start <= j
  <2>1. S \subseteq Nat BY <1>1
  <2> HIDE DEF S
  <2> QED BY <2>1, LeastIs, Zenon
<1>5. IF N = {} THEN next = Len(lines) + 1 ELSE next \in N /\ \A j \in N : next <= j
  <2>1. N \subseteq Nat BY <1>1
  <2> HIDE DEF N
  <2> QED BY <2>1, LeastIs, Zenon
<1>6. S = {} <=> start = 0 BY <1>1, <1>4
<1>7. CASE start = 0
  <2>1. \A i \in DOMAIN lines : ~IsHostLineFor(lines[i], s) BY <1>6, <1>7
  <2>2. CASE lines = <<>>
    <3>1. UpsertHostBlock(lines, s, new) = new BY <1>3, <1>7, <2>2
    <3>2. Sandboxes(lines) = {} BY <2>2 DEF Sandboxes
    <3> QED BY <3>1, <3>2, ShapedNew
  <2>3. CASE lines # <<>>
    <3>1. UpsertHostBlock(lines, s, new) = lines \o <<Blank>> \o new BY <1>3, <1>7, <2>3
    <3> QED BY <3>1, <2>1, ShapedAppended
  <2> QED BY <2>2, <2>3
<1>8. CASE start # 0
  <2>1. start \in DOMAIN lines /\ IsHostLineFor(lines[start], s) BY <1>4, <1>6, <1>8
  <2> DEFINE i == start
  <2> HIDE DEF S, start
  <2>2. i \in Nat \ {0} /\ i <= n BY <1>1, <2>1
  <2>3. BlockAt(B, lines, i) /\ lines[i] = Host({s})
    <3>1. BlockAt(B, lines, i) BY <2>1, HostAt DEF IsHostLineFor
    <3>2. ForSandbox(lines[i]) BY <3>1, BlockLines
    <3>3. PICK o \in SandboxArgs : lines[i] = Host({o}) BY <3>2, Zenon DEF ForSandbox
    <3>4. Host({o}).names = {o} BY Kinds
    <3>5. o = s BY <2>1, <3>3, <3>4 DEF IsHostLineFor
    <3> QED BY <3>1, <3>3, <3>5
  <2>4. i + 1 \in 1 .. n /\ i + 2 \in 1 .. n BY <2>3, <1>1 DEF BlockAt
  <2>5. /\ ~IsBlockStart(lines[i + 1]) /\ ~IsBlockStart(lines[i + 2])
        /\ i + 3 \in 1 .. n => /\ lines[i + 3] = Blank /\ ~IsBlockStart(lines[i + 3])
                               /\ i + 4 \in 1 .. n /\ IsBlockStart(lines[i + 4])
    <3>1. lines[i + 1].kind = "setting" /\ lines[i + 2].kind = "proxy" BY <2>3, BlockLines
    <3>2. ASSUME i + 3 \in 1 .. n
          PROVE  /\ lines[i + 3] = Blank /\ ~IsBlockStart(lines[i + 3])
                 /\ i + 4 \in 1 .. n /\ IsBlockStart(lines[i + 4])
      <4>1. lines[i + 3] = Blank BY <3>2, <2>3, <1>1 DEF BlockAt
      <4>2. lines[i + 3].kind = "blank" BY <4>1, Kinds
      <4>3. BlockAt(B, lines, (i + 3) + 1) BY <3>2, <4>1, <1>1, HostAt
      <4>4. (i + 3) + 1 = i + 4 BY <2>2
      <4>5. lines[i + 4].kind = "host" BY <4>3, <4>4, BlockLines
      <4>6. i + 4 \in 1 .. n BY <4>3, <4>4, <1>1 DEF BlockAt
      <4> QED BY <4>1, <4>2, <4>5, <4>6 DEF IsBlockStart
    <3> QED BY <3>1, <3>2 DEF IsBlockStart
  <2>6. next = i + 3 \/ next = i + 4
    <3>1. CASE i + 3 \in 1 .. n
      <4>1. i + 4 \in N BY <3>1, <2>2, <2>5, <1>1
      <4>2. next \in N /\ next <= i + 4 BY <4>1, <1>5
      <4> HIDE DEF next
      <4>3. next \in 1 .. n /\ next > i /\ IsBlockStart(lines[next]) BY <4>2, <1>1
      <4>4. next # i + 1 /\ next # i + 2 /\ next # i + 3 BY <4>3, <3>1, <2>5
      <4> QED BY <4>2, <4>3, <4>4, <2>2, <1>1
    <3>2. CASE i + 3 \notin 1 .. n
      <4>1. n = i + 2
        <5>1. \A a, b \in Nat : a + 2 \in 1 .. b /\ a + 3 \notin 1 .. b => b = a + 2 OBVIOUS
        <5> HIDE DEF n
        <5> QED BY <5>1, <3>2, <2>2, <2>4, <1>1, Zenon
      <4>2. N = {}
        <5>1. \A j \in 1 .. n : j > i => j = i + 1 \/ j = i + 2 BY <4>1, <2>2, <1>1
        <5> QED BY <5>1, <2>5, <1>1
      <4> QED BY <4>1, <4>2, <1>5, <2>2
    <3> QED BY <3>1, <3>2
  <2>7. next - 1 \in 1 .. n
    <3>1. CASE N = {} BY <3>1, <1>1, <1>5, <2>4, <2>6, <2>2
    <3>2. CASE N # {}
      <4>1. next \in N BY <3>2, <1>5
      <4> HIDE DEF next
      <4>2. next \in 1 .. n /\ next > i BY <4>1, <1>1
      <4> QED BY <4>2, <2>2, <1>1
    <3> QED BY <3>1, <3>2
  <2> HIDE DEF next, N
  <2>8. Len(old) = 3
    <3> DEFINE k == next - 1
    <3>1. k = i + 2 \/ k = i + 3 BY <2>2, <2>6
    <3>2. k \in Nat /\ k \in DOMAIN lines BY <1>1, <2>7
    <3> HIDE DEF k
    <3>3. Len(Trimmed(SubSeq(lines, i, k))) = 3 BY <2>2, <2>3, <3>1, <3>2, BlockTrimmed
    <3> QED BY <3>3 DEF k
  <2> HIDE DEF old
  <2>9. /\ M \in Seq(ManagedLine) /\ Len(M) = n /\ M[i + 2] = p
        /\ \A j \in DOMAIN lines : j # i + 2 => M[j] = lines[j]
    <3>1. /\ M \in Seq(ManagedLine) /\ Len(M) = Len(lines)
          /\ M[i] = new[1] /\ M[i + 1] = new[2] /\ M[i + 2] = new[3]
          /\ \A j \in 1 .. Len(lines) : j \notin {i, i + 1, i + 2} => M[j] = lines[j]
      <4>1. i + 2 <= Len(lines) /\ i \in Nat \ {0} BY <2>2, <2>4, <1>1
      <4>2. M = SubSeq(lines, 1, i - 1) \o new \o SubSeq(lines, i + 3, Len(lines)) BY <2>8
      <4> HIDE DEF new, M, i, n
      <4>3. lines \in Seq(ManagedLine) /\ new \in Seq(ManagedLine) /\ Len(new) = 3 BY <1>1, <1>2
      <4>4. ThreeIn(ManagedLine, lines, new, i, M) BY <4>1, <4>2, <4>3, ThreeReplaced
      <4> QED BY <4>4, Zenon DEF ThreeIn
    <3> HIDE DEF new, M
    <3>3. lines[i + 1] = Setting BY <2>3, BlockLines
    <3> QED BY <3>1, <3>3, <1>1, <1>2, <2>3
  <2> HIDE DEF M
  <2>10. Shaped(B, M) /\ Sandboxes(M) = Sandboxes(lines) \cup {s}
    BY <2>1, <2>3, <2>9, ShapedReplaced
  <2>11. Trimmed(M) = M BY <2>10, ShapedTrimmed
  <2> QED BY <1>3, <1>8, <2>10, <2>11
<1> QED BY <1>7, <1>8

----------------------------------------------------------------------------
(* The Include in the user's file *)

IncludedIn(lines) == \E i \in DOMAIN lines : lines[i] = Include /\ i < FirstBlock(lines)

(* What is in a user's file. *)
UserTyped(lines) == lines \in Seq(OwnLine)

(* The Include starts no block, nor does a blank line. *)
LEMMA UserLines ==
  /\ Blank \in OwnLine /\ Include \in OwnLine
  /\ ~IsBlockStart(Include) /\ ~IsBlockStart(Blank)
<1>1. Include.kind = "include" /\ Blank.kind = "blank" BY Kinds
<1> QED BY <1>1 DEF OwnLine, IsBlockStart

(* No block starts before the first one. *)
LEMMA FirstBlockIs ==
  ASSUME NEW L, NEW lines \in Seq(L)
  PROVE  /\ FirstBlock(lines) \in 1 .. (Len(lines) + 1)
         /\ \A j \in 1 .. Len(lines) : IsBlockStart(lines[j]) => FirstBlock(lines) <= j
         /\ FirstBlock(lines) <= Len(lines) => IsBlockStart(lines[FirstBlock(lines)])
<1> DEFINE S == {i \in DOMAIN lines : IsBlockStart(lines[i])}
           n == Len(lines)
           f == Least(S, n + 1)
<1>1. n \in Nat /\ DOMAIN lines = 1 .. n OBVIOUS
<1>2. f = FirstBlock(lines) BY DEF FirstBlock
<1>3. \A j \in 1 .. n : j \in S <=> IsBlockStart(lines[j]) BY <1>1
<1>4. S \subseteq 1 .. n BY <1>1
<1> HIDE DEF S
<1>5. IF S = {} THEN f = n + 1 ELSE f \in S /\ \A j \in S : f <= j
  <2>1. S \subseteq Nat BY <1>4
  <2> QED BY <2>1, LeastIs, Zenon
<1> HIDE DEF f, n
<1>6. CASE S = {} BY <1>1, <1>2, <1>3, <1>5, <1>6 DEF n
<1>7. CASE S # {}
  <2>1. f \in 1 .. n /\ IsBlockStart(lines[f]) /\ \A j \in S : f <= j BY <1>3, <1>4, <1>5, <1>7
  <2> QED BY <2>1, <1>1, <1>2, <1>3 DEF n
<1> QED BY <1>6, <1>7

(* It is found where no block starts before it. *)
LEMMA IncludedIs ==
  ASSUME NEW L, NEW lines \in Seq(L)
  PROVE  IncludedIn(lines) <=> \E i \in 1 .. Len(lines) :
                                 lines[i] = Include /\ \A j \in 1 .. i : ~IsBlockStart(lines[j])
<1> DEFINE f == FirstBlock(lines)
           n == Len(lines)
<1>1. n \in Nat /\ DOMAIN lines = 1 .. n OBVIOUS
<1>2. /\ f \in 1 .. (n + 1)
      /\ \A j \in 1 .. n : IsBlockStart(lines[j]) => f <= j
      /\ f <= n => IsBlockStart(lines[f])
  BY FirstBlockIs
<1> HIDE DEF f, n
<1>3. \A i \in 1 .. n : i < f <=> \A j \in 1 .. i : ~IsBlockStart(lines[j])
  BY <1>1, <1>2
<1> QED BY <1>1, <1>3 DEF IncludedIn, f, n

(* It stays found when lines are added. *)
LEMMA IncludedOn ==
  ASSUME NEW L, NEW u \in Seq(L), NEW v \in Seq(L), IncludedIn(u)
  PROVE  IncludedIn(u \o v)
<1> DEFINE w == u \o v
<1>1. w \in Seq(L) /\ Len(w) = Len(u) + Len(v) /\ Len(u) \in Nat /\ Len(v) \in Nat
      /\ \A i \in 1 .. Len(u) : w[i] = u[i]
  BY Concats
<1> HIDE DEF w
<1>2. PICK i \in 1 .. Len(u) : u[i] = Include /\ \A j \in 1 .. i : ~IsBlockStart(u[j])
  BY IncludedIs
<1>3. i \in 1 .. Len(w) /\ w[i] = Include BY <1>1, <1>2
<1>4. \A j \in 1 .. i : ~IsBlockStart(w[j])
  <2>1. \A j \in 1 .. i : j \in 1 .. Len(u) BY <1>1
  <2> QED BY <2>1, <1>1, <1>2
<1>5. IncludedIn(w) BY <1>1, <1>3, <1>4, IncludedIs
<1> QED BY <1>5 DEF w

(* It is found after lines that start no block. *)
LEMMA IncludedAfter ==
  ASSUME NEW L, NEW u \in Seq(L), NEW v \in Seq(L), \A j \in 1 .. Len(u) : ~IsBlockStart(u[j]),
         Len(v) # 0, v[1] = Include
  PROVE  IncludedIn(u \o v)
<1> DEFINE w == u \o v
           i == Len(u) + 1
<1>1. /\ w \in Seq(L) /\ Len(w) = Len(u) + Len(v) /\ Len(u) \in Nat /\ Len(v) \in Nat
      /\ \A j \in 1 .. Len(u) : w[j] = u[j]
      /\ \A j \in 1 .. Len(v) : w[Len(u) + j] = v[j]
  BY Concats
<1> HIDE DEF w
<1>2. i \in 1 .. Len(w) /\ w[i] = Include
  <2>1. 1 \in 1 .. Len(v) BY <1>1
  <2>2. w[Len(u) + 1] = v[1] BY <1>1, <2>1
  <2> QED BY <2>1, <2>2, <1>1
<1>3. \A j \in 1 .. i : j \in 1 .. Len(u) \/ j = i BY <1>1
<1>4. \A j \in 1 .. i : ~IsBlockStart(w[j]) BY <1>1, <1>2, <1>3, UserLines
<1> HIDE DEF i
<1>5. IncludedIn(w) BY <1>1, <1>2, <1>4, IncludedIs
<1> QED BY <1>5 DEF w

(* What an installer writes to the user's file has the Include where it is   *)
(* found, unless the file had it already.                                    *)
LEMMA UserEnsured ==
  ASSUME NEW lines, UserTyped(lines)
  PROVE  /\ UserTyped(EnsureInclude(lines)) /\ OwnLines(EnsureInclude(lines)) = OwnLines(lines)
         /\ Include \notin ToSet(lines) => IncludedIn(EnsureInclude(lines))
<1> DEFINE L == OwnLine
           M == EnsureInclude(lines)
           n == Len(lines)
           first == FirstBlock(lines)
<1>1. lines \in Seq(L) /\ n \in Nat BY DEF UserTyped
<1>2. M \in Seq(L) /\ OwnLines(M) = OwnLines(lines) BY <1>1, UserLines, OwnLinesEnsured
<1>3. ASSUME Include \notin ToSet(lines) PROVE IncludedIn(M)
  <2>0. /\ first \in 1 .. (n + 1)
        /\ \A j \in 1 .. n : IsBlockStart(lines[j]) => first <= j
    BY <1>1, FirstBlockIs
  <2>2. CASE first > n
    <3>1. M = Trimmed(lines) \o <<Include>> BY <1>3, <2>2 DEF EnsureInclude
    <3>2. PICK k \in Nat : k <= Len(lines) /\ Trimmed(lines) = SubSeq(lines, 1, k)
      BY <1>1, TrimmedIs
    <3> DEFINE u == SubSeq(lines, 1, k)
               v == <<Include>>
    <3>3. u \in Seq(L) /\ Len(u) = k /\ \A j \in 1 .. k : u[j] = lines[j]
      <4>1. \A j \in 1 .. k : lines[j] \in L BY <1>1, <3>2
      <4> QED BY <4>1, <1>1, <3>2, SubSeqProperties
    <3>4. v \in Seq(L) /\ Len(v) # 0 /\ v[1] = Include BY UserLines
    <3> HIDE DEF u, v, first, L
    <3>5. \A j \in 1 .. Len(u) : ~IsBlockStart(u[j]) BY <1>1, <2>0, <2>2, <3>2, <3>3
    <3>6. IncludedIn(u \o v) BY <3>3, <3>4, <3>5, IncludedAfter
    <3> QED BY <3>1, <3>2, <3>6 DEF u, v
  <2>3. CASE ~(first > n)
    <3> DEFINE k == first - 1
               u == SubSeq(lines, 1, k)
               v == SubSeq(lines, first, n)
               w == <<Include, Blank>>
    <3>1. M = u \o w \o v BY <1>3, <2>3 DEF EnsureInclude
    <3>2. k \in Nat /\ k <= n /\ k + 1 = first /\ \A j \in 1 .. k : ~IsBlockStart(lines[j])
      BY <1>1, <2>0, <2>3
    <3>3. u \in Seq(L) /\ v \in Seq(L) BY <1>1, <3>2, SplitAt
    <3>4. Len(u) = k /\ \A j \in 1 .. k : u[j] = lines[j]
      <4>1. \A j \in 1 .. k : lines[j] \in L BY <1>1, <3>2
      <4> QED BY <4>1, <1>1, <3>2, SubSeqProperties
    <3>5. w \in Seq(L) /\ Len(w) # 0 /\ w[1] = Include BY UserLines
    <3> HIDE DEF u, v, w, k, first, L
    <3>6. \A j \in 1 .. Len(u) : ~IsBlockStart(u[j]) BY <3>2, <3>4
    <3>7. IncludedIn(u \o w) BY <3>3, <3>5, <3>6, IncludedAfter
    <3>8. u \o w \in Seq(L) BY <3>3, <3>5, ConcatProperties
    <3>9. IncludedIn((u \o w) \o v) BY <3>3, <3>7, <3>8, IncludedOn
    <3> QED BY <3>1, <3>9
  <2> QED BY <2>2, <2>3
<1> QED BY <1>2, <1>3 DEF UserTyped

(* An installer that leaves the file has found the Include in it. *)
LEMMA EnsuredAlready ==
  ASSUME NEW lines, UserTyped(lines), EnsureInclude(lines) = lines
  PROVE  Include \in ToSet(lines)
<1> SUFFICES ASSUME Include \notin ToSet(lines) PROVE FALSE
  OBVIOUS
<1>1. \E i \in DOMAIN lines : lines[i] = Include BY UserEnsured DEF IncludedIn
<1> QED BY <1>1 DEF ToSet

----------------------------------------------------------------------------
(* The files *)

RenderedBlocks == {block[u] : u \in Terminals} \ {<<>>}

(* The Include is where it is found, or was where its user put it. *)
UserHas == IncludedIn(user) \/ (byUser /\ Include \in ToSet(user))

(* Where the Include is in the user's file at all, it is so. *)
UserFound == Include \in ToSet(user) => UserHas

(* What a terminal counts on in the files, and has done. *)
FilesFor(t) ==
  /\ pc[t] = "include" => UserTyped(seen[t]) /\ Include \notin ToSet(seen[t])
  /\ pc[t] = "upsert" => Shaped(RenderedBlocks, seen[t])
  /\ pc[t] = "done" /\ job[t].install => UserHas \/ t \in outdated
  /\ pc[t] \in {"user", "include", "done"} /\ job[t].install /\ job[t].sandbox \notin raced =>
       job[t].sandbox \in Sandboxes(managed)

(* Both files are as installers leave them, whatever they were when they    *)
(* were read.                                                               *)
FilesInv ==
  /\ UserTyped(user) /\ Shaped(RenderedBlocks, managed)
  /\ UserFound
  /\ \A t \in Terminals : FilesFor(t)

(* Every block was rendered for a sandbox. *)
LEMMA RenderedAreBlocks ==
  ASSUME CommandInv
  PROVE  /\ Blocks(RenderedBlocks)
         /\ \A t \in Terminals : block[t] # <<>> =>
              \E p \in ProxyLine : block[t] = Three(job[t].sandbox, p) /\ job[t].sandbox \in SandboxArgs
<1>1. ASSUME NEW t \in Terminals, block[t] # <<>>
      PROVE  \E p \in ProxyLine : block[t] = Three(job[t].sandbox, p) /\ job[t].sandbox \in SandboxArgs
  <2>1. TerminalInv(t) BY DEF CommandInv
  <2>2. JobTyped(job[t]) BY <1>1, <2>1 DEF TerminalInv
  <2>3. Rendered(t) BY <1>1, <2>1 DEF TerminalInv
  <2>4. PICK g \in GatewayArgs, u \in Urls : block[t] = BlockOf(job[t].sandbox, g, u)
    BY <2>3 DEF Rendered
  <2> DEFINE p == ProxyCommand(SSHProxyFor(g, job[t].sandbox), u)
  <2>5. job[t].sandbox \in SandboxArgs BY <2>2 DEF JobTyped
  <2>6. p \in ProxyLine BY <2>5 DEF ProxyLine
  <2>7. block[t] = Three(job[t].sandbox, p) BY <2>4 DEF BlockOf, Three
  <2> QED BY <2>5, <2>6, <2>7
<1>2. Blocks(RenderedBlocks)
  <2> SUFFICES ASSUME NEW b \in RenderedBlocks
               PROVE  \E s \in SandboxArgs, p \in ProxyLine : b = Three(s, p)
    BY DEF Blocks
  <2>1. PICK t \in Terminals : b = block[t] /\ block[t] # <<>> BY DEF RenderedBlocks
  <2> QED BY <2>1, <1>1
<1> QED BY <1>1, <1>2

(* Every rendered block is one. *)
RenderedOnly == Blocks(RenderedBlocks)

(* ... and will be after a step. *)
LEMMA RenderedNext == CommandInv' => RenderedOnly'
<1>1. CommandInv => RenderedOnly BY RenderedAreBlocks DEF RenderedOnly
<1> QED BY <1>1, PTL

(* A file has its shape with more blocks as well. *)
LEMMA ShapedMore ==
  ASSUME NEW B, NEW C, B \subseteq C, Blocks(C), NEW lines, Shaped(B, lines)
  PROVE  Shaped(C, lines)
<1>1. Blocks(B) BY DEF Blocks
<1>2. \A i : BlockAt(B, lines, i) => BlockAt(C, lines, i) BY DEF BlockAt
<1>3. ASSUME NEW i \in DOMAIN lines, BlockAt(C, lines, i) PROVE BlockAt(B, lines, i)
  <2>1. lines[i].kind = "host" BY <1>3, BlockLines
  <2> QED BY <2>1, <1>1, HostAt
<1> QED BY <1>2, <1>3 DEF Shaped

(* Blocks are only added. *)
LEMMA RenderedGrow ==
  ASSUME CommandInv, \A t \in Terminals : block[t] # <<>> => block'[t] = block[t]
  PROVE  RenderedBlocks \subseteq RenderedBlocks'
  BY DEF RenderedBlocks

(* The host lines of a file without any. *)
LEMMA NoHosts == Sandboxes(<<>>) = {} /\ \A B : Shaped(B, <<>>)
<1>1. DOMAIN <<>> = {} /\ <<>> \in Seq(ManagedLine) OBVIOUS
<1> QED BY <1>1 DEF Sandboxes, Shaped

(* It is so at first. *)
LEMMA FilesInvInit == SshInit => FilesInv
<1> SUFFICES ASSUME SshInit PROVE FilesInv
  OBVIOUS
<1>1. managed = <<>> /\ user \in UserFiles /\ byUser /\ pc = [t \in Terminals |-> "idle"] BY DEF SshInit
<1>2. UserTyped(user) /\ UserFound BY <1>1, SshAssumption DEF UserTyped, UserFound, UserHas
<1>3. Shaped(RenderedBlocks, managed) BY <1>1, NoHosts
<1>4. \A t \in Terminals : pc[t] = "idle" BY <1>1
<1>5. \A t \in Terminals : FilesFor(t) BY <1>4 DEF FilesFor
<1> QED BY <1>2, <1>3, <1>5 DEF FilesInv

(* What has no part in it keeps it so. *)
LEMMA FilesInvQuiet == FilesInv /\ UNCHANGED <<managed, user, command, histories>> => FilesInv'
<1> SUFFICES ASSUME FilesInv, UNCHANGED <<managed, user, command, histories>> PROVE FilesInv'
  OBVIOUS
<1>1. UNCHANGED <<pc, job, block, seen, raced, byUser, outdated>> BY DEF command, histories
<1>2. RenderedBlocks' = RenderedBlocks BY <1>1 DEF RenderedBlocks
<1>3. (UserHas => UserHas') /\ (UserFound => UserFound') BY <1>1 DEF UserFound, UserHas
<1>4. \A t \in Terminals : FilesFor(t) => FilesFor(t)' BY <1>1, <1>2, <1>3 DEF FilesFor
<1> QED BY <1>2, <1>3, <1>4 DEF FilesInv

(* The user writes their file. *)
LEMMA FilesInvEdit ==
  ASSUME FilesInv, NEW lines \in UserFiles, EditUser(lines)
  PROVE  FilesInv'
<1>1. user' = lines /\ byUser' /\ UNCHANGED <<managed, command, raced>> BY DEF EditUser, Change
<1>2. UNCHANGED <<pc, job, block, seen>> BY <1>1 DEF command
<1>3. \A t \in Terminals : pc[t] = "done" /\ job[t].install => t \in outdated' BY DEF EditUser
<1>4. UserTyped(user') /\ UserFound' BY <1>1, SshAssumption DEF UserTyped, UserFound, UserHas
<1>5. RenderedBlocks' = RenderedBlocks BY <1>2 DEF RenderedBlocks
<1>6. \A t \in Terminals : FilesFor(t) => FilesFor(t)' BY <1>1, <1>2, <1>3, <1>5 DEF FilesFor
<1> QED BY <1>1, <1>4, <1>5, <1>6 DEF FilesInv

(* One terminal goes on, and keeps what the others count on. *)
LEMMA FilesInvGoes ==
  ASSUME CommandInv, CommandInv', FilesInv, NEW t \in Terminals, NEW p, Goto(t, p),
         NEW l, seen' = [seen EXCEPT ![t] = l], NEW j, job' = [job EXCEPT ![t] = j],
         NEW b, block' = [block EXCEPT ![t] = b], block[t] # <<>> => b = block[t],
         UserTyped(user'), UserFound', UserHas => UserHas', outdated' = outdated,
         Shaped(RenderedBlocks, managed) => Shaped(RenderedBlocks', managed'),
         \A s : s \notin raced' /\ (s \notin raced => s \in Sandboxes(managed)) => s \in Sandboxes(managed'),
         FilesFor(t)'
  PROVE  FilesInv'
<1>1. OfTerminals(seen) /\ OfTerminals(job) /\ OfTerminals(block) /\ pc \in [Terminals -> Places]
  BY DEF CommandInv
<1>2. ASSUME NEW o \in Terminals, o # t
      PROVE  pc'[o] = pc[o] /\ job'[o] = job[o] /\ seen'[o] = seen[o] /\ block'[o] = block[o]
  BY <1>1, <1>2 DEF OfTerminals, Goto
<1>3. block'[t] = b BY <1>1 DEF OfTerminals
<1>4. \A o \in Terminals : block[o] # <<>> => block'[o] = block[o] BY <1>2, <1>3
<1>5. RenderedBlocks \subseteq RenderedBlocks' BY <1>4, RenderedGrow
<1>6. Blocks(RenderedBlocks') BY RenderedNext DEF RenderedOnly
<1>7. \A lines : Shaped(RenderedBlocks, lines) => Shaped(RenderedBlocks', lines)
  BY <1>5, <1>6, ShapedMore
<1>8. ASSUME NEW o \in Terminals, o # t PROVE FilesFor(o)'
  <2>1. FilesFor(o) BY DEF FilesInv
  <2>2. pc'[o] = pc[o] /\ job'[o] = job[o] /\ seen'[o] = seen[o] BY <1>2, <1>8
  <2> QED BY <2>1, <2>2, <1>7 DEF FilesFor
<1>9. Shaped(RenderedBlocks', managed') BY DEF FilesInv
<1> QED BY <1>8, <1>9 DEF FilesInv

(* ... with both files as they are. *)
LEMMA FilesInvLeaves ==
  ASSUME CommandInv, CommandInv', FilesInv, UNCHANGED <<managed, user, histories>>,
         NEW t \in Terminals, NEW p, Goto(t, p),
         NEW l, seen' = [seen EXCEPT ![t] = l], NEW j, job' = [job EXCEPT ![t] = j],
         NEW b, block' = [block EXCEPT ![t] = b], block[t] # <<>> => b = block[t],
         FilesFor(t)'
  PROVE  FilesInv'
<1>1. \A o \in Terminals : block[o] # <<>> => block'[o] = block[o]
  BY DEF CommandInv, OfTerminals
<1>2. RenderedBlocks \subseteq RenderedBlocks' BY <1>1, RenderedGrow
<1>3. Blocks(RenderedBlocks') BY RenderedNext DEF RenderedOnly
<1>4. Shaped(RenderedBlocks, managed) => Shaped(RenderedBlocks', managed')
  BY <1>2, <1>3, ShapedMore
<1>5. UserTyped(user') BY DEF FilesInv
<1>6. UNCHANGED <<managed, user, histories>> OBVIOUS
<1>7. raced' = raced /\ byUser' = byUser /\ outdated' = outdated BY <1>6 DEF histories
<1>8. (UserHas => UserHas') /\ UserFound' BY <1>6, <1>7 DEF FilesInv, UserFound, UserHas
<1>9. \A s : s \notin raced' /\ (s \notin raced => s \in Sandboxes(managed)) => s \in Sandboxes(managed')
  BY <1>6, <1>7
<1> QED BY <1>4, <1>5, <1>7, <1>8, <1>9, FilesInvGoes

(* A terminal is called, finds its gateway, or renders its block. *)
LEMMA FilesInvBefore ==
  ASSUME CommandInv, CommandInv', FilesInv, NEW t \in Terminals,
         (\E j : Call(t, j)) \/ Resolve(t) \/ Render(t)
  PROVE  FilesInv'
<1>0. OfTerminals(job) /\ OfTerminals(block) /\ OfTerminals(seen) /\ pc \in [Terminals -> Places]
  BY DEF CommandInv
<1>1. UNCHANGED <<managed, user, histories>> /\ seen' = [seen EXCEPT ![t] = seen[t]]
  BY <1>0, Unmoved DEF Call, Resolve, Render
<1>2. PICK p : Goto(t, p) /\ p \notin {"upsert", "user", "include"}
               /\ (p = "done" => ~job'[t].install)
  <2>1. CASE \E j : Call(t, j) BY <2>1 DEF Call
  <2>2. CASE Resolve(t)
    <3> DEFINE p == IF CurrentGatewayURL(conf, job[t].env, job[t].asked) = "" THEN "failed" ELSE "render"
    <3>1. Goto(t, p) BY <2>2 DEF Resolve
    <3>2. p \in {"failed", "render"} BY Zenon
    <3> HIDE DEF p
    <3> QED BY <3>1, <3>2
  <2>3. CASE Render(t)
    <3> DEFINE p == IF job[t].install THEN "managed" ELSE "done"
    <3>1. Goto(t, p) /\ job' = job BY <2>3 DEF Render
    <3>2. p = "managed" \/ (p = "done" /\ ~job[t].install) OBVIOUS
    <3> HIDE DEF p
    <3> QED BY <3>1, <3>2
  <2> QED BY <2>1, <2>2, <2>3
<1>3. PICK j : job' = [job EXCEPT ![t] = j]
  <2>1. job = [job EXCEPT ![t] = job[t]] BY <1>0, Unmoved
  <2> QED BY <2>1 DEF Call, Resolve, Render
<1>4. block[t] = <<>>
  BY DEF CommandInv, TerminalInv, Call, Resolve, Render
<1>5. PICK b : block' = [block EXCEPT ![t] = b]
  <2>1. block = [block EXCEPT ![t] = block[t]] BY <1>0, Unmoved
  <2> QED BY <2>1 DEF Call, Resolve, Render
<1>6. pc'[t] = p BY <1>0, <1>2 DEF Goto
<1>7. FilesFor(t)' BY <1>2, <1>6 DEF FilesFor
<1> DEFINE l == seen[t]
<1>8. seen' = [seen EXCEPT ![t] = l] BY <1>1
<1> HIDE DEF l
<1> QED BY <1>1, <1>2, <1>3, <1>4, <1>5, <1>7, <1>8, FilesInvLeaves

(* An installer reads the file of Host blocks. *)
LEMMA FilesInvReadManaged ==
  ASSUME CommandInv, CommandInv', FilesInv, NEW t \in Terminals, ReadManaged(t)
  PROVE  FilesInv'
<1>0. OfTerminals(job) /\ OfTerminals(block) /\ OfTerminals(seen) /\ pc \in [Terminals -> Places]
  BY DEF CommandInv
<1> DEFINE p == "upsert"
           b == block[t]
           j == job[t]
<1>1. /\ Goto(t, p) /\ seen' = [seen EXCEPT ![t] = managed] /\ UNCHANGED <<managed, user, histories, block>>
      /\ job' = [job EXCEPT ![t] = j] /\ block' = [block EXCEPT ![t] = b]
  BY <1>0, Unmoved DEF ReadManaged
<1>2. pc'[t] = "upsert" /\ seen'[t] = managed BY <1>0, <1>1 DEF Goto, OfTerminals
<1>3. RenderedBlocks' = RenderedBlocks BY <1>1 DEF RenderedBlocks
<1>4. FilesFor(t)' BY <1>2, <1>3 DEF FilesFor, FilesInv
<1> HIDE DEF p, b, j
<1>5. UNCHANGED <<managed, user, histories>> BY <1>1
<1>6. block[t] # <<>> => b = block[t] BY DEF b
<1> QED BY <1>1, <1>4, <1>5, <1>6, FilesInvLeaves

(* An installer reads the user's file. *)
LEMMA FilesInvReadUser ==
  ASSUME CommandInv, CommandInv', FilesInv, NEW t \in Terminals, ReadUser(t)
  PROVE  FilesInv'
<1>0. OfTerminals(job) /\ OfTerminals(block) /\ OfTerminals(seen) /\ pc \in [Terminals -> Places]
  BY DEF CommandInv
<1> DEFINE b == block[t]
           j == job[t]
           same == EnsureInclude(user) = user
           p == IF same THEN "done" ELSE "include"
           l == IF same THEN seen[t] ELSE user
<1>1. /\ pc[t] = "user" /\ Goto(t, p) /\ UNCHANGED <<managed, user, histories, block, job>>
      /\ job' = [job EXCEPT ![t] = j] /\ block' = [block EXCEPT ![t] = b]
      /\ seen' = [seen EXCEPT ![t] = l]
  BY <1>0, Unmoved DEF ReadUser
<1>2. pc'[t] = p /\ seen'[t] = l /\ job'[t] = job[t] BY <1>0, <1>1 DEF Goto, OfTerminals
<1>3. UserTyped(user) /\ FilesFor(t) BY DEF FilesInv
<1>4. same => UserHas BY <1>3, EnsuredAlready DEF FilesInv, UserFound
<1>5. FilesFor(t)'
  <2>0. UNCHANGED <<managed, user, raced, byUser>> /\ (UserHas => UserHas') BY <1>1 DEF histories, UserHas
  <2>1. CASE same BY <2>0, <2>1, <1>1, <1>2, <1>3, <1>4 DEF FilesFor
  <2>2. CASE ~same
    <3>1. Include \notin ToSet(user) BY <2>2 DEF EnsureInclude
    <3> QED BY <2>0, <2>2, <3>1, <1>1, <1>2, <1>3 DEF FilesFor
  <2> QED BY <2>1, <2>2
<1> HIDE DEF p, b, j, l, same
<1>6. UNCHANGED <<managed, user, histories>> BY <1>1
<1>7. block[t] # <<>> => b = block[t] BY DEF b
<1> QED BY <1>1, <1>5, <1>6, <1>7, FilesInvLeaves

(* An installer writes the user's file. *)
LEMMA FilesInvWriteUser ==
  ASSUME CommandInv, CommandInv', FilesInv, NEW t \in Terminals, WriteUser(t)
  PROVE  FilesInv'
<1>0. OfTerminals(job) /\ OfTerminals(block) /\ OfTerminals(seen) /\ pc \in [Terminals -> Places]
  BY DEF CommandInv
<1> DEFINE p == "done"
           b == block[t]
           j == job[t]
           l == <<>>
<1>1. /\ pc[t] = "include" /\ Goto(t, p) /\ UNCHANGED <<managed, raced, outdated, block, job>>
      /\ job' = [job EXCEPT ![t] = j] /\ block' = [block EXCEPT ![t] = b]
      /\ seen' = [seen EXCEPT ![t] = l] /\ user' = EnsureInclude(seen[t])
  BY <1>0, Unmoved DEF WriteUser
<1>2. pc'[t] = "done" /\ job'[t] = job[t] BY <1>0, <1>1 DEF Goto
<1>3. FilesFor(t) BY DEF FilesInv
<1>4. UserTyped(seen[t]) /\ Include \notin ToSet(seen[t]) BY <1>1, <1>3 DEF FilesFor
<1>5. UserTyped(user') /\ UserHas' /\ UserFound' BY <1>1, <1>4, UserEnsured DEF UserFound, UserHas
<1>6. FilesFor(t)' BY <1>1, <1>2, <1>3, <1>5 DEF FilesFor
<1>7. RenderedBlocks' = RenderedBlocks BY <1>1 DEF RenderedBlocks
<1>8. Shaped(RenderedBlocks, managed) => Shaped(RenderedBlocks', managed') BY <1>1, <1>7
<1>9. \A s : s \notin raced' /\ (s \notin raced => s \in Sandboxes(managed)) => s \in Sandboxes(managed')
  BY <1>1
<1> HIDE DEF p, b, j, l
<1>10. block[t] # <<>> => b = block[t] BY DEF b
<1>11. outdated' = outdated BY <1>1
<1> QED BY <1>1, <1>5, <1>6, <1>8, <1>9, <1>10, <1>11, FilesInvGoes

(* An installer writes the file of Host blocks. *)
LEMMA FilesInvWriteManaged ==
  ASSUME CommandInv, CommandInv', FilesInv, NEW t \in Terminals, WriteManaged(t)
  PROVE  FilesInv'
<1>0. OfTerminals(job) /\ OfTerminals(block) /\ OfTerminals(seen) /\ pc \in [Terminals -> Places]
  BY DEF CommandInv
<1> DEFINE p == "user"
           b == block[t]
           j == job[t]
           l == <<>>
           s == job[t].sandbox
<1>1. /\ pc[t] = "upsert" /\ Goto(t, p) /\ UNCHANGED <<user, byUser, outdated, block, job>>
      /\ job' = [job EXCEPT ![t] = j] /\ block' = [block EXCEPT ![t] = b]
      /\ seen' = [seen EXCEPT ![t] = l] /\ managed' = UpsertHostBlock(seen[t], s, b)
      /\ raced' = (raced \cup (Sandboxes(managed) \ Sandboxes(seen[t]))) \ {s}
  BY <1>0, Unmoved DEF WriteManaged
<1>2. pc'[t] = "user" /\ job'[t] = job[t] BY <1>0, <1>1 DEF Goto
<1>3. FilesFor(t) /\ TerminalInv(t) BY DEF FilesInv, CommandInv
<1>4. b # <<>> BY <1>1, <1>3 DEF TerminalInv, Writing
<1>5. PICK x \in ProxyLine : b = Three(s, x) /\ s \in SandboxArgs BY <1>4, RenderedAreBlocks
<1>6. RenderedBlocks' = RenderedBlocks BY <1>1 DEF RenderedBlocks
<1>7. b \in RenderedBlocks BY <1>4 DEF RenderedBlocks
<1>8. Shaped(RenderedBlocks, seen[t]) BY <1>1, <1>3 DEF FilesFor
<1> HIDE DEF b, s
<1>9. Shaped(RenderedBlocks, managed') /\ Sandboxes(managed') = Sandboxes(seen[t]) \cup {s}
  <2>1. Blocks(RenderedBlocks) BY RenderedAreBlocks
  <2>2. Three(s, x) \in RenderedBlocks BY <1>5, <1>7
  <2>3. managed' = UpsertHostBlock(seen[t], s, Three(s, x)) BY <1>1, <1>5
  <2> QED BY <2>1, <2>2, <2>3, <1>5, <1>8, UpsertShaped
<1>10. Shaped(RenderedBlocks, managed) => Shaped(RenderedBlocks', managed') BY <1>6, <1>9
<1>11. \A o : o \notin raced' /\ (o \notin raced => o \in Sandboxes(managed)) => o \in Sandboxes(managed')
  BY <1>1, <1>9
<1>12. FilesFor(t)' BY <1>2, <1>9 DEF FilesFor, s
<1>13. UserTyped(user') /\ UserFound' /\ (UserHas => UserHas') /\ outdated' = outdated
  BY <1>1 DEF FilesInv, UserFound, UserHas
<1> HIDE DEF p, j, l
<1>14. block[t] # <<>> => b = block[t] BY DEF b
<1> QED BY <1>1, <1>10, <1>11, <1>12, <1>13, <1>14, FilesInvGoes

(* It is so after every step. *)
LEMMA FilesInvStep == CommandInv /\ CommandInv' /\ FilesInv /\ [SshNext]_vars => FilesInv'
<1> SUFFICES ASSUME CommandInv, CommandInv', FilesInv, [SshNext]_vars PROVE FilesInv'
  OBVIOUS
<1>1. CASE UNCHANGED <<managed, user, command, histories>> BY <1>1, FilesInvQuiet
<1>2. ASSUME NEW t \in Terminals, NEW j, Call(t, j) PROVE FilesInv'
  BY <1>2, FilesInvBefore
<1>3. CASE TypedCall BY <1>3, <1>2, SshAssumption DEF TypedCall
<1>4. ASSUME NEW t \in Terminals, Step(t) PROVE FilesInv'
  BY <1>4, FilesInvBefore, FilesInvReadManaged, FilesInvWriteManaged, FilesInvReadUser,
     FilesInvWriteUser DEF Step
<1>5. ASSUME NEW n, SelectGateway(n) \/ RemoveGateway(n) \/ \E u \in Urls : AddGateway(n, u)
      PROVE  UNCHANGED <<managed, user, command, histories>>
  BY <1>5 DEF histories, SelectGateway, RemoveGateway, AddGateway, Reconfigure, Change
<1>6. ASSUME NEW lines \in UserFiles, EditUser(lines) PROVE FilesInv'
  BY <1>6, FilesInvEdit
<1>7. CASE UNCHANGED vars BY <1>7, <1>1 DEF vars
<1> QED BY <1>1, <1>2, <1>3, <1>4, <1>5, <1>6, <1>7 DEF SshNext

(* So it is always. *)
LEMMA FilesInvAlways == SshSpec => [](CommandInv /\ FilesInv)
<1>1. SshInit => FilesInv BY FilesInvInit
<1> QED BY <1>1, FilesInvStep, CommandInvAlways, PTL DEF SshSpec

(* Only the terminal that has read the user's file goes from "include" to "done". *)
LEMMA IncludeDone ==
  ASSUME CommandInv, SshNext, NEW t \in Terminals, pc[t] = "include", pc'[t] = "done"
  PROVE  WriteUser(t)
<1>1. ASSUME UNCHANGED pc PROVE FALSE BY <1>1
<1>2. ASSUME NEW o \in Terminals, NEW j, Call(o, j) PROVE FALSE
  BY <1>2 DEF Call, Goto, CommandInv
<1>3. CASE TypedCall BY <1>3, <1>2, SshAssumption DEF TypedCall
<1>4. ASSUME NEW o \in Terminals, Step(o) PROVE WriteUser(t)
  <2>1. PICK p : Goto(o, p) BY <1>4 DEF Step, Resolve, Render, ReadManaged, WriteManaged, ReadUser, WriteUser
  <2>2. o = t BY <2>1 DEF Goto, CommandInv
  <2> QED BY <1>4, <2>2 DEF Step, Resolve, Render, ReadManaged, WriteManaged, ReadUser
<1>5. ASSUME Change PROVE FALSE BY <1>5, <1>1 DEF Change, command
<1>6. ASSUME UNCHANGED command PROVE FALSE BY <1>6, <1>1 DEF command
<1> QED BY <1>1, <1>2, <1>3, <1>4, <1>5, <1>6
    DEF SshNext, SelectGateway, RemoveGateway, AddGateway, Reconfigure, EditUser

(* Nothing the user wrote in their file is lost or moved when an installer   *)
(* adds the Include to it, unless they wrote it after it was read.           *)
THEOREM UserLinesStay == SshSpec => UserLinesKept
<1>1. CommandInv /\ FilesInv /\ [SshNext]_vars =>
        [\A t \in Terminals :
           pc[t] = "include" /\ pc'[t] = "done" /\ seen[t] = user => OwnLines(user') = OwnLines(user)]_vars
  <2> SUFFICES ASSUME CommandInv, FilesInv, SshNext, NEW t \in Terminals,
                      pc[t] = "include", pc'[t] = "done", seen[t] = user
               PROVE  OwnLines(user') = OwnLines(user)
    OBVIOUS
  <2>1. user' = EnsureInclude(user) BY IncludeDone DEF WriteUser
  <2>2. UserTyped(user) BY DEF FilesInv
  <2> QED BY <2>1, <2>2, UserEnsured
<1> QED BY <1>1, FilesInvAlways, PTL DEF SshSpec, UserLinesKept

(* The section of a ProxyCommand is that of its block's host. *)
LEMMA SectionOf ==
  ASSUME NEW B, Blocks(B), NEW lines, Shaped(B, lines), NEW i, BlockAt(B, lines, i)
  PROVE  Section(lines, i + 2) = lines[i].names
<1>1. /\ i \in Nat /\ i >= 1 /\ DOMAIN lines = 1 .. Len(lines) /\ Len(lines) \in Nat
      /\ i \in DOMAIN lines /\ i + 1 \in DOMAIN lines /\ i + 2 \in DOMAIN lines
  BY DEF Shaped, BlockAt
<1> DEFINE S == {j \in 1 .. i + 2 : IsBlockStart(lines[j])}
<1>2. i \in S BY <1>1, HostAt
<1>3. \A j \in S : j <= i
  <2>1. lines[i + 1].kind = "setting" /\ lines[i + 2].kind = "proxy" BY BlockLines
  <2>2. i + 1 \notin S /\ i + 2 \notin S BY <2>1 DEF IsBlockStart
  <2>3. \A j \in 1 .. i + 2 : j <= i \/ j = i + 1 \/ j = i + 2 BY <1>1
  <2> QED BY <2>2, <2>3
<1>4. S \subseteq Nat BY <1>1
<1> HIDE DEF S
<1>5. (CHOOSE j \in S : \A k \in S : k <= j) = i
  <2> DEFINE m == CHOOSE j \in S : \A k \in S : k <= j
  <2>1. m \in S /\ \A k \in S : k <= m BY <1>2, <1>3, Zenon
  <2> HIDE DEF m
  <2>2. m = i BY <2>1, <1>1, <1>2, <1>3, <1>4
  <2> QED BY <2>2 DEF m
<1> QED BY <1>2, <1>5 DEF Section, S

(* A host that is in the file is in it once, with the ProxyCommand of a block  *)
(* that was made for it.                                                     *)
LEMMA HostFound ==
  ASSUME NEW B, Blocks(B), NEW lines, Shaped(B, lines), NEW s, s \in Sandboxes(lines)
  PROVE  \E i, b : b \in B /\ b[1] = Host({s}) /\ Proxies(lines, s) = {i} /\ lines[i] = b[3]
<1>1. PICK i \in DOMAIN lines : BlockAt(B, lines, i) /\ lines[i] = Host({s}) BY SandboxesOf
<1>2. i + 2 \in DOMAIN lines /\ \E b \in B : b[1] = Host({s}) /\ lines[i + 2] = b[3] BY <1>1 DEF BlockAt
<1>3. \A o : Host({o}).names = {o} BY Kinds
<1>4. i + 2 \in Proxies(lines, s)
  <2>1. lines[i + 2].kind = "proxy" BY <1>1, BlockLines
  <2>2. BlockAt(B, lines, i) /\ lines[i].names = {s} BY <1>1, <1>3
  <2>3. Section(lines, i + 2) = lines[i].names BY <2>2, SectionOf
  <2>4. s \in Section(lines, i + 2) BY <2>2, <2>3
  <2> QED BY <1>2, <2>1, <2>4 DEF Proxies
<1>5. ASSUME NEW k \in Proxies(lines, s) PROVE k = i + 2
  <2>1. k \in DOMAIN lines /\ lines[k].kind = "proxy" /\ s \in Section(lines, k) BY DEF Proxies
  <2> DEFINE j == k - 2
  <2>2. BlockAt(B, lines, j) BY <2>1, HostAt
  <2>3. k \in Nat /\ i \in Nat BY <2>1 DEF Shaped
  <2>4. j + 2 = k BY <2>3
  <2> HIDE DEF j
  <2>5. s \in lines[j].names BY <2>1, <2>2, <2>4, SectionOf
  <2>6. ForSandbox(lines[j]) BY <2>2, BlockLines
  <2>7. PICK o \in SandboxArgs : lines[j] = Host({o}) BY <2>6, Zenon DEF ForSandbox
  <2>8. lines[j] = lines[i] BY <1>1, <1>3, <2>5, <2>7
  <2>9. j \in DOMAIN lines BY <2>2 DEF BlockAt
  <2>10. j = i BY <1>1, <2>2, <2>8, <2>9 DEF Shaped
  <2> QED BY <2>4, <2>10
<1> QED BY <1>2, <1>4, <1>5

----------------------------------------------------------------------------
(* What ssh-proxy is called with *)

IsReading(r) == r = [groups |-> r.groups, open |-> r.open, refused |-> r.refused]
Reads(r, gs, o) == IsReading(r) /\ r.groups = gs /\ r.open = o /\ ~r.refused

(* A group more, or a flag that waits, in what has been read. *)
LEMMA ReadsMore ==
  /\ Reads(Nothing, <<>>, NoFlag)
  /\ \A r, gs, o, a : Reads(r, gs, o) => Reads([r EXCEPT !.open = a], gs, a)
  /\ \A r, gs, o, more : Reads(r, gs, o) => Reads([r EXCEPT !.groups = more], more, o)
  /\ \A r, gs, o, key, args :
       Reads(r, gs, o) => Reads(Taken(r, key, args), Append(gs, Group(key, args)), NoFlag)
<1>1. Reads(Nothing, <<>>, NoFlag) BY DEF Reads, Nothing, IsReading
<1>2. ASSUME NEW r, NEW gs, NEW o, Reads(r, gs, o), NEW a PROVE Reads([r EXCEPT !.open = a], gs, a)
  BY <1>2 DEF Reads, IsReading
<1>3. ASSUME NEW r, NEW gs, NEW o, Reads(r, gs, o), NEW more PROVE Reads([r EXCEPT !.groups = more], more, o)
  BY <1>3 DEF Reads, IsReading
<1>4. ASSUME NEW r, NEW gs, NEW o, Reads(r, gs, o), NEW key, NEW args
      PROVE  Reads(Taken(r, key, args), Append(gs, Group(key, args)), NoFlag)
  <2> DEFINE gr == Group(key, args)
             q == Taken(r, key, args)
  <2> HIDE DEF gr
  <2>1. q = [r EXCEPT !.groups = Append(@, gr), !.open = NoFlag] BY Zenon DEF Taken, gr
  <2> HIDE DEF q
  <2>2. q.groups = Append(gs, gr) /\ q.open = NoFlag /\ q.refused = r.refused /\ IsReading(q)
    BY <2>1, <1>4 DEF Reads, IsReading
  <2> QED BY <2>2, <1>4, Zenon DEF Reads, q, gr
<1> QED BY <1>1, <1>2, <1>3, <1>4

(* A parser of options that each have a value, any value. *)
Options(g) == g.lead = <<>> /\ g.then = <<>> /\ ~g.sep /\ ~g.once /\ g.must = No

(* A flag is read ... *)
LEMMA ReadsFlag ==
  ASSUME NEW g, Options(g), NEW r, NEW gs, Reads(r, gs, NoFlag), ~InCommand(r), Len(gs) \in Nat,
         NEW a, a.dash, ~a.eq, a.key \in g.value, a.key \notin g.bare
  PROVE  Reads(Read(g, r, a), gs, a)
<1>1. r.groups = gs /\ r.open = NoFlag /\ ~r.refused BY DEF Reads
<1>2. Known(g, a) BY DEF Known
<1>3. ReadFlag(g, r, a) = [r EXCEPT !.open = a]
  <2>1. ~Repeats(g, r, a) BY DEF Options, Repeats
  <2> QED BY <2>1, Zenon DEF ReadFlag
<1>4. ~(Len(r.groups) < Len(g.lead \o g.then))
  <2>1. Len(g.lead \o g.then) = 0 BY DEF Options
  <2> QED BY <1>1, <2>1
<1>5. ~g.sep BY DEF Options
<1>6. Read(g, r, a) = ReadFlag(g, r, a) BY <1>1, <1>2, <1>4, <1>5, Zenon DEF Read
<1>7. Reads([r EXCEPT !.open = a], gs, a) BY ReadsMore, Zenon
<1> QED BY <1>3, <1>6, <1>7

(* ... and then its value. *)
LEMMA ReadsValue ==
  ASSUME NEW g, Options(g), NEW r, NEW gs, NEW o, o # NoFlag, Reads(r, gs, o), NEW a
  PROVE  Reads(Read(g, r, a), Append(gs, Group(Key(g, o.key), <<o, a>>)), NoFlag)
<1>1. r.groups = gs /\ r.open = o /\ ~r.refused BY DEF Reads
<1>2. \A key, args, v : TakeValue(g, r, key, args, v) = Taken(r, key, args)
  <2>1. \A key : Must(g, key) = "any" BY DEF Options, Must, No
  <2>2. \A v : Fits("any", v) BY DEF Fits
  <2> QED BY <2>1, <2>2, Zenon DEF TakeValue
<1>3. ~(g.once /\ a.dash) BY DEF Options
<1>4. Read(g, r, a) = Taken(r, Key(g, o.key), <<o, a>>)
  BY <1>1, <1>2, <1>3, Zenon DEF Read
<1>5. Reads(Taken(r, Key(g, o.key), <<o, a>>), Append(gs, Group(Key(g, o.key), <<o, a>>)), NoFlag)
  BY ReadsMore, Zenon
<1> QED BY <1>4, <1>5

(* What follows the first word is the command's. *)
LEMMA ReadsCommand ==
  ASSUME NEW A, NEW args \in Seq(A), NEW r, Reads(r, <<Group("--", args)>>, NoFlag), NEW a \in A
  PROVE  Reads(Read(Globals, r, a), <<Group("--", Append(args, a))>>, NoFlag)
<1> DEFINE gs == <<Group("--", args)>>
<1>1. r.groups = gs /\ r.open = NoFlag /\ ~r.refused BY DEF Reads
<1>2. /\ Len(gs) = 1 /\ gs # <<>> /\ gs[1] = Group("--", args) /\ Last(gs) = Group("--", args)
      /\ Group("--", args).key = "--"
  BY DEF Last, Group
<1>3. InCommand(r) BY <1>1, <1>2 DEF InCommand
<1>4. [gs EXCEPT ![1].args = Append(@, a)] = <<Group("--", Append(args, a))>>
  <2>1. gs[1] = [key |-> "--", args |-> args] BY DEF gs, Group
  <2>2. \A k, p, q : [[key |-> k, args |-> p] EXCEPT !.args = q] = [key |-> k, args |-> q] OBVIOUS
  <2>3. \A x, y : [<<x>> EXCEPT ![1] = y] = <<y>> OBVIOUS
  <2>4. gs[1].args = args BY <2>1
  <2>5. [gs EXCEPT ![1].args = Append(@, a)] = [gs EXCEPT ![1] = [gs[1] EXCEPT !.args = Append(args, a)]]
    BY <2>4
  <2>6. [gs[1] EXCEPT !.args = Append(args, a)] = Group("--", Append(args, a))
    BY <2>1, <2>2, Zenon DEF Group
  <2>7. \A y : [gs EXCEPT ![1] = y] = <<y>> BY <2>3 DEF gs
  <2> HIDE DEF gs
  <2> QED BY <2>5, <2>6, <2>7
<1> HIDE DEF gs
<1>5. [r EXCEPT !.groups[Len(r.groups)].args = Append(@, a)] =
      [r EXCEPT !.groups = <<Group("--", Append(args, a))>>]
  <2>1. Len(r.groups) = 1 BY <1>1, <1>2
  <2>2. [r EXCEPT !.groups[1].args = Append(@, a)] = [r EXCEPT !.groups = [gs EXCEPT ![1].args = Append(@, a)]]
    BY <1>1
  <2> QED BY <2>1, <2>2, <1>4
<1>6. Read(Globals, r, a) = [r EXCEPT !.groups = <<Group("--", Append(args, a))>>]
  BY <1>1, <1>3, <1>5, Zenon DEF Read
<1>7. Reads([r EXCEPT !.groups = <<Group("--", Append(args, a))>>], <<Group("--", Append(args, a))>>, NoFlag)
  BY ReadsMore, Zenon
<1> QED BY <1>6, <1>7

(* A sequence and one element more. *)
LEMMA OneMore ==
  ASSUME NEW A, NEW s \in Seq(A), NEW a \in A, NEW t \in Seq(A), Len(t) = Len(s) + 1,
         t[Len(s) + 1] = a, \A i \in 1 .. Len(s) : t[i] = s[i]
  PROVE  Append(s, a) = t
<1> DEFINE u == Append(s, a)
           n == Len(s)
<1>1. /\ n \in Nat /\ u \in Seq(A) /\ Len(u) = n + 1 /\ u[n + 1] = a
      /\ \A i \in 1 .. n : u[i] = s[i]
  BY AppendProperties, LenProperties
<1> HIDE DEF u
<1>2. \A i \in 1 .. Len(u) : u[i] = t[i] BY <1>1
<1>3. Len(u) = Len(t) BY <1>1
<1>4. u = t BY <1>1, <1>2, <1>3, SeqEqual
<1> QED BY <1>4 DEF u

(* A line of five arguments, and what is before each of them. *)
Five(A, x, f, w, m, s) ==
  /\ Append(<<x>>, f) = <<x, f>> /\ Append(<<x, f>>, w) = <<x, f, w>>
  /\ Append(<<x, f, w>>, m) = <<x, f, w, m>> /\ Append(<<x, f, w, m>>, s) = <<x, f, w, m, s>>
  /\ <<x>> \o <<f, w>> \o <<m, s>> = <<x, f, w, m, s>>
  /\ SubSeq(<<x, f, w, m, s>>, 2, 5) = <<f, w, m, s>>

LEMMA FiveOf ==
  ASSUME NEW A, NEW x \in A, NEW f \in A, NEW w \in A, NEW m \in A, NEW s \in A
  PROVE  Five(A, x, f, w, m, s)
<1>1. /\ <<x>> \in Seq(A) /\ <<x, f>> \in Seq(A) /\ <<x, f, w>> \in Seq(A) /\ <<x, f, w, m>> \in Seq(A)
      /\ <<x, f, w, m, s>> \in Seq(A) /\ <<f, w>> \in Seq(A) /\ <<m, s>> \in Seq(A) /\ <<f, w, m, s>> \in Seq(A)
  OBVIOUS
<1>2. Append(<<x>>, f) = <<x, f>> BY TwoOf
<1>3. Append(<<x, f>>, w) = <<x, f, w>>
  <2> DEFINE p == <<x, f>>
             t == <<x, f, w>>
  <2>1. /\ p \in Seq(A) /\ t \in Seq(A) /\ Len(p) = 2 /\ Len(t) = 3 /\ t[3] = w
        /\ t[1] = p[1] /\ t[2] = p[2]
    OBVIOUS
  <2> HIDE DEF p, t
  <2>2. /\ Len(t) = Len(p) + 1 /\ t[Len(p) + 1] = w /\ \A i \in 1 .. Len(p) : t[i] = p[i]
        /\ p \in Seq(A) /\ t \in Seq(A)
    BY <2>1
  <2>3. Append(p, w) = t BY <2>2, OneMore, Zenon
  <2> QED BY <2>3 DEF p, t
<1>4. Append(<<x, f, w>>, m) = <<x, f, w, m>>
  <2> DEFINE p == <<x, f, w>>
             t == <<x, f, w, m>>
  <2>1. /\ p \in Seq(A) /\ t \in Seq(A) /\ Len(p) = 3 /\ Len(t) = 4 /\ t[4] = m
        /\ t[1] = p[1] /\ t[2] = p[2] /\ t[3] = p[3]
    OBVIOUS
  <2> HIDE DEF p, t
  <2>2. /\ Len(t) = Len(p) + 1 /\ t[Len(p) + 1] = m /\ \A i \in 1 .. Len(p) : t[i] = p[i]
        /\ p \in Seq(A) /\ t \in Seq(A)
    BY <2>1
  <2>3. Append(p, m) = t BY <2>2, OneMore, Zenon
  <2> QED BY <2>3 DEF p, t
<1>5. Append(<<x, f, w, m>>, s) = <<x, f, w, m, s>>
  <2> DEFINE p == <<x, f, w, m>>
             t == <<x, f, w, m, s>>
  <2>1. /\ p \in Seq(A) /\ t \in Seq(A) /\ Len(p) = 4 /\ Len(t) = 5 /\ t[5] = s
        /\ t[1] = p[1] /\ t[2] = p[2] /\ t[3] = p[3] /\ t[4] = p[4]
    OBVIOUS
  <2> HIDE DEF p, t
  <2>2. /\ Len(t) = Len(p) + 1 /\ t[Len(p) + 1] = s /\ \A i \in 1 .. Len(p) : t[i] = p[i]
        /\ p \in Seq(A) /\ t \in Seq(A)
    BY <2>1
  <2>3. Append(p, s) = t BY <2>2, OneMore, Zenon
  <2> QED BY <2>3 DEF p, t
<1>6. <<x>> \o <<f, w>> \o <<m, s>> = <<x, f, w, m, s>>
  <2> DEFINE a == <<x>>
             b == <<f, w>>
             c == <<m, s>>
             t == <<x, f, w, m, s>>
  <2>1. /\ a \in Seq(A) /\ b \in Seq(A) /\ c \in Seq(A) /\ t \in Seq(A)
        /\ Len(a) = 1 /\ Len(b) = 2 /\ Len(c) = 2 /\ Len(t) = 5
        /\ a[1] = t[1] /\ b[1] = t[2] /\ b[2] = t[3] /\ c[1] = t[4] /\ c[2] = t[5]
    OBVIOUS
  <2> HIDE DEF a, b, c, t
  <2>2. Follows(A, a, b, a \o b) BY <2>1, FollowsIs, Zenon
  <2>3. PICK ab : ab = a \o b OBVIOUS
  <2>4. /\ ab \in Seq(A) /\ Len(ab) = 3 /\ ab[1] = t[1] /\ ab[2] = t[2] /\ ab[3] = t[3]
    BY <2>1, <2>2, <2>3 DEF Follows
  <2>5. Follows(A, ab, c, ab \o c) BY <2>1, <2>4, FollowsIs, Zenon
  <2>6. PICK abc : abc = ab \o c OBVIOUS
  <2>7. /\ abc \in Seq(A) /\ Len(abc) = 5 /\ abc[1] = t[1] /\ abc[2] = t[2] /\ abc[3] = t[3]
        /\ abc[4] = t[4] /\ abc[5] = t[5]
    BY <2>1, <2>4, <2>5, <2>6 DEF Follows
  <2>8. \A i \in 1 .. Len(abc) : abc[i] = t[i] BY <2>7
  <2>9. abc = t BY <2>1, <2>7, <2>8, SeqEqual
  <2>10. a \o b \o c = t BY <2>3, <2>6, <2>9
  <2> QED BY <2>10 DEF a, b, c, t
<1>7. SubSeq(<<x, f, w, m, s>>, 2, 5) = <<f, w, m, s>>
  <2> DEFINE t == <<x, f, w, m, s>>
             u == <<f, w, m, s>>
  <2>1. /\ t \in Seq(A) /\ u \in Seq(A) /\ Len(t) = 5 /\ Len(u) = 4
        /\ u[1] = t[2] /\ u[2] = t[3] /\ u[3] = t[4] /\ u[4] = t[5]
    OBVIOUS
  <2> HIDE DEF t, u
  <2>2. /\ SubSeq(t, 2, 5) \in Seq(A) /\ Len(SubSeq(t, 2, 5)) = 4
        /\ \A i \in 1 .. 4 : SubSeq(t, 2, 5)[i] = t[i + 1]
    <3>1. \A i \in 1 .. 4 : (2 + i) - 1 = i + 1 OBVIOUS
    <3>2. /\ SubSeq(t, 2, 5) \in Seq(A) /\ Len(SubSeq(t, 2, 5)) = (5 - 2) + 1
          /\ \A i \in 1 .. ((5 - 2) + 1) : SubSeq(t, 2, 5)[i] = t[(2 + i) - 1]
      <4>1. 2 \in Nat \ {0} /\ 5 \in Nat /\ 5 <= Len(t) /\ 2 <= 5 + 1 BY <2>1
      <4> QED BY <2>1, <4>1, Parts
    <3> QED BY <3>1, <3>2
  <2>3. \A i \in 1 .. 4 : SubSeq(t, 2, 5)[i] = u[i] BY <2>1, <2>2
  <2>4. SubSeq(t, 2, 5) = u BY <2>1, <2>2, <2>3, SeqEqual
  <2> QED BY <2>4 DEF t, u
<1> QED BY <1>2, <1>3, <1>4, <1>5, <1>6, <1>7, Zenon DEF Five

Rounds(g, p, a, t) == Scan(g, t) = Read(g, Scan(g, p), a)

(* One argument more is one round more. *)
LEMMA ScanOn ==
  ASSUME NEW A, NEW g, NEW p \in Seq(A), NEW a \in A, NEW t, Append(p, a) = t
  PROVE  Rounds(g, p, a, t)
<1>1. Scan(g, Append(p, a)) = Read(g, Scan(g, p), a) BY ScanAppend, ZenonT(60)
<1> QED BY <1>1 DEF Rounds

(* The first word ends the global flags. *)
LEMMA ReadsFirst ==
  ASSUME NEW A, NEW x \in A, ~x.dash
  PROVE  Reads(Scan(Globals, <<x>>), <<Group("--", <<x>>)>>, NoFlag)
<1>1. /\ Globals.lead = <<>> /\ Globals.then = <<>> /\ ~Globals.sep /\ Globals.words = "stop"
  BY DEF Globals, Plain
<1>2. Scan(Globals, <<x>>) = Read(Globals, Nothing, x)
  <2>1. Append(<<>>, x) = <<x>> /\ <<>> \in Seq(A) OBVIOUS
  <2>2. Rounds(Globals, <<>>, x, <<x>>) BY <2>1, ScanOn
  <2> QED BY <2>2, ScanEmpty, Zenon DEF Rounds
<1>3. Nothing.groups = <<>> /\ Nothing.open = NoFlag /\ ~Nothing.refused BY ReadsMore, Zenon DEF Reads
<1>4. ~InCommand(Nothing) /\ ~Known(Globals, x) /\ ~Accepts(Globals, x)
  BY <1>1, <1>3 DEF InCommand, Known, Accepts
<1>5. ~(Len(Nothing.groups) < Len(Globals.lead \o Globals.then))
  <2>1. Len(Globals.lead \o Globals.then) = 0 /\ Len(Nothing.groups) = 0 BY <1>1, <1>3
  <2> QED BY <2>1
<1>6. Read(Globals, Nothing, x) = Taken(Nothing, "--", <<x>>)
  BY <1>1, <1>3, <1>4, <1>5, Zenon DEF Read
<1>7. Reads(Taken(Nothing, "--", <<x>>), Append(<<>>, Group("--", <<x>>)), NoFlag) BY ReadsMore, Zenon
<1>8. \A gr : Append(<<>>, gr) = <<gr>> OBVIOUS
<1> QED BY <1>2, <1>6, <1>7, <1>8, Zenon

(* One argument more of the command. *)
LEMMA ReadsOn ==
  ASSUME NEW A, NEW p \in Seq(A), NEW a \in A, NEW t, Append(p, a) = t,
         Reads(Scan(Globals, p), <<Group("--", p)>>, NoFlag)
  PROVE  Reads(Scan(Globals, t), <<Group("--", t)>>, NoFlag)
<1>1. Scan(Globals, t) = Read(Globals, Scan(Globals, p), a) BY ScanAppend, ZenonT(60)
<1>2. Reads(Read(Globals, Scan(Globals, p), a), <<Group("--", Append(p, a))>>, NoFlag) BY ReadsCommand
<1> QED BY <1>1, <1>2

(* So the whole line is. *)
LEMMA FiveRest ==
  ASSUME NEW A, NEW x \in A, NEW f \in A, NEW w \in A, NEW m \in A, NEW s \in A, ~x.dash
  PROVE  Rest(<<x, f, w, m, s>>) = <<x, f, w, m, s>>
<1>1. Five(A, x, f, w, m, s) BY FiveOf
<1>2. <<x>> \in Seq(A) /\ <<x, f>> \in Seq(A) /\ <<x, f, w>> \in Seq(A) /\ <<x, f, w, m>> \in Seq(A) OBVIOUS
<1> DEFINE t == <<x, f, w, m, s>>
           r == Scan(Globals, t)
<1>3. Reads(Scan(Globals, <<x>>), <<Group("--", <<x>>)>>, NoFlag) BY ReadsFirst
<1>4. Reads(Scan(Globals, <<x, f>>), <<Group("--", <<x, f>>)>>, NoFlag)
  <2>1. Append(<<x>>, f) = <<x, f>> BY <1>1 DEF Five
  <2> QED BY <1>2, <1>3, <2>1, ReadsOn
<1>5. Reads(Scan(Globals, <<x, f, w>>), <<Group("--", <<x, f, w>>)>>, NoFlag)
  <2>1. Append(<<x, f>>, w) = <<x, f, w>> BY <1>1 DEF Five
  <2> QED BY <1>2, <1>4, <2>1, ReadsOn
<1>6. Reads(Scan(Globals, <<x, f, w, m>>), <<Group("--", <<x, f, w, m>>)>>, NoFlag)
  <2>1. Append(<<x, f, w>>, m) = <<x, f, w, m>> BY <1>1 DEF Five
  <2> QED BY <1>2, <1>5, <2>1, ReadsOn
<1>7. Reads(r, <<Group("--", t)>>, NoFlag)
  <2>1. Append(<<x, f, w, m>>, s) = t BY <1>1 DEF Five
  <2> HIDE DEF t
  <2> QED BY <1>2, <1>6, <2>1, ReadsOn
<1>8. r.groups = <<Group("--", t)>> BY <1>7 DEF Reads
<1> HIDE DEF r, t
<1>9. /\ r.groups # <<>> /\ Last(r.groups) = Group("--", t) BY <1>8 DEF Last
<1>10. Group("--", t).key = "--" /\ Group("--", t).args = t BY DEF Group
<1>11. Rest(t) = t
  <2>1. InCommand(Scan(Globals, t)) BY <1>9, <1>10 DEF InCommand, r
  <2>2. Rest(t) = Last(r.groups).args BY <2>1, Zenon DEF Rest, r
  <2> QED BY <2>2, <1>9, <1>10
<1> QED BY <1>11 DEF t

(* Two options are read, with their values. *)
LEMMA FourRead ==
  ASSUME NEW g, Options(g), NEW A, NEW f \in A, NEW w \in A, NEW m \in A, NEW s \in A,
         f.dash, ~f.eq, f.key \in g.value, m.dash, ~m.eq, m.key \in g.value, g.bare = {}, f.key # "--",
         Key(g, f.key) = f.key, Key(g, m.key) = m.key
  PROVE  Reads(Scan(g, <<f, w, m, s>>), <<Group(f.key, <<f, w>>), Group(m.key, <<m, s>>)>>, NoFlag)
<1>1. /\ Append(<<>>, f) = <<f>> /\ Append(<<f>>, w) = <<f, w>> /\ Append(<<f, w>>, m) = <<f, w, m>>
      /\ Append(<<f, w, m>>, s) = <<f, w, m, s>>
  <2>1. Five(A, f, w, m, s, s) BY FiveOf
  <2>2. Append(<<>>, f) = <<f>> OBVIOUS
  <2> QED BY <2>1, <2>2 DEF Five
<1>2. <<>> \in Seq(A) /\ <<f>> \in Seq(A) /\ <<f, w>> \in Seq(A) /\ <<f, w, m>> \in Seq(A) OBVIOUS
<1>3. f # NoFlag /\ m # NoFlag BY DashOf
<1> DEFINE g1 == Group(f.key, <<f, w>>)
           g2 == Group(m.key, <<m, s>>)
<1>4. g1.key = f.key BY DEF Group
<1> HIDE DEF g1
<1>5. Reads(Scan(g, <<f>>), <<>>, f)
  <2>1. Scan(g, <<f>>) = Read(g, Nothing, f)
    <3>1. Rounds(g, <<>>, f, <<f>>) BY <1>1, <1>2, ScanOn
    <3> QED BY <3>1, ScanEmpty, Zenon DEF Rounds
  <2>2. Reads(Nothing, <<>>, NoFlag) BY ReadsMore, Zenon
  <2>3. ~InCommand(Nothing) BY <2>2 DEF InCommand, Reads
  <2>4. Len(<<>>) \in Nat /\ f.key \notin g.bare OBVIOUS
  <2> QED BY <2>1, <2>2, <2>3, <2>4, ReadsFlag
<1>6. Reads(Scan(g, <<f, w>>), <<g1>>, NoFlag)
  <2>1. Scan(g, <<f, w>>) = Read(g, Scan(g, <<f>>), w)
    <3>1. Rounds(g, <<f>>, w, <<f, w>>) BY <1>1, <1>2, ScanOn
    <3> QED BY <3>1, Zenon DEF Rounds
  <2>2. Reads(Read(g, Scan(g, <<f>>), w), Append(<<>>, Group(Key(g, f.key), <<f, w>>)), NoFlag)
    BY <1>3, <1>5, ReadsValue
  <2>3. Append(<<>>, g1) = <<g1>> OBVIOUS
  <2> QED BY <2>1, <2>2, <2>3 DEF g1
<1>7. Reads(Scan(g, <<f, w, m>>), <<g1>>, m)
  <2>1. Scan(g, <<f, w, m>>) = Read(g, Scan(g, <<f, w>>), m)
    <3>1. Rounds(g, <<f, w>>, m, <<f, w, m>>) BY <1>1, <1>2, ScanOn
    <3> QED BY <3>1, Zenon DEF Rounds
  <2>2. ~InCommand(Scan(g, <<f, w>>))
    <3>1. Last(<<g1>>) = g1 BY DEF Last
    <3> QED BY <3>1, <1>4, <1>6 DEF InCommand, Reads
  <2>3. Len(<<g1>>) \in Nat /\ m.key \notin g.bare OBVIOUS
  <2> QED BY <2>1, <2>2, <2>3, <1>6, ReadsFlag
<1>8. Reads(Scan(g, <<f, w, m, s>>), Append(<<g1>>, g2), NoFlag)
  <2>1. Scan(g, <<f, w, m, s>>) = Read(g, Scan(g, <<f, w, m>>), s)
    <3>1. Rounds(g, <<f, w, m>>, s, <<f, w, m, s>>) BY <1>1, <1>2, ScanOn
    <3> QED BY <3>1, Zenon DEF Rounds
  <2>2. Reads(Read(g, Scan(g, <<f, w, m>>), s), Append(<<g1>>, Group(Key(g, m.key), <<m, s>>)), NoFlag)
    BY <1>3, <1>7, ReadsValue
  <2> QED BY <2>1, <2>2
<1> HIDE DEF g2
<1>9. Append(<<g1>>, g2) = <<g1, g2>>
  <2> DEFINE G == {g1, g2}
  <2>1. g1 \in G /\ g2 \in G OBVIOUS
  <2> HIDE DEF G
  <2> QED BY <2>1, TwoOf
<1> QED BY <1>8, <1>9 DEF g1, g2

(* The parser of ssh-proxy. *)
LEMMA ProxyParser ==
  /\ Options(SSHProxy) /\ SSHProxy.bare = {} /\ SSHProxy.many = {} /\ SSHProxy.needs = {{"--token", "--name"}}
  /\ \A f \in {"--server", "--gateway-name", "--name"} : f \in SSHProxy.value /\ Key(SSHProxy, f) = f
<1>1. Options(SSHProxy) BY DEF Options, SSHProxy, Plain
<1>2. SSHProxy.bare = {} /\ SSHProxy.many = {} /\ SSHProxy.needs = {{"--token", "--name"}}
  BY DEF SSHProxy, Plain
<1>3. \A f \in {"--server", "--gateway-name", "--name"} : f \in SSHProxy.value
  BY DEF SSHProxy, Plain
<1>4. SSHProxy.same = All({"-g"}, "--gateway-name") BY DEF SSHProxy, Plain
<1>5. DOMAIN All({"-g"}, "--gateway-name") = {"-g"} BY DEF All
<1>6. \A f \in {"--server", "--gateway-name", "--name"} : Key(SSHProxy, f) = f
  BY <1>4, <1>5 DEF Key
<1> QED BY <1>1, <1>2, <1>3, <1>6

SSHProxyCommand == Top("ssh-proxy", {"ssh-proxy"}, SSHProxy)

(* It is the one found for a line that begins with its name. *)
LEMMA ProxyFound ==
  ASSUME NEW A, NEW args \in Seq(A), args # <<>>, args[1] = Word("ssh-proxy")
  PROVE  Matching(args) # {} /\ Matched(args) = SSHProxyCommand
<1> DEFINE c == SSHProxyCommand
           k2 == args[2].key
           k3 == args[3].key
<1>1. Begins(args, args[1].key, k2, k3) BY BeginsWith
<1>2. args[1].key = "ssh-proxy" BY DashOf
<1> HIDE DEF k2, k3
<1>3. Begins(args, "ssh-proxy", k2, k3) BY <1>1, <1>2
<1>4. c \in Commands BY Zenon DEF Commands, TopCommands, SSHProxyCommand
<1>5. c.path = <<{"ssh-proxy"}>> BY DEF SSHProxyCommand, Top, Is
<1>6. Starts(c.path, args) /\ Len(c.path) = 1
  <2>1. Len(<<{"ssh-proxy"}>>) = 1 /\ DOMAIN <<{"ssh-proxy"}>> = {1} /\ <<{"ssh-proxy"}>>[1] = {"ssh-proxy"}
    OBVIOUS
  <2>2. Len(args) >= 1 OBVIOUS
  <2>3. args[1] \in {Word(w) : w \in {"ssh-proxy"}} BY Zenon
  <2> HIDE DEF c
  <2> QED BY <1>5, <2>1, <2>2, <2>3 DEF Starts
<1> HIDE DEF c
<1>7. ASSUME NEW d \in Commands, Starts(d.path, args) PROVE Len(d.path) <= 1
  <2>1. d \in TopCommands
    <3>1. /\ Told(SandboxCommands, {"sandbox", "sb"}, args, "ssh-proxy")
          /\ Told(GatewayCommands, {"gateway", "gw"}, args, "ssh-proxy")
          /\ Told(PolicyCommands, {"policy", "pol"}, args, "ssh-proxy")
          /\ Told(ProviderCommands \cup ProfileCommands, {"provider", "profile"}, args, "ssh-proxy")
          /\ Told(WorkspaceCommands, {"workspace", "ws"}, args, "ssh-proxy")
          /\ Told(StoreCommands,
                  {"settings", "forward", "fwd", "service", "svc", "rule", "rl", "inference"}, args, "ssh-proxy")
      BY <1>3, EachTold
    <3>2. /\ d \notin SandboxCommands /\ d \notin GatewayCommands /\ d \notin PolicyCommands
          /\ d \notin ProviderCommands \cup ProfileCommands /\ d \notin WorkspaceCommands
          /\ d \notin StoreCommands
      BY <3>1, <1>7 DEF Told
    <3> QED BY <3>2 DEF Commands
  <2> DEFINE k1 == "ssh-proxy"
  <2>2. k1 \notin {"doctor", "dr"} OBVIOUS
  <2>3. Begins(args, k1, k2, k3) BY <1>3
  <2> HIDE DEF k1
  <2>4. \A x \in TopCommands : Starts(x.path, args) => Len(x.path) = 1 \/ k1 \in {"doctor", "dr"}
    BY <2>3, SMTT(60) DEF Begins, TopCommands
  <2>5. Len(d.path) = 1 BY <2>1, <2>2, <2>4, <1>7
  <2> QED BY <2>5
<1>8. c \in Matching(args) BY <1>4, <1>6, <1>7 DEF Matching
<1>9. Matched(args) \in Matching(args) BY <1>8 DEF Matched
<1> QED BY <1>8, <1>9, OneCommand DEF c

(* The last of several of one kind. *)
LEMMA LastOf ==
  ASSUME NEW r, NEW g, Given(r, g.key) \in Seq({g}), Has(r, g.key)
  PROVE  Value(r, g.key) = ValueOf(g)
<1> DEFINE gs == Given(r, g.key)
<1>1. Value(r, g.key) = Last([i \in DOMAIN gs |-> ValueOf(gs[i])]) BY DEF Value, Values
<1>2. gs # <<>> BY DEF Has
<1> DEFINE n == Len(gs)
<1> HIDE DEF gs
<1>3. n \in Nat \ {0} /\ DOMAIN gs = 1 .. n /\ gs[n] = g BY <1>2 DEF gs
<1> DEFINE vs == [i \in DOMAIN gs |-> ValueOf(gs[i])]
<1>4. Len(vs) = n /\ vs[n] = ValueOf(g) BY <1>3
<1> HIDE DEF vs
<1>5. Last(vs) = ValueOf(g) BY <1>4 DEF Last
<1> QED BY <1>1, <1>5 DEF vs

(* What is given by two options that are given once each. *)
LEMMA GivenOnce ==
  ASSUME NEW r, NEW g1, NEW g2, Reads(r, <<g1, g2>>, NoFlag), g1.key # g2.key
  PROVE  /\ Has(r, g1.key) /\ Has(r, g2.key)
         /\ Value(r, g1.key) = ValueOf(g1) /\ Value(r, g2.key) = ValueOf(g2)
         /\ \A key : Has(r, key) => key \in {g1.key, g2.key}
         /\ {r.groups[i].key : i \in DOMAIN r.groups} = {g1.key, g2.key}
<1> DEFINE s == <<g1, g2>>
           G == {g1, g2}
<1>1. r.groups = s BY DEF Reads
<1>2. s \in Seq(G) /\ DOMAIN s = {1, 2} /\ s[1] = g1 /\ s[2] = g2 OBVIOUS
<1> HIDE DEF s
<1>3. Of(r, g1.key) = {1} /\ Of(r, g2.key) = {2} BY <1>1, <1>2 DEF Of
<1>4. \A key : key \notin {g1.key, g2.key} => Of(r, key) = {} BY <1>1, <1>2 DEF Of
<1>5. r.groups \in Seq(G) BY <1>1, <1>2
<1> HIDE DEF G
<1>6. \A key : Has(r, key) <=> Of(r, key) # {} BY <1>5, GivenIs
<1>7. Has(r, g1.key) /\ Has(r, g2.key) BY <1>3, <1>6
<1>8. ASSUME NEW g \in {g1, g2} PROVE Value(r, g.key) = ValueOf(g)
  <2>1. Given(r, g.key) \in Seq({r.groups[i] : i \in Of(r, g.key)}) BY <1>5, GivenIs
  <2>2. {r.groups[i] : i \in Of(r, g.key)} = {g} BY <1>1, <1>2, <1>3
  <2>3. Has(r, g.key) BY <1>7
  <2>4. Given(r, g.key) \in Seq({g}) BY <2>1, <2>2
  <2> QED BY <2>3, <2>4, LastOf
<1>15. {r.groups[i].key : i \in DOMAIN r.groups} = {g1.key, g2.key} BY <1>1, <1>2
<1> QED BY <1>4, <1>6, <1>7, <1>8, <1>15

(* A call of ssh-proxy with one option and the name of the sandbox. *)
CallsWith(o, f, v, s) ==
  /\ o.how = "called" /\ o.op = "ssh-proxy"
  /\ DOMAIN o.meaning = {f, "--name"}
  /\ o.meaning[f].key = v /\ o.meaning["--name"] = s

(* What comes of the command line in a block: the call, and not a help text. *)
LEMMA ProxyCalled ==
  ASSUME NEW f \in {"--server", "--gateway-name"}, NEW v, v # "help", NEW s \in SandboxArgs
  PROVE  CallsWith(SSHProxyFor(<<Flag(f), Word(v)>>, s), f, v, s)
<1> DEFINE x == Word("ssh-proxy")
           h == Flag(f)
           w == Word(v)
           m == Flag("--name")
           A == {x, h, w, m, s, NoFlag}
           t == <<x, h, w, m, s>>
           c == SSHProxyCommand
           rest == <<h, w, m, s>>
           r == Scan(SSHProxy, rest)
           g1 == Group(f, <<h, w>>)
           g2 == Group("--name", <<m, s>>)
<1>1. /\ ~x.dash /\ x.key = "ssh-proxy" /\ h.dash /\ ~h.eq /\ h.key = f /\ ~w.dash /\ w.key = v
      /\ m.dash /\ ~m.eq /\ m.key = "--name"
  BY DashOf
<1>2. x \in A /\ h \in A /\ w \in A /\ m \in A /\ s \in A OBVIOUS
<1>3. t \notin {<<>>} /\ t[1] = x OBVIOUS
<1>4. \A i \in DOMAIN t : t[i] \in {x, h, w, m, s} OBVIOUS
<1>5. x = Word("ssh-proxy") OBVIOUS
<1>6. SSHProxyFor(<<h, w>>, s) = Executed(<<x>> \o <<h, w>> \o <<m, s>>) BY Zenon DEF SSHProxyFor
<1> HIDE DEF x, h, w, m, A
<1>7. Five(A, x, h, w, m, s) BY <1>2, FiveOf
<1>8. SSHProxyFor(<<h, w>>, s) = Executed(t) BY <1>6, <1>7, Zenon DEF Five
<1>9. Rest(t) = t BY <1>1, <1>2, FiveRest
<1>10. ~WantsHelp(t)
  <2>1. HelpWords = {Flag("-h"), Flag("--help"), Word("help")} BY DEF HelpWords
  <2>2. /\ Flag("-h").dash /\ Flag("--help").dash /\ ~Word("help").dash
        /\ Flag("-h").key = "-h" /\ Flag("--help").key = "--help" /\ Word("help").key = "help"
    BY DashOf
  <2>3. x \notin HelpWords /\ h \notin HelpWords /\ w \notin HelpWords /\ m \notin HelpWords
    BY <1>1, <2>1, <2>2
  <2>4. s \notin HelpWords BY DEF SandboxArgs
  <2> HIDE DEF t
  <2> QED BY <1>4, <2>3, <2>4 DEF WantsHelp
<1>11. t \in Seq(A) BY <1>2
<1>12. /\ t # <<>> /\ SubSeq(t, 2, Len(t)) = rest
  <2>1. Len(t) = 5 OBVIOUS
  <2>2. SubSeq(t, 2, 5) = rest BY <1>7, Zenon DEF Five
  <2> QED BY <1>3, <2>1, <2>2
<1> HIDE DEF t, rest
<1>13. Executed(t) = Called(t) BY <1>9, <1>10, <1>12, Zenon DEF Executed
<1>14. Matching(t) # {} /\ Matched(t) = c BY <1>3, <1>5, <1>11, <1>12, ProxyFound
<1>15. c.op = "ssh-proxy" /\ c.grammar = SSHProxy /\ Len(c.path) = 1
  BY DEF SSHProxyCommand, Top, Is
<1> HIDE DEF c
<1>16. After(c, t) = rest
  <2>1. Len(c.path) + 1 = 2 BY <1>15
  <2> QED BY <1>12, <2>1 DEF After
<1>17. Reads(r, <<g1, g2>>, NoFlag)
  <2>1. /\ Options(SSHProxy) /\ SSHProxy.bare = {} /\ h.key \in SSHProxy.value /\ m.key \in SSHProxy.value
        /\ Key(SSHProxy, h.key) = h.key /\ Key(SSHProxy, m.key) = m.key /\ h.key # "--"
    BY <1>1, ProxyParser
  <2>2. Reads(Scan(SSHProxy, <<h, w, m, s>>), <<Group(h.key, <<h, w>>), Group(m.key, <<m, s>>)>>, NoFlag)
    BY <1>1, <1>2, <2>1, FourRead
  <2> QED BY <2>2, <1>1 DEF rest
<1>18. g1.key = f /\ g2.key = "--name" /\ g1.args = <<h, w>> /\ g2.args = <<m, s>> BY DEF Group
<1> HIDE DEF r, g1, g2
<1>19. g1.key # g2.key BY <1>18
<1>20. /\ Has(r, f) /\ Has(r, "--name") /\ Value(r, f) = ValueOf(g1) /\ Value(r, "--name") = ValueOf(g2)
       /\ \A key : Has(r, key) => key \in {f, "--name"}
       /\ {r.groups[i].key : i \in DOMAIN r.groups} = {f, "--name"}
  BY <1>17, <1>18, <1>19, GivenOnce
<1>21. ValueOf(g1) = w /\ ValueOf(g2) = s
  <2>1. Len(<<h, w>>) = 2 /\ <<h, w>>[2] = w /\ Len(<<m, s>>) = 2 /\ <<m, s>>[2] = s OBVIOUS
  <2> QED BY <1>18, <2>1 DEF ValueOf
<1>22. Complete(SSHProxy, r)
  <2>1. ~r.refused /\ r.open = NoFlag BY <1>17 DEF Reads
  <2>2. Len(r.groups) >= Len(SSHProxy.lead)
    <3>1. r.groups = <<g1, g2>> BY <1>17 DEF Reads
    <3>2. SSHProxy.lead = <<>> BY ProxyParser DEF Options
    <3> QED BY <3>1, <3>2
  <2>3. SSHProxy.needs = {{"--token", "--name"}} BY ProxyParser
  <2> QED BY <2>1, <2>2, <2>3, <1>20 DEF Complete
<1>23. Sensible("ssh-proxy", r)
  <2>1. ~Has(r, "--token") BY <1>20
  <2> DEFINE op == "ssh-proxy"
  <2>2. /\ op = "ssh-proxy" /\ op # "sandbox.connect" /\ op # "sandbox.list" /\ op # "doctor.cleanup"
        /\ op \notin {"member.add", "member.rm"} /\ op # "provider.refresh.configure"
        /\ op \notin Profile
    BY DEF Profile
  <2> HIDE DEF op
  <2>3. Sensible(op, r) BY <2>1, <2>2 DEF Sensible
  <2> QED BY <2>2, <2>3
<1>24. Called(t) = [how |-> "called", op |-> c.op, meaning |-> Meaning(c.op, SSHProxy, r), groups |-> r.groups]
  <2> DEFINE q == Scan(c.grammar, After(c, t))
  <2>1. q = r BY <1>15, <1>16 DEF r
  <2>2. Called(t) = IF Complete(c.grammar, q) /\ Sensible(c.op, q)
                    THEN [how |-> "called", op |-> c.op, meaning |-> Meaning(c.op, c.grammar, q),
                          groups |-> q.groups]
                    ELSE Ends("refused")
    BY <1>14, Zenon DEF Called
  <2> HIDE DEF q
  <2> QED BY <2>1, <2>2, <1>15, <1>22, <1>23, Zenon
<1> DEFINE o == SSHProxyFor(<<h, w>>, s)
<1>25. o = Called(t) BY <1>8, <1>13
<1> HIDE DEF o
<1>26. o.how = "called" /\ o.op = "ssh-proxy" /\ o.meaning = Meaning("ssh-proxy", SSHProxy, r)
  BY <1>15, <1>24, <1>25
<1>27. Meaning("ssh-proxy", SSHProxy, r) = Fields(SSHProxy, r)
  <2>1. SSHProxy.many = {} /\ "--gateway" \notin {f, "--name"} BY ProxyParser
  <2> QED BY <2>1, <1>20, AllPassed
<1>28. /\ DOMAIN Fields(SSHProxy, r) = {f, "--name"} /\ Fields(SSHProxy, r)[f] = w
       /\ Fields(SSHProxy, r)["--name"] = s
  <2>1. Fields(SSHProxy, r) = [key \in {f, "--name"} |->
          IF key = "--" THEN Command(r) ELSE IF key \in SSHProxy.many THEN Values(r, key) ELSE Value(r, key)]
    BY <1>20 DEF Fields
  <2>2. SSHProxy.many = {} /\ f # "--" BY ProxyParser
  <2> QED BY <2>1, <2>2, <1>20, <1>21
<1>29. CallsWith(o, f, v, s) BY <1>1, <1>26, <1>27, <1>28 DEF CallsWith
<1> QED BY <1>29 DEF o, h, w

(* Where a call leads, whatever is in the environment. *)
Reaches(proxy) ==
  \A e \in Environs :
    /\ proxy.called.how = "called" /\ proxy.called.op = "ssh-proxy"
    /\ \/ ResolveGatewayURL(conf, e, proxy.called.meaning) \in {proxy.for, ""}
       \/ NamedMoved(proxy)

(* The arguments of a block name the gateway, and so nothing else does. *)
LEMMA LeadsReaches ==
  ASSUME NEW g \in GatewayArgs, NEW u \in Urls, NEW s \in SandboxArgs, Leads(g, u)
  PROVE  Reaches(ProxyCommand(SSHProxyFor(g, s), u))
<1> DEFINE proxy == ProxyCommand(SSHProxyFor(g, s), u)
           o == SSHProxyFor(g, s)
<1>1. proxy.called = o /\ proxy.for = u BY DEF ProxyCommand
<1> HIDE DEF proxy, o
<1>2. SUFFICES ASSUME NEW e \in Environs
               PROVE  /\ o.how = "called" /\ o.op = "ssh-proxy"
                      /\ \/ ResolveGatewayURL(conf, e, o.meaning) \in {u, ""}
                         \/ /\ "--gateway-name" \in DOMAIN o.meaning
                            /\ <<o.meaning["--gateway-name"].key, u>> \in moved
  BY <1>1 DEF Reaches, NamedMoved, proxy
<1>3. CASE g = ByUrl(u)
  <2>1. u # "help" BY SshAssumption
  <2>2. CallsWith(o, "--server", u, s)
    <3>1. g = <<Flag("--server"), Word(u)>> BY <1>3 DEF ByUrl
    <3>2. CallsWith(SSHProxyFor(<<Flag("--server"), Word(u)>>, s), "--server", u, s) BY <2>1, ProxyCalled
    <3> QED BY <3>1, <3>2 DEF o
  <2>3. ResolveGatewayURL(conf, e, o.meaning) = u BY <2>2, Zenon DEF CallsWith, ResolveGatewayURL
  <2> QED BY <2>2, <2>3 DEF CallsWith
<1>4. ASSUME NEW n \in Names, g = ByName(n), UrlOf(conf, n) = u \/ <<n, u>> \in moved
      PROVE  /\ o.how = "called" /\ o.op = "ssh-proxy"
             /\ \/ ResolveGatewayURL(conf, e, o.meaning) \in {u, ""}
                \/ "--gateway-name" \in DOMAIN o.meaning /\ <<o.meaning["--gateway-name"].key, u>> \in moved
  <2>1. n # "help" BY SshAssumption
  <2>2. CallsWith(o, "--gateway-name", n, s)
    <3>1. g = <<Flag("--gateway-name"), Word(n)>> BY <1>4 DEF ByName
    <3>2. CallsWith(SSHProxyFor(<<Flag("--gateway-name"), Word(n)>>, s), "--gateway-name", n, s)
      BY <2>1, ProxyCalled
    <3> QED BY <3>1, <3>2 DEF o
  <2>3. "--server" \notin DOMAIN o.meaning
    <3>1. "--server" \notin {"--gateway-name", "--name"} OBVIOUS
    <3> QED BY <2>2, <3>1 DEF CallsWith
  <2>4. ResolveGatewayURL(conf, e, o.meaning) = UrlOf(conf, n)
    BY <2>2, <2>3, Zenon DEF CallsWith, ResolveGatewayURL
  <2> QED BY <2>2, <2>4, <1>4, Zenon DEF CallsWith
<1> QED BY <1>3, <1>4 DEF Leads

(* ... and the sandbox. *)
LEMMA CallsNamed ==
  ASSUME NEW g \in GatewayArgs, NEW u \in Urls, NEW s \in SandboxArgs, Leads(g, u)
  PROVE  SSHProxyFor(g, s).meaning["--name"] = s
<1>1. PICK f \in {"--server", "--gateway-name"}, v \in Names \cup Urls : g = <<Flag(f), Word(v)>>
  BY DEF Leads, ByUrl, ByName
<1>2. v # "help" BY SshAssumption
<1>3. CallsWith(SSHProxyFor(<<Flag(f), Word(v)>>, s), f, v, s) BY <1>2, ProxyCalled
<1> QED BY <1>1, <1>3 DEF CallsWith

(* A block's command reaches its gateway. *)
LEMMA PrintedReaches ==
  ASSUME CommandInv, NEW t \in Terminals, block[t] # <<>>
  PROVE  Reaches(block[t][3])
<1>1. TerminalInv(t) BY DEF CommandInv
<1>2. Rendered(t) /\ pc[t] # "idle" /\ job[t].sandbox \in SandboxArgs BY <1>1 DEF TerminalInv, JobTyped
<1>3. PICK g \in GatewayArgs, u \in Urls : Leads(g, u) /\ block[t] = BlockOf(job[t].sandbox, g, u)
  BY <1>2 DEF Rendered
<1>4. block[t][3] = ProxyCommand(SSHProxyFor(g, job[t].sandbox), u) BY <1>3 DEF BlockOf
<1> QED BY <1>2, <1>3, <1>4, LeadsReaches

(* A block's first line names its sandbox, and its command calls it by name. *)
LEMMA PrintedNames ==
  ASSUME CommandInv, NEW t \in Terminals, block[t] # <<>>
  PROVE  block[t][1] = Host({job[t].sandbox}) /\ block[t][3].called.meaning["--name"] = job[t].sandbox
<1>1. TerminalInv(t) BY DEF CommandInv
<1>2. Rendered(t) /\ pc[t] # "idle" /\ job[t].sandbox \in SandboxArgs BY <1>1 DEF TerminalInv, JobTyped
<1>3. PICK g \in GatewayArgs, u \in Urls : Leads(g, u) /\ block[t] = BlockOf(job[t].sandbox, g, u)
  BY <1>2 DEF Rendered
<1> DEFINE o == SSHProxyFor(g, job[t].sandbox)
<1>4. o.meaning["--name"] = job[t].sandbox BY <1>2, <1>3, CallsNamed
<1> HIDE DEF o
<1>5. block[t][1] = Host({job[t].sandbox}) /\ block[t][3] = ProxyCommand(o, u) BY <1>3 DEF BlockOf, o
<1>6. ProxyCommand(o, u).called = o BY DEF ProxyCommand
<1> QED BY <1>4, <1>5, <1>6

(* A host that was installed is found, once and with a command that an       *)
(* installer made for it and that names its sandbox: for every file the user *)
(* had and whoever wrote to the files.  The Include is missing only where    *)
(* the user has written their file since, or had the Include below a block;  *)
(* the block only where an installer wrote over it without having read it.   *)
THEOREM InstalledStays == SshSpec => []InstalledFound
<1>1. CommandInv /\ FilesInv => InstalledFound
  <2> SUFFICES ASSUME CommandInv, FilesInv, NEW t \in Terminals, pc[t] = "done", job[t].install
               PROVE  LET s == job[t].sandbox
                          found == {managed[i] : i \in Proxies(managed, s)}
                      IN  /\ Included \/ t \in outdated \/ (byUser /\ Include \in ToSet(user))
                          /\ s \notin raced =>
                               /\ Cardinality(Proxies(managed, s)) = 1
                               /\ \E u \in Terminals : block[u] # <<>> /\ found = {block[u][3]}
                               /\ \A proxy \in found : proxy.called.meaning["--name"] = s
    BY DEF InstalledFound
  <2> DEFINE s == job[t].sandbox
             P == Proxies(managed, s)
             found == {managed[i] : i \in P}
  <2>1. /\ UserHas \/ t \in outdated
        /\ s \notin raced => s \in Sandboxes(managed)
    BY DEF FilesInv, FilesFor
  <2>2. Included \/ t \in outdated \/ (byUser /\ Include \in ToSet(user))
    BY <2>1 DEF Included, IncludedIn, UserHas
  <2>3. Blocks(RenderedBlocks) BY RenderedAreBlocks
  <2>4. Shaped(RenderedBlocks, managed) BY DEF FilesInv
  <2> HIDE DEF s
  <2>5. ASSUME s \notin raced
        PROVE  /\ Cardinality(P) = 1
               /\ \E u \in Terminals : block[u] # <<>> /\ found = {block[u][3]}
               /\ \A proxy \in found : proxy.called.meaning["--name"] = s
    <3>1. PICK i, b : b \in RenderedBlocks /\ b[1] = Host({s}) /\ P = {i} /\ managed[i] = b[3]
      BY <2>1, <2>3, <2>4, <2>5, HostFound
    <3> HIDE DEF P
    <3>2. Cardinality(P) = 1 BY <3>1, FS_Singleton
    <3>3. PICK u \in Terminals : b = block[u] /\ block[u] # <<>> BY <3>1 DEF RenderedBlocks
    <3>4. found = {block[u][3]} BY <3>1, <3>3
    <3> HIDE DEF found
    <3>5. block[u][3].called.meaning["--name"] = s
      <4>1. Host({job[u].sandbox}) = Host({s}) BY <3>1, <3>3, PrintedNames
      <4>2. {job[u].sandbox} = {s} BY <4>1, Kinds
      <4>3. job[u].sandbox = s BY <4>2
      <4> QED BY <3>3, <4>3, PrintedNames
    <3> QED BY <3>2, <3>3, <3>4, <3>5
  <2> QED BY <2>2, <2>5 DEF s, P, found
<1> QED BY <1>1, FilesInvAlways, PTL

(* A ProxyCommand in the file is that of a block. *)
LEMMA WrittenPrinted ==
  ASSUME NEW B, Blocks(B), NEW lines, Shaped(B, lines), NEW i \in DOMAIN lines, lines[i].kind = "proxy"
  PROVE  \E b \in B : lines[i] = b[3]
<1>1. lines \in Seq(ManagedLine) BY DEF Shaped
<1>2. i \in Nat BY <1>1
<1>3. CASE BlockAt(B, lines, i)
  <2>1. lines[i].kind = "host" BY <1>3, BlockLines
  <2> QED BY <2>1
<1>4. CASE i > 1 /\ BlockAt(B, lines, i - 1)
  <2>1. lines[(i - 1) + 1].kind = "setting" BY <1>4, BlockLines
  <2>2. (i - 1) + 1 = i BY <1>2
  <2> QED BY <2>1, <2>2
<1>5. CASE i > 2 /\ BlockAt(B, lines, i - 2)
  <2>1. \E b \in B : lines[(i - 2) + 2] = b[3] BY <1>5 DEF BlockAt
  <2>2. (i - 2) + 2 = i BY <1>2
  <2> QED BY <2>1, <2>2
<1>6. CASE lines[i] = Blank
  <2>1. lines[i].kind = "blank" BY <1>6, Kinds
  <2> QED BY <2>1
<1> QED BY <1>3, <1>4, <1>5, <1>6 DEF Shaped

(* A host leads to the gateway that was the current one when its block was  *)
(* made, or to none, unless it goes by a name that was given another URL    *)
(* since: for every line that was typed, every change of the gateways, and  *)
(* whatever is in the environment of ssh(1).                                *)
THEOREM AliasLeads == SshSpec => []AliasReaches
<1>1. ASSUME CommandInv, FilesInv PROVE AliasReaches
  <2> DEFINE printed == {block[t][3] : t \in {u \in Terminals : block[u] # <<>>}}
             written == {managed[i] : i \in {j \in DOMAIN managed : managed[j].kind = "proxy"}}
  <2>1. ASSUME NEW p \in printed PROVE Reaches(p)
    <3>1. PICK t \in Terminals : block[t] # <<>> /\ p = block[t][3] OBVIOUS
    <3> QED BY <3>1, <1>1, PrintedReaches
  <2>2. ASSUME NEW p \in written PROVE Reaches(p)
    <3>1. PICK i \in DOMAIN managed : p = managed[i] /\ managed[i].kind = "proxy" OBVIOUS
    <3>2. Blocks(RenderedBlocks) BY <1>1, RenderedAreBlocks
    <3>3. Shaped(RenderedBlocks, managed) BY <1>1 DEF FilesInv
    <3>4. PICK b \in RenderedBlocks : managed[i] = b[3] BY <3>1, <3>2, <3>3, WrittenPrinted
    <3>5. PICK t \in Terminals : b = block[t] /\ block[t] # <<>> BY DEF RenderedBlocks
    <3> QED BY <3>1, <3>4, <3>5, <1>1, PrintedReaches
  <2> HIDE DEF printed, written
  <2>3. \A p \in printed \cup written : Reaches(p) BY <2>1, <2>2
  <2> QED BY <2>3, Zenon DEF AliasReaches, Reaches, printed, written
<1> QED BY <1>1, FilesInvAlways, PTL

----------------------------------------------------------------------------
(* The order of the options *)

First(g) == g.lead \o g.then

(* What the proof needs of a grammar: only what begins the command for a    *)
(* sandbox has the key "--", and where no flag may be given twice there are *)
(* no words.                                                                *)
WellFormed(g) ==
  /\ Len(First(g)) \in Nat /\ DOMAIN First(g) = 1 .. Len(First(g))
  /\ \A i \in 1 .. Len(First(g)) : First(g)[i] # "--"
  /\ g.slot # "--" /\ \A f \in g.value \cup g.bare : Key(g, f) # "--"
  /\ g.once => g.words = "none"

(* What may begin a group that is not one of the first ones. *)
IsFlag(g, a) == ~(g.sep /\ a = Dashes) /\ Known(g, a)
IsWord(g, a) == ~(g.sep /\ a = Dashes) /\ ~Known(g, a) /\ Accepts(g, a)
Several(g) == g.words \in {"last", "list", "any"}

(* A key, or a flag, in the groups before one. *)
Before(gs, k, key) == \E j \in 1 .. k - 1 : gs[j].key = key
Repeated(g, gs, k, a) == g.once /\ \E j \in 1 .. k - 1 : gs[j].args[1].key = a.key

LeadAt(g, gs, k, a) ==
  k <= Len(First(g)) /\ gs[k] = Group(First(g)[k], <<a>>) /\ Fits(Must(g, First(g)[k]), a)

FlagAt(g, A, gs, k, a) ==
  /\ IsFlag(g, a) /\ ~Repeated(g, gs, k, a)
  /\ \/ a.key \in g.bare /\ gs[k] = Group(Key(g, a.key), <<a>>)
     \/ a.key \notin g.bare /\ a.eq /\ gs[k] = Group(Key(g, a.key), <<a>>)
        /\ Fits(Must(g, Key(g, a.key)), Word(a.val))
     \/ /\ a.key \notin g.bare /\ ~a.eq
        /\ \E v \in A : /\ gs[k] = Group(Key(g, a.key), <<a, v>>) /\ ~(g.once /\ v.dash)
                        /\ Fits(Must(g, Key(g, a.key)), v)

WordAt(g, gs, k, a) ==
  IsWord(g, a) /\ gs[k] = Group(g.slot, <<a>>) /\ (Several(g) \/ ~Before(gs, k, g.slot))

BeginsCommand(g, gs, k, a) ==
  \/ g.sep /\ a = Dashes
  \/ IsWord(g, a) /\ ~Several(g) /\ Before(gs, k, g.slot) /\ g.words = "command"
  \/ ~(g.sep /\ a = Dashes) /\ ~Known(g, a) /\ ~Accepts(g, a) /\ g.words = "stop"

CommandAt(g, gs, k, a) ==
  gs[k].key = "--" /\ gs[k].args # <<>> /\ gs[k].args[1] = a /\ BeginsCommand(g, gs, k, a)

(* A group the loop may have read after the ones before it. *)
ReadAt(g, A, gs, k) ==
  /\ k > 1 => gs[k - 1].key # "--"
  /\ \E a \in A :
       \/ LeadAt(g, gs, k, a)
       \/ k > Len(First(g)) /\ (FlagAt(g, A, gs, k, a) \/ WordAt(g, gs, k, a) \/ CommandAt(g, gs, k, a))

(* Whether it may depends on nothing else. *)
LEMMA ReadSame ==
  ASSUME NEW g, NEW A, NEW gs, NEW hs, NEW k \in Nat \ {0}, \A j \in 1 .. k : gs[j] = hs[j],
         ReadAt(g, A, gs, k)
  PROVE  ReadAt(g, A, hs, k)
<1>1. gs[k] = hs[k] /\ (k > 1 => gs[k - 1] = hs[k - 1]) OBVIOUS
<1>2. \A j \in 1 .. k - 1 : gs[j] = hs[j] OBVIOUS
<1>3. \A key : Before(gs, k, key) <=> Before(hs, k, key) BY <1>2 DEF Before
<1>4. \A a : Repeated(g, gs, k, a) <=> Repeated(g, hs, k, a) BY <1>2 DEF Repeated
<1>5. PICK a \in A :
        \/ LeadAt(g, gs, k, a)
        \/ k > Len(First(g)) /\ (FlagAt(g, A, gs, k, a) \/ WordAt(g, gs, k, a) \/ CommandAt(g, gs, k, a))
  BY DEF ReadAt
<1>6. LeadAt(g, gs, k, a) => LeadAt(g, hs, k, a) BY <1>1 DEF LeadAt
<1>7. FlagAt(g, A, gs, k, a) => FlagAt(g, A, hs, k, a) BY <1>1, <1>4 DEF FlagAt
<1>8. WordAt(g, gs, k, a) => WordAt(g, hs, k, a) BY <1>1, <1>3 DEF WordAt
<1>9. CommandAt(g, gs, k, a) => CommandAt(g, hs, k, a) BY <1>1, <1>3 DEF CommandAt, BeginsCommand
<1>10. k > 1 => hs[k - 1].key # "--" BY <1>1 DEF ReadAt
<1> QED BY <1>5, <1>6, <1>7, <1>8, <1>9, <1>10 DEF ReadAt

(* Groups that were read, one after the other. *)
AllRead(g, A, gs) == \A k \in DOMAIN gs : ReadAt(g, A, gs, k)

(* One group more. *)
LEMMA OneRead ==
  ASSUME NEW g, NEW A, NEW G, NEW gs \in Seq(G), NEW gr \in G, NEW more, more = Append(gs, gr)
  PROVE  AllRead(g, A, more) <=> AllRead(g, A, gs) /\ ReadAt(g, A, more, Len(gs) + 1)
<1> DEFINE n == Len(gs)
<1>1. /\ n \in Nat /\ DOMAIN gs = 1 .. n /\ DOMAIN more = 1 .. n + 1
      /\ \A i \in 1 .. n : more[i] = gs[i]
  <2>1. more \in Seq(G) /\ Len(more) = n + 1 /\ \A i \in 1 .. n : more[i] = gs[i]
    BY AppendProperties
  <2> QED BY <2>1
<1> HIDE DEF n
<1>2. ASSUME NEW k \in 1 .. n PROVE ReadAt(g, A, gs, k) <=> ReadAt(g, A, more, k)
  <2>1. k \in Nat \ {0} /\ \A j \in 1 .. k : j \in 1 .. n BY <1>1
  <2>2. \A j \in 1 .. k : gs[j] = more[j] BY <1>1, <2>1
  <2>3. \A j \in 1 .. k : more[j] = gs[j] BY <2>2
  <2> QED BY <2>1, <2>2, <2>3, ReadSame
<1>3. \A k \in 1 .. n + 1 : k \in 1 .. n \/ k = n + 1 BY <1>1
<1>4. \A k \in 1 .. n : k \in 1 .. n + 1 BY <1>1
<1>5. n + 1 \in 1 .. n + 1 BY <1>1
<1> QED BY <1>1, <1>2, <1>3, <1>4, <1>5 DEF AllRead, n

(* The flag that waits for its value. *)
OpenRead(g, r) ==
  r.open # NoFlag =>
    /\ ~InCommand(r) /\ Len(r.groups) >= Len(First(g)) /\ IsFlag(g, r.open)
    /\ ~Repeated(g, r.groups, Len(r.groups) + 1, r.open) /\ r.open.key \notin g.bare /\ ~r.open.eq

GroupsRead(g, A, r) == AllRead(g, A, r.groups) /\ OpenRead(g, r)

(* What is before the next group. *)
NextIs(g, r, k, gr, more) ==
  /\ more[k] = gr
  /\ \A key : Before(more, k, key) <=> Has(r, key)
  /\ \A a : Repeated(g, more, k, a) <=> Repeats(g, r, a)
  /\ ~InCommand(r) => (k > 1 => more[k - 1].key # "--")

(* A group more comes after all that has been read. *)
LEMMA NextGroup ==
  ASSUME NEW g, NEW A, NEW r, Sound(g, A, r), NEW gr, NEW more, more = Append(r.groups, gr),
         NEW k, k = Len(r.groups) + 1
  PROVE  /\ NextIs(g, r, k, gr, more)
         /\ \A a : Repeated(g, r.groups, k, a) <=> Repeats(g, r, a)
<1> DEFINE n == Len(r.groups)
           G == GroupsOf(g, A)
           s == r.groups
<1>1. s \in Seq(G) BY DEF Sound, Readings
<1> HIDE DEF G
<1>2. n \in Nat /\ DOMAIN s = 1 .. n /\ (n + 1) - 1 = n BY <1>1
<1>3. more[n + 1] = gr /\ \A i \in 1 .. n : more[i] = s[i]
  <2> DEFINE H == G \cup {gr}
  <2>1. s \in Seq(H) /\ gr \in H BY <1>1
  <2> HIDE DEF H
  <2> QED BY <2>1, AppendProperties
<1>4. \A key : Has(r, key) <=> \E i \in 1 .. n : s[i].key = key
  <2>1. \A key : Has(r, key) <=> Of(r, key) # {} BY <1>1, GivenIs
  <2> QED BY <2>1, <1>2 DEF Of
<1>5. \A key : Before(more, n + 1, key) <=> Has(r, key) BY <1>2, <1>3, <1>4 DEF Before
<1>6. \A a : Repeated(g, more, n + 1, a) <=> Repeats(g, r, a) BY <1>2, <1>3 DEF Repeated, Repeats
<1>7. \A a : Repeated(g, s, n + 1, a) <=> Repeats(g, r, a) BY <1>2 DEF Repeated, Repeats
<1>8. n + 1 > 1 => more[(n + 1) - 1] = Last(s)
  <2>1. n + 1 > 1 => n \in 1 .. n BY <1>2
  <2> QED BY <1>2, <1>3, <2>1 DEF Last
<1>9. ~InCommand(r) => (n + 1 > 1 => more[(n + 1) - 1].key # "--")
  <2>1. n + 1 > 1 => s # <<>> BY <1>2
  <2> QED BY <1>8, <2>1 DEF InCommand
<1> QED BY <1>2, <1>3, <1>5, <1>6, <1>7, <1>8, <1>9 DEF NextIs

(* A group is taken. *)
LEMMA TakenRead ==
  ASSUME NEW g, NEW A, NEW r, Sound(g, A, r), GroupsRead(g, A, r), NEW key, NEW args,
         ReadAt(g, A, Append(r.groups, Group(key, args)), Len(r.groups) + 1)
  PROVE  GroupsRead(g, A, Taken(r, key, args))
<1> DEFINE gr == Group(key, args)
           q == Taken(r, key, args)
           more == Append(r.groups, gr)
           G == GroupsOf(g, A) \cup {gr}
<1>1. r = [groups |-> r.groups, open |-> r.open, refused |-> r.refused] /\ r.groups \in Seq(G) /\ gr \in G
  BY DEF Sound, Readings
<1> HIDE DEF gr, G
<1>2. q = [r EXCEPT !.groups = Append(@, gr), !.open = NoFlag] BY Zenon DEF Taken, gr
<1>3. q.groups = more /\ q.open = NoFlag BY <1>1, <1>2
<1> HIDE DEF q
<1>4. AllRead(g, A, more)
  <2>1. AllRead(g, A, r.groups) BY DEF GroupsRead
  <2>2. ReadAt(g, A, more, Len(r.groups) + 1) BY DEF gr
  <2> HIDE DEF more
  <2>3. more = Append(r.groups, gr) BY DEF more
  <2> QED BY <2>1, <2>2, <2>3, <1>1, OneRead
<1>5. GroupsRead(g, A, q) BY <1>3, <1>4 DEF GroupsRead, OpenRead
<1> QED BY <1>5 DEF q

(* An argument more of the command for a sandbox. *)
LEMMA CommandRead ==
  ASSUME NEW g, WellFormed(g), NEW A, NEW r, Sound(g, A, r), GroupsRead(g, A, r), InCommand(r), r.open = NoFlag,
         NEW a \in A, NEW more, Longer(r.groups, a, more)
  PROVE  AllRead(g, A, more)
<1> DEFINE s == r.groups
           n == Len(s)
           K == KeysOf(g, A)
           G == Groups(K, A)
<1>1. s \in Seq(G) /\ s # <<>> /\ s[n].key = "--"
  BY DEF Sound, Readings, GroupsOf, InCommand, Last
<1>2. n \in Nat \ {0} /\ DOMAIN s = 1 .. n BY <1>1
<1>3. s[n] \in G BY <1>1, <1>2
<1> DEFINE new == [s[n] EXCEPT !.args = Append(s[n].args, a)]
<1>4. more = [s EXCEPT ![n] = new] BY DEF Longer
<1>5. DOMAIN more = 1 .. n /\ more[n] = new /\ \A i \in 1 .. n : i # n => more[i] = s[i]
  BY <1>2, <1>4
<1>6. s[n].args \in Seq(A) /\ new.key = "--" /\ new.args = Append(s[n].args, a)
  BY <1>1, <1>3 DEF Groups
<1>7. AllRead(g, A, s) BY DEF GroupsRead
<1> HIDE DEF s, n, G, new
<1>8. ASSUME NEW k \in 1 .. n, k # n PROVE ReadAt(g, A, more, k)
  <2>1. k \in Nat \ {0} BY <1>2
  <2>2. \A j \in 1 .. k : s[j] = more[j] BY <1>2, <1>5, <1>8
  <2>3. ReadAt(g, A, s, k) BY <1>2, <1>7 DEF AllRead
  <2> QED BY <2>1, <2>2, <2>3, ReadSame
<1>9. ReadAt(g, A, more, n)
  <2>1. ReadAt(g, A, s, n) BY <1>2, <1>7 DEF AllRead
  <2>2. PICK b \in A :
          \/ LeadAt(g, s, n, b)
          \/ n > Len(First(g)) /\ (FlagAt(g, A, s, n, b) \/ WordAt(g, s, n, b) \/ CommandAt(g, s, n, b))
    BY <2>1 DEF ReadAt
  <2>3. \A key, args : Group(key, args).key = key BY DEF Group
  <2>4. ~LeadAt(g, s, n, b)
    <3>1. LeadAt(g, s, n, b) => n \in 1 .. Len(First(g)) BY <1>2 DEF LeadAt, WellFormed
    <3> QED BY <3>1, <2>3, <1>1 DEF LeadAt, WellFormed, s, n
  <2>5. ~FlagAt(g, A, s, n, b)
    <3>1. FlagAt(g, A, s, n, b) => b.key \in g.value \cup g.bare BY DEF FlagAt, IsFlag, Known
    <3>2. FlagAt(g, A, s, n, b) => s[n].key = Key(g, b.key) BY <2>3 DEF FlagAt
    <3> QED BY <3>1, <3>2, <1>1 DEF WellFormed, s, n
  <2>6. ~WordAt(g, s, n, b) BY <2>3, <1>1 DEF WordAt, WellFormed, s, n
  <2>7. n > Len(First(g)) /\ CommandAt(g, s, n, b) BY <2>2, <2>4, <2>5, <2>6
  <2>8. \A key : Before(s, n, key) <=> Before(more, n, key)
    <3>1. \A j \in 1 .. n - 1 : j \in 1 .. n /\ j # n BY <1>2
    <3> QED BY <3>1, <1>5 DEF Before
  <2>9. new.args # <<>> /\ new.args[1] = b
    <3>1. s[n].args # <<>> /\ s[n].args[1] = b BY <2>7 DEF CommandAt
    <3> QED BY <3>1, <1>6, AppendProperties
  <2>10. CommandAt(g, more, n, b) BY <2>7, <2>8, <2>9, <1>5, <1>6 DEF CommandAt, BeginsCommand
  <2>11. n > 1 => more[n - 1].key # "--"
    <3>1. n > 1 => n - 1 \in 1 .. n /\ n - 1 # n BY <1>2
    <3> QED BY <3>1, <2>1, <1>5 DEF ReadAt
  <2> QED BY <2>7, <2>10, <2>11 DEF ReadAt
<1>10. \A k \in DOMAIN more : ReadAt(g, A, more, k) BY <1>5, <1>8, <1>9, Zenon
<1> QED BY <1>10 DEF AllRead

(* One round of the loop keeps it so. *)
LEMMA RoundRead ==
  ASSUME NEW g, WellFormed(g), NEW A, NoFlag \in A, NEW r, Sound(g, A, r), GroupsRead(g, A, r), NEW a \in A,
         ~Read(g, r, a).refused
  PROVE  GroupsRead(g, A, Read(g, r, a))
<1> DEFINE n == Len(r.groups)
           q == Read(g, r, a)
           More(key, args) == Append(r.groups, Group(key, args))
<1>1. /\ r = [groups |-> r.groups, open |-> r.open, refused |-> r.refused] /\ r.open \in A
      /\ n \in Nat /\ Len(First(g)) \in Nat
  BY LenProperties DEF Sound, Readings, WellFormed
<1>2. ~r.refused
  <2>1. r.refused \in BOOLEAN BY DEF Sound, Readings
  <2> QED BY <2>1 DEF Read
<1>3. Refuse(r).refused BY <1>1 DEF Refuse
<1>4. \A key, args, v : ~TakeValue(g, r, key, args, v).refused =>
        TakeValue(g, r, key, args, v) = Taken(r, key, args) /\ Fits(Must(g, key), v)
  BY <1>3 DEF TakeValue
<1>5. ASSUME NEW key, NEW args
      PROVE  /\ More(key, args)[n + 1] = Group(key, args)
             /\ \A k : Before(More(key, args), n + 1, k) <=> Has(r, k)
             /\ \A b : Repeated(g, More(key, args), n + 1, b) <=> Repeats(g, r, b)
             /\ ~InCommand(r) => (n + 1 > 1 => More(key, args)[(n + 1) - 1].key # "--")
  <2> DEFINE gr == Group(key, args)
             m == More(key, args)
             k == n + 1
  <2>1. m = Append(r.groups, gr) /\ k = Len(r.groups) + 1 OBVIOUS
  <2> HIDE DEF m, gr, k
  <2>2. NextIs(g, r, k, gr, m) BY <2>1, NextGroup
  <2> QED BY <2>2 DEF m, gr, k, NextIs
<1>6. \A b : Repeated(g, r.groups, n + 1, b) <=> Repeats(g, r, b)
  <2> DEFINE k == n + 1
             m == Append(r.groups, NoFlag)
  <2>1. m = Append(r.groups, NoFlag) /\ k = Len(r.groups) + 1 OBVIOUS
  <2> HIDE DEF k, m
  <2> QED BY <2>1, NextGroup DEF k
<1>7. ASSUME NEW key, NEW args, ReadAt(g, A, More(key, args), n + 1), q = Taken(r, key, args)
      PROVE  GroupsRead(g, A, q)
  BY <1>7, TakenRead
<1> HIDE DEF n, q, More
<1>8. ASSUME r.open # NoFlag PROVE GroupsRead(g, A, q)
  <2> DEFINE key == Key(g, r.open.key)
             more == More(key, <<r.open, a>>)
  <2>1. q = IF g.once /\ a.dash THEN Refuse(r) ELSE TakeValue(g, r, key, <<r.open, a>>, a)
    BY <1>2, <1>8, Zenon DEF Read, q
  <2>2. ~(g.once /\ a.dash) /\ q = Taken(r, key, <<r.open, a>>) /\ Fits(Must(g, key), a)
    BY <2>1, <1>3, <1>4 DEF q
  <2>3. /\ ~InCommand(r) /\ n >= Len(First(g)) /\ IsFlag(g, r.open) /\ ~Repeats(g, r, r.open)
        /\ r.open.key \notin g.bare /\ ~r.open.eq
    BY <1>6, <1>8 DEF GroupsRead, OpenRead, n
  <2>4. /\ more[n + 1] = Group(key, <<r.open, a>>)
        /\ ~Repeated(g, more, n + 1, r.open) /\ (n + 1 > 1 => more[(n + 1) - 1].key # "--")
    BY <1>5, <2>3
  <2> HIDE DEF more
  <2>5. FlagAt(g, A, more, n + 1, r.open) BY <2>2, <2>3, <2>4 DEF FlagAt
  <2>6. n + 1 > Len(First(g)) BY <1>1, <2>3 DEF n
  <2>7. ReadAt(g, A, more, n + 1) BY <1>1, <2>4, <2>5, <2>6 DEF ReadAt
  <2> QED BY <1>7, <2>2, <2>7 DEF more
<1>9. ASSUME r.open = NoFlag, InCommand(r) PROVE GroupsRead(g, A, q)
  <2> DEFINE more == [r.groups EXCEPT ![n].args = Append(@, a)]
  <2>1. q = [r EXCEPT !.groups[n].args = Append(@, a)] BY <1>2, <1>9, Zenon DEF Read, q, n
  <2>2. q = [r EXCEPT !.groups = more] BY <1>1, <2>1
  <2>3. Longer(r.groups, a, more) BY DEF Longer, n
  <2> HIDE DEF more
  <2>4. q.groups = more /\ q.open = NoFlag BY <1>1, <1>9, <2>2
  <2>5. AllRead(g, A, more) BY <1>9, <2>3, CommandRead
  <2> QED BY <2>4, <2>5 DEF GroupsRead, OpenRead
<1>10. ASSUME r.open = NoFlag, ~InCommand(r), n < Len(First(g)) PROVE GroupsRead(g, A, q)
  <2> DEFINE key == First(g)[n + 1]
             more == More(key, <<a>>)
  <2>1. q = TakeValue(g, r, key, <<a>>, a) BY <1>2, <1>10 DEF Read, q, n, First
  <2>2. q = Taken(r, key, <<a>>) /\ Fits(Must(g, key), a) BY <2>1, <1>4 DEF q
  <2>3. more[n + 1] = Group(key, <<a>>) /\ (n + 1 > 1 => more[(n + 1) - 1].key # "--") BY <1>5, <1>10
  <2>4. n + 1 <= Len(First(g)) BY <1>1, <1>10 DEF n
  <2> HIDE DEF more
  <2>5. LeadAt(g, more, n + 1, a) BY <2>2, <2>3, <2>4 DEF LeadAt
  <2>6. ReadAt(g, A, more, n + 1) BY <2>3, <2>5 DEF ReadAt
  <2> QED BY <1>7, <2>2, <2>6 DEF more
<1> DEFINE past == r.open = NoFlag /\ ~InCommand(r) /\ ~(n < Len(First(g)))
<1>11. past => n + 1 > Len(First(g)) BY <1>1 DEF n
<1>12. ASSUME past, NEW key, NEW args, q = Taken(r, key, args),
              \/ FlagAt(g, A, More(key, args), n + 1, a)
              \/ WordAt(g, More(key, args), n + 1, a)
              \/ CommandAt(g, More(key, args), n + 1, a)
       PROVE  GroupsRead(g, A, q)
  <2>1. n + 1 > 1 => More(key, args)[(n + 1) - 1].key # "--" BY <1>5, <1>12
  <2>2. ReadAt(g, A, More(key, args), n + 1) BY <2>1, <1>11, <1>12 DEF ReadAt
  <2> QED BY <1>7, <1>12, <2>2
<1>13. ASSUME past, g.sep /\ a = Dashes PROVE GroupsRead(g, A, q)
  <2>1. q = Taken(r, "--", <<a>>) BY <1>2, <1>13, Zenon DEF Read, q, n, First
  <2>2. Group("--", <<a>>).key = "--" /\ Group("--", <<a>>).args = <<a>> BY DEF Group
  <2>3. <<a>> # <<>> /\ <<a>>[1] = a OBVIOUS
  <2>4. CommandAt(g, More("--", <<a>>), n + 1, a) BY <1>5, <1>13, <2>2, <2>3 DEF CommandAt, BeginsCommand
  <2> QED BY <1>12, <1>13, <2>1, <2>4
<1>14. ASSUME past, IsFlag(g, a) PROVE GroupsRead(g, A, q)
  <2> DEFINE key == Key(g, a.key)
  <2>1. q = ReadFlag(g, r, a) BY <1>2, <1>14, Zenon DEF Read, q, n, First, IsFlag
  <2>2. ~Repeats(g, r, a) BY <2>1, <1>3 DEF ReadFlag, q
  <2>3. CASE a.key \in g.bare
    <3>1. q = Taken(r, key, <<a>>) BY <2>1, <2>2, <2>3, Zenon DEF ReadFlag
    <3>2. FlagAt(g, A, More(key, <<a>>), n + 1, a) BY <1>5, <1>14, <2>2, <2>3 DEF FlagAt
    <3> QED BY <1>12, <1>14, <3>1, <3>2
  <2>4. CASE a.key \notin g.bare /\ a.eq
    <3>1. q = TakeValue(g, r, key, <<a>>, Word(a.val)) BY <2>1, <2>2, <2>4, Zenon DEF ReadFlag
    <3>2. q = Taken(r, key, <<a>>) /\ Fits(Must(g, key), Word(a.val)) BY <3>1, <1>4 DEF q
    <3>3. FlagAt(g, A, More(key, <<a>>), n + 1, a) BY <1>5, <1>14, <2>2, <2>4, <3>2 DEF FlagAt
    <3> QED BY <1>12, <1>14, <3>2, <3>3
  <2>5. CASE a.key \notin g.bare /\ ~a.eq
    <3>1. q = [r EXCEPT !.open = a] BY <2>1, <2>2, <2>5, Zenon DEF ReadFlag
    <3>2. q.groups = r.groups /\ q.open = a BY <1>1, <3>1
    <3>3. ~InCommand(q) BY <3>2, <1>14 DEF InCommand
    <3>4. n >= Len(First(g)) BY <1>1, <1>14 DEF n
    <3>5. ~Repeated(g, r.groups, n + 1, a) BY <1>6, <2>2
    <3>6. OpenRead(g, q) BY <3>2, <3>3, <3>4, <3>5, <1>14, <2>5 DEF OpenRead, n
    <3> QED BY <3>2, <3>6 DEF GroupsRead
  <2> QED BY <2>3, <2>4, <2>5
<1>15. ASSUME past, IsWord(g, a) PROVE GroupsRead(g, A, q)
  <2>1. q = ReadWord(g, r, a) BY <1>2, <1>15, Zenon DEF Read, q, n, First, IsWord
  <2>2. CASE Several(g) \/ ~Has(r, g.slot)
    <3>1. q = Taken(r, g.slot, <<a>>) BY <2>1, <2>2, Zenon DEF ReadWord, Several
    <3>2. WordAt(g, More(g.slot, <<a>>), n + 1, a) BY <1>5, <1>15, <2>2 DEF WordAt
    <3> QED BY <1>12, <1>15, <3>1, <3>2
  <2>3. CASE ~Several(g) /\ Has(r, g.slot) /\ g.words = "command"
    <3>1. q = Taken(r, "--", <<a>>) BY <2>1, <2>3, Zenon DEF ReadWord, Several
    <3>2. Group("--", <<a>>).key = "--" /\ Group("--", <<a>>).args = <<a>> BY DEF Group
    <3>3. <<a>> # <<>> /\ <<a>>[1] = a OBVIOUS
    <3>4. CommandAt(g, More("--", <<a>>), n + 1, a) BY <1>5, <1>15, <2>3, <3>2, <3>3 DEF CommandAt, BeginsCommand
    <3> QED BY <1>12, <1>15, <3>1, <3>4
  <2>4. CASE ~Several(g) /\ Has(r, g.slot) /\ g.words # "command"
    <3>1. q = IF g.words = "first" THEN r ELSE Refuse(r) BY <2>1, <2>4, Zenon DEF ReadWord, Several
    <3>2. q = r BY <3>1, <1>3 DEF q
    <3> QED BY <3>2
  <2> QED BY <2>2, <2>3, <2>4
<1>16. ASSUME past, ~(g.sep /\ a = Dashes), ~Known(g, a), ~Accepts(g, a) PROVE GroupsRead(g, A, q)
  <2>1. CASE g.words = "stop"
    <3>1. q = Taken(r, "--", <<a>>) BY <1>2, <1>16, <2>1, Zenon DEF Read, q, n, First
    <3>2. Group("--", <<a>>).key = "--" /\ Group("--", <<a>>).args = <<a>> BY DEF Group
    <3>3. <<a>> # <<>> /\ <<a>>[1] = a OBVIOUS
    <3>4. CommandAt(g, More("--", <<a>>), n + 1, a) BY <1>5, <1>16, <2>1, <3>2, <3>3 DEF CommandAt, BeginsCommand
    <3> QED BY <1>12, <1>16, <3>1, <3>4
  <2>2. CASE g.words # "stop"
    <3>1. q = IF g.lax THEN r ELSE Refuse(r) BY <1>2, <1>16, <2>2, Zenon DEF Read, q, n, First
    <3>2. q = r BY <3>1, <1>3 DEF q
    <3> QED BY <3>2
  <2> QED BY <2>1, <2>2
<1>17. GroupsRead(g, A, q)
  BY <1>8, <1>9, <1>10, <1>13, <1>14, <1>15, <1>16 DEF IsFlag, IsWord
<1> QED BY <1>17 DEF q

(* The names of the arguments that commands take as they come. *)
LeadNames == {"name", "shell", "provider", "port", "sandbox", "path", "service", "dest", "token", "endpoint"}

(* None is "--". *)
LEMMA WordsOf ==
  /\ "--" \notin LeadNames /\ <<>> \in Seq(LeadNames)
  /\ \A x \in LeadNames : <<x>> \in Seq(LeadNames) /\ \A y \in LeadNames : <<x, y>> \in Seq(LeadNames)
<1>1. "--" \notin LeadNames BY DEF LeadNames
<1>2. <<>> \in Seq(LeadNames) /\ \A x \in LeadNames : <<x>> \in Seq(LeadNames) OBVIOUS
<1>3. \A x, y \in LeadNames : <<x, y>> \in Seq(LeadNames) OBVIOUS
<1> QED BY <1>1, <1>2, <1>3, Zenon

(* The parts that make most grammars well formed. *)
Made(g) ==
  /\ g.lead \in {<<>>, <<"name">>, <<"port">>, <<"endpoint">>} /\ g.then = <<>> /\ g.slot # "--"
  /\ "--" \notin g.value \cup g.bare /\ \A f \in DOMAIN g.same : g.same[f] # "--"
  /\ g.once => g.words = "none"

(* The parts that make any grammar well formed. *)
LEMMA WellMade ==
  ASSUME NEW g, g.lead \in Seq(LeadNames), g.then \in Seq(LeadNames), g.slot # "--",
         "--" \notin g.value \cup g.bare, \A f \in DOMAIN g.same : g.same[f] # "--",
         g.once => g.words = "none"
  PROVE  WellFormed(g)
<1> DEFINE L == LeadNames
<1>1. First(g) \in Seq(L) BY DEF First
<1>2. /\ Len(First(g)) \in Nat /\ DOMAIN First(g) = 1 .. Len(First(g))
      /\ \A i \in 1 .. Len(First(g)) : First(g)[i] \in L BY <1>1
<1>3. \A f \in g.value \cup g.bare : Key(g, f) # "--" BY DEF Key
<1> QED BY <1>2, <1>3, WordsOf DEF WellFormed

(* So are those of the commands. *)
LEMMA WellFormedParsers == \A c \in Commands : WellFormed(c.grammar)
<1>1. /\ Plain.lead = <<>> /\ Plain.then = <<>> /\ Plain.slot = "name" /\ Plain.value = {} /\ Plain.bare = {}
      /\ Plain.same = No /\ Plain.once = FALSE
  BY DEF Plain
<1>2. DOMAIN No = {} /\ \A keys, kind : DOMAIN All(keys, kind) = keys /\ \A f \in keys : All(keys, kind)[f] = kind
  BY DEF No, All
<1>3. ASSUME NEW lead \in Seq(LeadNames), NEW then \in Seq(LeadNames)
      PROVE  WellFormed(Takes(lead, then))
  <2>1. /\ Takes(lead, then).lead = lead /\ Takes(lead, then).then = then /\ Takes(lead, then).slot = "name"
        /\ Takes(lead, then).value = {} /\ Takes(lead, then).bare = {} /\ Takes(lead, then).same = No
        /\ Takes(lead, then).once = FALSE
    BY DEF Takes, Plain
  <2> QED BY <1>2, <2>1, WellMade
<1>4. ASSUME NEW g, Made(g) PROVE WellFormed(g)
  <2>1. {<<>>, <<"name">>, <<"port">>, <<"endpoint">>} \subseteq Seq(LeadNames) BY WordsOf DEF LeadNames
  <2> QED BY <1>4, <2>1, WellMade DEF Made
<1>5. WellFormed(Plain) BY <1>1, <1>2, <1>4 DEF Made
<1>6. Made(GatewayAdd) BY <1>2 DEF Made, GatewayAdd, Plain
<1>7. Made(PolicySet) BY <1>2 DEF Made, PolicySet, Plain
<1>8. Made(PolicyGet) BY <1>2 DEF Made, PolicyGet, Plain
<1>9. Made(PolicyUpdate) BY <1>2 DEF Made, PolicyUpdate, Plain
<1>10. Made(PolicyList) BY <1>2 DEF Made, PolicyList, Plain
<1>11. Made(PolicyDelete) BY <1>2 DEF Made, PolicyDelete, Plain
<1>12. Made(ForwardStart) BY <1>2 DEF Made, ForwardStart, Plain
<1>13. Made(SettingsSet) BY <1>2 DEF Made, SettingsSet, Plain
<1>14. Made(SettingsGet) BY <1>2 DEF Made, SettingsGet, Plain
<1>15. Made(SettingsDelete) BY <1>2 DEF Made, SettingsDelete, Plain
<1>16. Made(InferenceSet) BY <1>2 DEF Made, InferenceSet, Plain
<1>17. Made(Logs) BY <1>2 DEF Made, Logs, Plain
<1>18. Made(SandboxExec) BY <1>2 DEF Made, SandboxExec, Plain
<1>19. Made(SSHProxy) BY <1>2 DEF Made, SSHProxy, Plain
<1>20. Made(SandboxConnect) BY <1>2 DEF Made, SandboxConnect, Plain
<1>21. Made(SandboxSSHConfig) BY <1>2 DEF Made, SandboxSSHConfig, Plain
<1>22. Made(SandboxCreate) BY <1>2 DEF Made, SandboxCreate, Plain
<1>23. Made(SandboxList) BY <1>2 DEF Made, SandboxList, Plain
<1>24. Made(TemplateCreate) BY <1>2 DEF Made, TemplateCreate, Plain
<1>25. Made(ProviderCreate) BY <1>2 DEF Made, ProviderCreate, Plain
<1>26. Made(ProviderUpdate) BY <1>2 DEF Made, ProviderUpdate, Plain
<1>27. Made(RefreshConfigure) BY <1>2 DEF Made, RefreshConfigure, Plain
<1>28. Made(RefreshKey) BY <1>2 DEF Made, RefreshKey, Plain
<1>29. Made(ProfileScope) BY <1>2 DEF Made, ProfileScope, Plain
<1>30. Made(WorkspaceCreate) BY <1>2 DEF Made, WorkspaceCreate, Plain
<1>31. Made(WorkspaceMember) BY <1>2 DEF Made, WorkspaceMember, Plain
<1>32. Made(MemberList) BY <1>2 DEF Made, MemberList, Plain
<1>33. Made(RuleGet) BY <1>2 DEF Made, RuleGet, Plain
<1>34. Made(RuleApproveAll) BY <1>2 DEF Made, RuleApproveAll, Plain
<1>35. Made(RuleAction) BY <1>2 DEF Made, RuleAction, Plain
<1>36. Made(InitAgent) BY <1>2 DEF Made, InitAgent, Plain
<1>37. Made(DoctorCleanup) BY <1>2 DEF Made, DoctorCleanup, Plain
<1>38. Made(Proxy) BY <1>2 DEF Made, Proxy, Plain
<1>39. Made(InstallSelf) BY <1>2 DEF Made, InstallSelf, Plain
<1> HIDE DEF Made
<1>40. /\ \A op, x, g : Top(op, x, g).grammar = g
       /\ \A op, x, y, g : Sub(op, x, y, g).grammar = g
       /\ \A op, x, y, z, g : Deep(op, x, y, z, g).grammar = g
  BY DEF Top, Sub, Deep, Is
<1>41. {<<>>, <<"name">>, <<"shell">>, <<"name", "provider">>, <<"port">>, <<"sandbox", "port">>,
        <<"name", "path">>, <<"sandbox">>, <<"service">>, <<"dest">>, <<"path">>, <<"token">>}
         \subseteq Seq(LeadNames)
  BY WordsOf DEF LeadNames
<1>42. /\ WellFormed(Anything) /\ WellFormed(NameOnly) /\ WellFormed(Takes(<<"shell">>, <<>>))
       /\ WellFormed(Takes(<<"name", "provider">>, <<>>)) /\ WellFormed(ForwardStop) /\ WellFormed(ServiceExpose)
       /\ WellFormed(SandboxTransfer) /\ WellFormed(Takes(<<"sandbox">>, <<"service">>))
       /\ WellFormed(Takes(<<>>, <<"name">>)) /\ WellFormed(Takes(<<>>, <<"path">>))
       /\ WellFormed(Takes(<<>>, <<"token">>))
  BY <1>3, <1>41, Zenon DEF Anything, NameOnly, ForwardStop, ServiceExpose, SandboxTransfer
<1> DEFINE Formed(S) == \A c \in S : WellFormed(c.grammar)
<1>43. Formed(TopCommands)
  BY <1>4, <1>5, <1>17, <1>18, <1>19, <1>36, <1>37, <1>38, <1>39, <1>40, <1>42, SMTT(60) DEF TopCommands
<1>44. Formed(SandboxCommands)
  BY <1>4, <1>18, <1>20, <1>21, <1>22, <1>23, <1>24, <1>40, <1>42, SMTT(60) DEF SandboxCommands
<1>45. Formed(GatewayCommands)
  BY <1>4, <1>6, <1>40, <1>42, SMTT(60) DEF GatewayCommands
<1>46. Formed(PolicyCommands)
  BY <1>4, <1>7, <1>8, <1>9, <1>10, <1>11, <1>40, <1>42, SMTT(60) DEF PolicyCommands
<1>47. Formed(ProviderCommands)
  BY <1>4, <1>25, <1>26, <1>27, <1>28, <1>29, <1>40, <1>42, SMTT(60) DEF ProviderCommands
<1>48. Formed(ProfileCommands)
  BY <1>4, <1>29, <1>40, <1>42, SMTT(60) DEF ProfileCommands
<1>49. Formed(WorkspaceCommands)
  BY <1>4, <1>30, <1>31, <1>32, <1>40, <1>42, SMTT(60) DEF WorkspaceCommands
<1>50. Formed(StoreCommands)
  BY <1>4, <1>12, <1>13, <1>14, <1>15, <1>16, <1>33, <1>34, <1>35, <1>40, <1>42, SMTT(60) DEF StoreCommands
<1> QED BY <1>43, <1>44, <1>45, <1>46, <1>47, <1>48, <1>49, <1>50 DEF Commands

(* A command whose words begin those of another one, "doctor" and           *)
(* "provider refresh", has a parser that reads no options.                  *)
LEMMA ShorterPath ==
  ASSUME NEW args, NEW c \in Commands, NEW d \in Commands, Starts(c.path, args), Starts(d.path, args),
         ~(Len(d.path) <= Len(c.path))
  PROVE  c.grammar \in {Plain, NameOnly}
<1> DEFINE k1 == args[1].key
           k2 == args[2].key
           Shorter(S) == \A x, y \in S :
             Starts(x.path, args) /\ Starts(y.path, args) /\ ~(Len(y.path) <= Len(x.path)) =>
               x.grammar \in {Plain, NameOnly}
<1>1. Begins(args, k1, k2, args[3].key) BY BeginsWith
<1>2. /\ \A op, x, g : Top(op, x, g).grammar = g
      /\ \A op, x, y, g : Sub(op, x, y, g).grammar = g
      /\ \A op, x, y, z, g : Deep(op, x, y, z, g).grammar = g
  BY DEF Top, Sub, Deep, Is
<1> HIDE DEF k1, k2
<1>3. Shorter(TopCommands)
  <2>1. ASSUME NEW x \in TopCommands, NEW y \in TopCommands,
               Starts(x.path, args), Starts(y.path, args), ~(Len(y.path) <= Len(x.path))
        PROVE  x.grammar \in {Plain, NameOnly}
    <3>1. Len(y.path) # 1 => k1 \in {"doctor", "dr"} BY <1>1, <2>1, SMTT(60) DEF Begins, TopCommands
    <3>2. Len(x.path) = 1 /\ k1 \in {"doctor", "dr"} => x.grammar = Plain
      BY <1>1, <1>2, <2>1, SMTT(60) DEF Begins, TopCommands, General
    <3>3. Len(x.path) \in 1 .. 2 /\ Len(y.path) \in 1 .. 2 BY <1>1, SMTT(60) DEF Begins, TopCommands
    <3> QED BY <2>1, <3>1, <3>2, <3>3
  <2> QED BY <2>1
<1>4. Shorter(SandboxCommands)
  <2>1. ASSUME NEW x \in SandboxCommands, NEW y \in SandboxCommands,
               Starts(x.path, args), Starts(y.path, args), ~(Len(y.path) <= Len(x.path))
        PROVE  x.grammar \in {Plain, NameOnly}
    BY <1>1, <1>2, <2>1, SMTT(60) DEF Begins, SandboxCommands, Ls, Rm
  <2> QED BY <2>1
<1>5. Shorter(GatewayCommands)
  <2>1. ASSUME NEW x \in GatewayCommands, NEW y \in GatewayCommands,
               Starts(x.path, args), Starts(y.path, args), ~(Len(y.path) <= Len(x.path))
        PROVE  x.grammar \in {Plain, NameOnly}
    BY <1>1, <1>2, <2>1, SMTT(60) DEF Begins, GatewayCommands
  <2> QED BY <2>1
<1>6. Shorter(PolicyCommands)
  <2>1. ASSUME NEW x \in PolicyCommands, NEW y \in PolicyCommands,
               Starts(x.path, args), Starts(y.path, args), ~(Len(y.path) <= Len(x.path))
        PROVE  x.grammar \in {Plain, NameOnly}
    BY <1>1, <1>2, <2>1, SMTT(60) DEF Begins, PolicyCommands, Ls, Rm
  <2> QED BY <2>1
<1>7. Shorter(ProviderCommands)
  <2>1. ASSUME NEW x \in ProviderCommands, NEW y \in ProviderCommands,
               Starts(x.path, args), Starts(y.path, args), ~(Len(y.path) <= Len(x.path))
        PROVE  x.grammar \in {Plain, NameOnly}
    <3>1. Len(y.path) # 2 => k2 = "refresh" BY <1>1, <2>1, SMTT(60) DEF Begins, ProviderCommands, Ls, Rm
    <3>2. Len(x.path) = 2 /\ k2 = "refresh" => x.grammar = NameOnly
      <4> DEFINE Plainer(e) == Starts(e.path, args) /\ Len(e.path) = 2 /\ k2 = "refresh" => e.grammar = NameOnly
      <4>1. ASSUME NEW op, NEW v, NEW w, NEW g, k2 = "refresh" => "refresh" \notin w \/ g = NameOnly
            PROVE  Plainer(Sub(op, v, w, g))
        <5>1. Starts(Sub(op, v, w, g).path, args) => k2 \in w BY <1>1, Zenon DEF Begins
        <5>2. Sub(op, v, w, g).grammar = g BY <1>2
        <5> QED BY <4>1, <5>1, <5>2
      <4>2. ASSUME NEW op, NEW v, NEW w, NEW z, NEW g PROVE Plainer(Deep(op, v, w, z, g))
        <5>1. Len(Deep(op, v, w, z, g).path) = 3 BY <1>1, Zenon DEF Begins
        <5> QED BY <5>1
      <4> HIDE DEF Plainer
      <4>3. Plainer(x) BY <4>1, <4>2, SMTT(60) DEF ProviderCommands, Ls, Rm
      <4> QED BY <2>1, <4>3 DEF Plainer
    <3>3. Len(x.path) \in 2 .. 3 /\ Len(y.path) \in 2 .. 3 BY <1>1, SMTT(60) DEF Begins, ProviderCommands, Ls, Rm
    <3>4. Len(x.path) = 2 /\ Len(y.path) # 2 BY <2>1, <3>3
    <3> QED BY <3>1, <3>2, <3>4, Zenon
  <2> QED BY <2>1
<1>8. Shorter(ProfileCommands)
  <2>1. ASSUME NEW x \in ProfileCommands, NEW y \in ProfileCommands,
               Starts(x.path, args), Starts(y.path, args), ~(Len(y.path) <= Len(x.path))
        PROVE  x.grammar \in {Plain, NameOnly}
    BY <1>1, <1>2, <2>1, SMTT(60) DEF Begins, ProfileCommands, Ls
  <2> QED BY <2>1
<1>9. Shorter(WorkspaceCommands)
  <2>1. ASSUME NEW x \in WorkspaceCommands, NEW y \in WorkspaceCommands,
               Starts(x.path, args), Starts(y.path, args), ~(Len(y.path) <= Len(x.path))
        PROVE  x.grammar \in {Plain, NameOnly}
    BY <1>1, <1>2, <2>1, SMTT(60) DEF Begins, WorkspaceCommands, Ls, Rm
  <2> QED BY <2>1
<1>10. Shorter(StoreCommands)
  <2>1. ASSUME NEW x \in StoreCommands, NEW y \in StoreCommands,
               Starts(x.path, args), Starts(y.path, args), ~(Len(y.path) <= Len(x.path))
        PROVE  x.grammar \in {Plain, NameOnly}
    BY <1>1, <1>2, <2>1, SMTT(60) DEF Begins, StoreCommands, Ls, Rm
  <2> QED BY <2>1
<1>11. /\ \A x \in ProviderCommands : Starts(x.path, args) => k1 = "provider" /\ k2 # "profile"
       /\ \A x \in ProfileCommands : Starts(x.path, args) => k1 # "provider" \/ k2 = "profile"
  <2>1. ASSUME NEW x \in ProviderCommands, Starts(x.path, args) PROVE k1 = "provider" /\ k2 # "profile"
    BY <1>1, <2>1, SMTT(60) DEF Begins, ProviderCommands, Ls, Rm
  <2>2. ASSUME NEW x \in ProfileCommands, Starts(x.path, args) PROVE k1 # "provider" \/ k2 = "profile"
    BY <1>1, <2>2, SMTT(60) DEF Begins, ProfileCommands, Ls
  <2> QED BY <2>1, <2>2
<1>12. Shorter(ProviderCommands \cup ProfileCommands) BY <1>7, <1>8, <1>11
<1> HIDE DEF Shorter
<1>13. /\ Told(TopCommands, TopWords, args, k1)
       /\ Told(SandboxCommands, {"sandbox", "sb"}, args, k1)
       /\ Told(GatewayCommands, {"gateway", "gw"}, args, k1)
       /\ Told(PolicyCommands, {"policy", "pol"}, args, k1)
       /\ Told(ProviderCommands \cup ProfileCommands, {"provider", "profile"}, args, k1)
       /\ Told(WorkspaceCommands, {"workspace", "ws"}, args, k1)
       /\ Told(StoreCommands, {"settings", "forward", "fwd", "service", "svc", "rule", "rl", "inference"},
               args, k1)
  BY <1>1, EachTold
<1> QED
  BY <1>3, <1>4, <1>5, <1>6, <1>9, <1>10, <1>12, <1>13, SMTT(60) DEF Commands, Told, TopWords, General, Shorter

(* The whole loop reads its groups so. *)
LEMMA ScanRead ==
  ASSUME NEW g, WellFormed(g), NEW A, NoFlag \in A
  PROVE  \A args \in Seq(A) : ~Scan(g, args).refused => GroupsRead(g, A, Scan(g, args))
<1> DEFINE P == {args \in Seq(A) : ~Scan(g, args).refused => GroupsRead(g, A, Scan(g, args))}
<1>1. <<>> \in P
  <2>1. Scan(g, <<>>) = Nothing BY ScanEmpty
  <2>2. Nothing.groups = <<>> /\ Nothing.open = NoFlag BY DEF Nothing
  <2>3. AllRead(g, A, <<>>) BY DEF AllRead
  <2>4. <<>> \in Seq(A) OBVIOUS
  <2> QED BY <2>1, <2>2, <2>3, <2>4 DEF GroupsRead, OpenRead
<1>2. ASSUME NEW args \in Seq(A), NEW a \in A, args \in P PROVE Append(args, a) \in P
  <2> DEFINE r == Scan(g, args)
             q == Read(g, r, a)
  <2>1. Scan(g, Append(args, a)) = q BY ScanAppend
  <2>2. Append(args, a) \in Seq(A) BY AppendProperties
  <2>3. ASSUME ~q.refused PROVE GroupsRead(g, A, q)
    <3>1. ~r.refused BY <2>3 DEF Read
    <3>2. Sound(g, A, r) BY <3>1, ScanKeeps
    <3>3. GroupsRead(g, A, r) BY <1>2, <3>1
    <3> HIDE DEF r
    <3> QED BY <2>3, <3>2, <3>3, RoundRead
  <2> QED BY <2>1, <2>2, <2>3
<1> HIDE DEF P
<1>3. \A args \in Seq(A) : args \in P BY <1>1, <1>2, InductionOverSeq
<1> QED BY <1>3 DEF P

(* What the loop does with the arguments of a group it may read: with the   *)
(* only one, with a flag and its value, or with the first of a command.     *)
Alone(g, r, gr, a) == gr.args = <<a>> /\ Read(g, r, a) = Taken(r, gr.key, <<a>>)
WithValue(g, r, gr, a, v) ==
  /\ gr.args = <<a, v>> /\ a # NoFlag /\ Read(g, r, a) = [r EXCEPT !.open = a]
  /\ Key(g, a.key) = gr.key /\ ~(g.once /\ v.dash) /\ Fits(Must(g, gr.key), v)
FirstOf(g, r, gr, a) ==
  gr.key = "--" /\ gr.args # <<>> /\ gr.args[1] = a /\ Read(g, r, a) = Taken(r, "--", <<a>>)

(* It does one of the three. *)
LEMMA ReadsAgain ==
  ASSUME NEW g, WellFormed(g), NEW A, NEW r, Sound(g, A, r), ~r.refused, r.open = NoFlag,
         NEW gr, NEW more, more = Append(r.groups, gr), NEW k, k = Len(r.groups) + 1, ReadAt(g, A, more, k)
  PROVE  \E a \in A : \/ Alone(g, r, gr, a) \/ FirstOf(g, r, gr, a)
                      \/ \E v \in A : WithValue(g, r, gr, a, v)
<1> DEFINE n == Len(r.groups)
<1>1. n \in Nat /\ Len(First(g)) \in Nat /\ k = n + 1
  BY LenProperties DEF Sound, Readings, WellFormed
<1>2. /\ more[k] = gr
      /\ \A key : Before(more, k, key) <=> Has(r, key)
      /\ \A a : Repeated(g, more, k, a) <=> Repeats(g, r, a)
  <2>1. NextIs(g, r, k, gr, more) BY NextGroup
  <2> QED BY <2>1 DEF NextIs
<1>3. ~InCommand(r)
  <2> SUFFICES ASSUME InCommand(r) PROVE FALSE OBVIOUS
  <2> DEFINE G == GroupsOf(g, A)
  <2>1. r.groups \in Seq(G) /\ r.groups # <<>> BY DEF Sound, Readings, InCommand
  <2> HIDE DEF G
  <2>2. n # 0 BY <2>1
  <2>3. k > 1 /\ k - 1 = n /\ n \in 1 .. n BY <1>1, <2>2
  <2>4. more[n] = r.groups[n]
    <3> DEFINE H == G \cup {gr}
    <3>1. r.groups \in Seq(H) /\ gr \in H BY <2>1
    <3> HIDE DEF H
    <3> QED BY <3>1, <2>3, AppendProperties
  <2>5. r.groups[n].key = "--" BY DEF InCommand, Last
  <2>6. more[k - 1].key # "--" BY <2>3 DEF ReadAt
  <2> QED BY <2>3, <2>4, <2>5, <2>6
<1>4. PICK a \in A :
        \/ LeadAt(g, more, k, a)
        \/ k > Len(First(g)) /\ (FlagAt(g, A, more, k, a) \/ WordAt(g, more, k, a) \/ CommandAt(g, more, k, a))
  BY DEF ReadAt
<1>5. \A key, args : Group(key, args).key = key /\ Group(key, args).args = args BY DEF Group
<1>6. \A key, args, v : Fits(Must(g, key), v) => TakeValue(g, r, key, args, v) = Taken(r, key, args)
  BY DEF TakeValue
<1> HIDE DEF n
<1>7. CASE LeadAt(g, more, k, a)
  <2> DEFINE key == First(g)[k]
  <2>1. n < Len(First(g)) BY <1>1, <1>7 DEF LeadAt
  <2>2. gr = Group(key, <<a>>) /\ Fits(Must(g, key), a) BY <1>2, <1>7 DEF LeadAt
  <2>3. Read(g, r, a) = TakeValue(g, r, key, <<a>>, a) BY <1>1, <1>3, <2>1, Zenon DEF Read, n, First
  <2>4. Read(g, r, a) = Taken(r, key, <<a>>) BY <1>6, <2>2, <2>3
  <2>5. Alone(g, r, gr, a) BY <1>5, <2>2, <2>4 DEF Alone
  <2> QED BY <2>5
<1> DEFINE past == ~(n < Len(First(g)))
<1>8. k > Len(First(g)) => past BY <1>1
<1>9. CASE past /\ FlagAt(g, A, more, k, a)
  <2> DEFINE key == Key(g, a.key)
  <2>1. IsFlag(g, a) /\ ~Repeats(g, r, a) BY <1>2, <1>9 DEF FlagAt
  <2>2. Read(g, r, a) = ReadFlag(g, r, a) BY <1>3, <1>9, <2>1, Zenon DEF Read, n, First, IsFlag
  <2>3. CASE a.key \in g.bare /\ gr = Group(key, <<a>>)
    <3>1. Read(g, r, a) = Taken(r, key, <<a>>) BY <2>1, <2>2, <2>3, Zenon DEF ReadFlag
    <3>2. Alone(g, r, gr, a) BY <1>5, <2>3, <3>1 DEF Alone
    <3> QED BY <3>2
  <2>4. CASE a.key \notin g.bare /\ a.eq /\ gr = Group(key, <<a>>) /\ Fits(Must(g, key), Word(a.val))
    <3>1. Read(g, r, a) = TakeValue(g, r, key, <<a>>, Word(a.val)) BY <2>1, <2>2, <2>4, Zenon DEF ReadFlag
    <3>2. Read(g, r, a) = Taken(r, key, <<a>>) BY <1>6, <2>4, <3>1
    <3>3. Alone(g, r, gr, a) BY <1>5, <2>4, <3>2 DEF Alone
    <3> QED BY <3>3
  <2>5. CASE /\ a.key \notin g.bare /\ ~a.eq
             /\ \E v \in A : gr = Group(key, <<a, v>>) /\ ~(g.once /\ v.dash) /\ Fits(Must(g, key), v)
    <3>1. PICK v \in A : gr = Group(key, <<a, v>>) /\ ~(g.once /\ v.dash) /\ Fits(Must(g, key), v) BY <2>5
    <3>2. Read(g, r, a) = [r EXCEPT !.open = a] BY <2>1, <2>2, <2>5, Zenon DEF ReadFlag
    <3>3. a # NoFlag BY <2>1, DashOf DEF IsFlag, Known
    <3>4. gr.key = key /\ gr.args = <<a, v>> BY <1>5, <3>1
    <3>5. WithValue(g, r, gr, a, v) BY <3>1, <3>2, <3>3, <3>4 DEF WithValue
    <3> QED BY <3>5
  <2>6. \/ a.key \in g.bare /\ gr = Group(key, <<a>>)
        \/ a.key \notin g.bare /\ a.eq /\ gr = Group(key, <<a>>) /\ Fits(Must(g, key), Word(a.val))
        \/ /\ a.key \notin g.bare /\ ~a.eq
           /\ \E v \in A : gr = Group(key, <<a, v>>) /\ ~(g.once /\ v.dash) /\ Fits(Must(g, key), v)
    BY <1>2, <1>9, Zenon DEF FlagAt
  <2> QED BY <2>3, <2>4, <2>5, <2>6
<1>10. CASE past /\ WordAt(g, more, k, a)
  <2>1. IsWord(g, a) /\ gr = Group(g.slot, <<a>>) /\ (Several(g) \/ ~Has(r, g.slot)) BY <1>2, <1>10 DEF WordAt
  <2>2. Read(g, r, a) = ReadWord(g, r, a) BY <1>3, <1>10, <2>1, Zenon DEF Read, n, First, IsWord
  <2>3. Read(g, r, a) = Taken(r, g.slot, <<a>>) BY <2>1, <2>2, Zenon DEF ReadWord, Several
  <2>4. Alone(g, r, gr, a) BY <1>5, <2>1, <2>3 DEF Alone
  <2> QED BY <2>4
<1>11. CASE past /\ CommandAt(g, more, k, a)
  <2>1. gr.key = "--" /\ gr.args # <<>> /\ gr.args[1] = a BY <1>2, <1>11 DEF CommandAt
  <2>2. Read(g, r, a) = Taken(r, "--", <<a>>)
    <3>1. CASE g.sep /\ a = Dashes BY <1>3, <1>11, <3>1, Zenon DEF Read, n, First
    <3>2. CASE IsWord(g, a) /\ ~Several(g) /\ Has(r, g.slot) /\ g.words = "command"
      <4>1. Read(g, r, a) = ReadWord(g, r, a) BY <1>3, <1>11, <3>2, Zenon DEF Read, n, First, IsWord
      <4> QED BY <3>2, <4>1, Zenon DEF ReadWord, Several
    <3>3. CASE ~(g.sep /\ a = Dashes) /\ ~Known(g, a) /\ ~Accepts(g, a) /\ g.words = "stop"
      BY <1>3, <1>11, <3>3, Zenon DEF Read, n, First
    <3> QED BY <1>2, <1>11, <3>1, <3>2, <3>3 DEF CommandAt, BeginsCommand
  <2>3. FirstOf(g, r, gr, a) BY <2>1, <2>2 DEF FirstOf
  <2> QED BY <2>3
<1> QED BY <1>4, <1>7, <1>8, <1>9, <1>10, <1>11

(* A group with other arguments.                                            *)
LEMMA OtherArguments ==
  \A key, args, more : [Group(key, args) EXCEPT !.args = more] = Group(key, more) /\ Group(key, args).args = args
BY DEF Group

(* An argument more of the command for a sandbox is read as that. *)
LEMMA CommandAgain ==
  ASSUME NEW A, NEW G, NEW gs \in Seq(G), NEW args \in Seq(A), NEW a \in A, NEW g, NEW r,
         Reads(r, Append(gs, Group("--", args)), NoFlag)
  PROVE  Reads(Read(g, r, a), Append(gs, Group("--", Append(args, a))), NoFlag)
<1> DEFINE n == Len(gs)
           old == Group("--", args)
           new == Group("--", Append(args, a))
           more == Append(gs, old)
           next == Append(gs, new)
           H == G \cup {old, new}
<1>1. /\ r.groups = more /\ r.open = NoFlag /\ ~r.refused
  BY DEF Reads
<1>2. gs \in Seq(H) /\ old \in H /\ new \in H OBVIOUS
<1>3. new = [old EXCEPT !.args = Append(@, a)]
  <2>1. old.args = args BY OtherArguments
  <2>2. [old EXCEPT !.args = Append(args, a)] = new BY OtherArguments
  <2> QED BY <2>1, <2>2
<1>4. old.key = "--" BY DEF Group
<1> HIDE DEF H, old, new
<1>5. /\ n \in Nat /\ more \in Seq(H) /\ next \in Seq(H) /\ Len(more) = n + 1 /\ Len(next) = n + 1
      /\ more[n + 1] = old /\ next[n + 1] = new /\ \A i \in 1 .. n : more[i] = gs[i] /\ next[i] = gs[i]
  BY <1>2, AppendProperties
<1> DEFINE long == [more EXCEPT ![n + 1].args = Append(@, a)]
<1>6. long = next
  <2>1. DOMAIN more = 1 .. n + 1 /\ DOMAIN next = 1 .. n + 1 BY <1>5
  <2> HIDE DEF more, next
  <2>2. long = [more EXCEPT ![n + 1] = new] BY <1>3, <1>5, <2>1
  <2>3. long = [i \in 1 .. n + 1 |-> IF i = n + 1 THEN new ELSE more[i]] BY <2>1, <2>2
  <2>4. \A i \in 1 .. n + 1 : next[i] = IF i = n + 1 THEN new ELSE more[i]
    <3>1. \A i \in 1 .. n + 1 : i \in 1 .. n \/ i = n + 1 BY <1>5
    <3> QED BY <1>5, <3>1
  <2>5. next = [i \in 1 .. n + 1 |-> next[i]] BY <1>5, <2>1
  <2> HIDE DEF long
  <2> QED BY <2>3, <2>4, <2>5
<1>7. InCommand(r)
  <2>1. more # <<>> /\ Last(more) = old
    <3>1. \A x : x = <<>> => Len(x) = 0 OBVIOUS
    <3>2. n + 1 # 0 BY <1>5
    <3> HIDE DEF more
    <3> QED BY <1>5, <3>1, <3>2 DEF Last
  <2> QED BY <1>1, <1>4, <2>1 DEF InCommand
<1>8. Len(r.groups) = n + 1 BY <1>1, <1>5
<1>9. Read(g, r, a) = [r EXCEPT !.groups[n + 1].args = Append(@, a)]
  BY <1>1, <1>7, <1>8, Zenon DEF Read
<1>10. [r EXCEPT !.groups[n + 1].args = Append(@, a)] = [r EXCEPT !.groups = long]
  BY <1>1
<1> HIDE DEF long, more, next
<1>11. Reads([r EXCEPT !.groups = next], next, NoFlag)
  <2>1. Reads(r, more, NoFlag) BY DEF more, old
  <2> QED BY <2>1, ReadsMore, Zenon
<1> QED BY <1>6, <1>9, <1>10, <1>11 DEF next, new

(* Reading the arguments of groups that may be read gives the groups. *)
Rebuilt(g, gs) == Reads(Scan(g, Flattened(gs)), gs, NoFlag)

(* So with a group more ... *)
LEMMA GroupRebuilt ==
  ASSUME NEW g, WellFormed(g), NEW A, NoFlag \in A, NEW gs \in Seq(GroupsOf(g, A)), Rebuilt(g, gs),
         NEW gr \in GroupsOf(g, A), NEW more, more = Append(gs, gr), NEW k, k = Len(gs) + 1, ReadAt(g, A, more, k)
  PROVE  Rebuilt(g, more)
<1> DEFINE s == Flattened(gs)
           r == Scan(g, s)
<1>1. s \in Seq(A) /\ Flattened(more) = s \o gr.args
  <2> DEFINE K == KeysOf(g, A)
  <2>1. gs \in Seq(Groups(K, A)) /\ gr \in Groups(K, A) BY DEF GroupsOf
  <2> HIDE DEF K
  <2>2. Flattened(gs) \in Seq(A) /\ Joins(gs, gr.args, more) BY <2>1, FlattenedAppend
  <2> QED BY <2>2 DEF Joins
<1>2. gr.args \in Seq(A) /\ gr = Group(gr.key, gr.args) BY DEF GroupsOf, Groups, Group
<1>3. Reads(r, gs, NoFlag) /\ r.groups = gs /\ r.open = NoFlag /\ ~r.refused BY DEF Rebuilt, Reads
<1>4. Sound(g, A, r) BY <1>1, <1>3, ScanKeeps
<1>5. \A p \in Seq(A), a \in A : Scan(g, Append(p, a)) = Read(g, Scan(g, p), a) BY ScanAppend
<1> HIDE DEF r, s
<1>6. PICK a \in A : \/ Alone(g, r, gr, a) \/ FirstOf(g, r, gr, a)
                     \/ \E v \in A : WithValue(g, r, gr, a, v)
  <2>1. more = Append(r.groups, gr) /\ k = Len(r.groups) + 1 BY <1>3
  <2> QED BY <1>3, <1>4, <2>1, ReadsAgain
<1>7. \A x \in A : s \o <<x>> = Append(s, x) BY <1>1
<1>8. Scan(g, Append(s, a)) = Read(g, r, a) BY <1>1, <1>5 DEF r
<1>9. \A key, args : Reads(Taken(r, key, args), Append(gs, Group(key, args)), NoFlag)
  BY <1>3, ReadsMore, Zenon
<1>10. CASE Alone(g, r, gr, a)
  <2>1. gr.args = <<a>> /\ Read(g, r, a) = Taken(r, gr.key, <<a>>) BY <1>10 DEF Alone
  <2>2. Scan(g, Flattened(more)) = Taken(r, gr.key, gr.args) BY <1>1, <1>7, <1>8, <2>1
  <2> QED BY <1>2, <1>9, <2>2 DEF Rebuilt
<1>11. ASSUME NEW v \in A, WithValue(g, r, gr, a, v) PROVE Rebuilt(g, more)
  <2> DEFINE q == [r EXCEPT !.open = a]
             t == Append(s, a)
  <2>1. /\ gr.args = <<a, v>> /\ a # NoFlag /\ Read(g, r, a) = q
        /\ Key(g, a.key) = gr.key /\ ~(g.once /\ v.dash) /\ Fits(Must(g, gr.key), v)
    BY <1>11 DEF WithValue
  <2>2. t \in Seq(A) /\ Scan(g, t) = q BY <1>1, <1>8, <2>1, AppendProperties
  <2>3. Reads(q, gs, a) BY <1>3, ReadsMore, Zenon
  <2>4. q.open = a /\ ~q.refused /\ q.groups = gs BY <2>3 DEF Reads
  <2> HIDE DEF q
  <2>5. Read(g, q, v) = TakeValue(g, q, gr.key, <<a, v>>, v) BY <2>1, <2>4, Zenon DEF Read
  <2>6. Read(g, q, v) = Taken(q, gr.key, gr.args) BY <2>1, <2>5 DEF TakeValue
  <2>7. Reads(Read(g, q, v), more, NoFlag)
    <3>1. Reads(Taken(q, gr.key, gr.args), Append(gs, Group(gr.key, gr.args)), NoFlag)
      BY <2>3, ReadsMore, Zenon
    <3> QED BY <1>2, <2>6, <3>1
  <2>8. s \o <<a, v>> = Append(t, v)
    <3>1. <<a>> \in Seq(A) /\ Append(<<a>>, v) = <<a, v>>
      <4>1. <<a>> \in Seq(A) OBVIOUS
      <4> QED BY <4>1, TwoOf
    <3>2. ASSUME NEW u \in Seq(A), NEW x \in Seq(A) PROVE u \o Append(x, v) = Append(u \o x, v) OBVIOUS
    <3>3. s \o Append(<<a>>, v) = Append(s \o <<a>>, v) BY <1>1, <3>1, <3>2
    <3> QED BY <1>7, <3>1, <3>3
  <2>9. Scan(g, Append(t, v)) = Read(g, q, v) BY <1>5, <2>2
  <2> QED BY <1>1, <2>1, <2>7, <2>8, <2>9 DEF Rebuilt
<1>12. CASE FirstOf(g, r, gr, a)
  <2>1. gr.key = "--" /\ gr.args # <<>> /\ gr.args[1] = a /\ Read(g, r, a) = Taken(r, "--", <<a>>)
    BY <1>12 DEF FirstOf
  <2> DEFINE Again(args) == Reads(Scan(g, s \o args), Append(gs, Group("--", args)), NoFlag)
             P == {args \in Seq(A) : args = <<>> \/ (args[1] = a => Again(args))}
  <2>2. <<>> \in P OBVIOUS
  <2>3. ASSUME NEW args \in Seq(A), NEW x \in A, args \in P PROVE Append(args, x) \in P
    <3> DEFINE next == Append(args, x)
    <3>1. next \in Seq(A) BY AppendProperties
    <3>2. CASE args = <<>>
      <4>1. next = <<x>> /\ next[1] = x BY <3>2
      <4>2. s \o <<a>> = Append(s, a) BY <1>7
      <4>3. Scan(g, s \o <<a>>) = Taken(r, "--", <<a>>) BY <1>8, <2>1, <4>2
      <4>4. Again(<<a>>) BY <1>9, <4>3
      <4> HIDE DEF Again
      <4>5. next[1] = a => Again(next) BY <4>1, <4>4
      <4> QED BY <3>1, <4>5
    <3>3. CASE args # <<>>
      <4>1. next[1] = args[1] BY <3>3, AppendProperties
      <4>2. ASSUME args[1] = a PROVE Again(next)
        <5> DEFINE p == s \o args
        <5>1. Again(args) BY <2>3, <3>3, <4>2
        <5>2. p \in Seq(A) /\ s \o next = Append(p, x) BY <1>1
        <5>3. Scan(g, Append(p, x)) = Read(g, Scan(g, p), x) BY <1>5, <5>2
        <5>4. Reads(Scan(g, p), Append(gs, Group("--", args)), NoFlag) BY <5>1
        <5> HIDE DEF p
        <5> DEFINE y == Scan(g, p)
                   G == GroupsOf(g, A)
        <5>5. gs \in Seq(G) /\ Reads(y, Append(gs, Group("--", args)), NoFlag) BY <5>4
        <5> HIDE DEF y, G
        <5>6. Reads(Read(g, y, x), Append(gs, Group("--", next)), NoFlag) BY <5>5, CommandAgain
        <5> QED BY <5>2, <5>3, <5>6 DEF y
      <4> QED BY <3>1, <4>1, <4>2
    <3> QED BY <3>2, <3>3
  <2> HIDE DEF P
  <2>4. \A args \in Seq(A) : args \in P BY <2>2, <2>3, InductionOverSeq
  <2>5. Again(gr.args) BY <1>2, <2>1, <2>4 DEF P
  <2> QED BY <1>1, <1>2, <2>1, <2>5 DEF Rebuilt
<1> QED BY <1>6, <1>10, <1>11, <1>12

(* ... and with all groups. *)
LEMMA AllRebuilt ==
  ASSUME NEW g, WellFormed(g), NEW A, NoFlag \in A
  PROVE  \A gs \in Seq(GroupsOf(g, A)) : AllRead(g, A, gs) => Rebuilt(g, gs)
<1> DEFINE G == GroupsOf(g, A)
           P == {gs \in Seq(G) : AllRead(g, A, gs) => Rebuilt(g, gs)}
<1>1. <<>> \in P
  <2>1. Flattened(<<>>) = <<>> BY FlatType DEF Flattened
  <2>2. Rebuilt(g, <<>>) BY <2>1, ScanEmpty, ReadsMore DEF Rebuilt
  <2>3. <<>> \in Seq(G) OBVIOUS
  <2> QED BY <2>2, <2>3
<1>2. ASSUME NEW gs \in Seq(G), NEW gr \in G, gs \in P PROVE Append(gs, gr) \in P
  <2> DEFINE more == Append(gs, gr)
             k == Len(gs) + 1
  <2>1. more \in Seq(G) BY AppendProperties
  <2>2. more = Append(gs, gr) /\ k = Len(gs) + 1 OBVIOUS
  <2> HIDE DEF more, k
  <2>3. ASSUME AllRead(g, A, more) PROVE Rebuilt(g, more)
    <3>1. AllRead(g, A, gs) /\ ReadAt(g, A, more, k) BY <2>2, <2>3, OneRead
    <3>2. Rebuilt(g, gs) BY <1>2, <3>1
    <3> QED BY <2>2, <3>1, <3>2, GroupRebuilt
  <2> QED BY <2>1, <2>3 DEF more
<1> HIDE DEF P
<1>3. \A gs \in Seq(G) : gs \in P BY <1>1, <1>2, InductionOverSeq
<1> QED BY <1>3 DEF P

(* A group that may change places. *)
Movable(g, gr) == gr.key # "--" /\ \A i \in DOMAIN First(g) : gr.key # First(g)[i]
OptionAt(g, A, gs, k, a) == FlagAt(g, A, gs, k, a) \/ WordAt(g, gs, k, a)

(* It is an option that was read after the first arguments. *)
LEMMA MovableRead ==
  ASSUME NEW g, WellFormed(g), NEW A, NEW gs, NEW k \in Nat \ {0}, ReadAt(g, A, gs, k), Movable(g, gs[k])
  PROVE  k > Len(First(g)) /\ \E a \in A : OptionAt(g, A, gs, k, a)
<1>1. PICK a \in A :
        \/ LeadAt(g, gs, k, a)
        \/ k > Len(First(g)) /\ (FlagAt(g, A, gs, k, a) \/ WordAt(g, gs, k, a) \/ CommandAt(g, gs, k, a))
  BY DEF ReadAt
<1>2. ~LeadAt(g, gs, k, a)
  <2>1. LeadAt(g, gs, k, a) => k \in DOMAIN First(g) BY DEF LeadAt, WellFormed
  <2>2. LeadAt(g, gs, k, a) => gs[k].key = First(g)[k] BY DEF LeadAt, Group
  <2> QED BY <2>1, <2>2 DEF Movable
<1>3. ~CommandAt(g, gs, k, a) BY DEF CommandAt, Movable
<1> QED BY <1>1, <1>2, <1>3 DEF OptionAt

(* An option is one by its key and its first argument. *)
LEMMA OptionIs ==
  ASSUME NEW g, WellFormed(g), NEW A, NEW gs, NEW k, NEW a, OptionAt(g, A, gs, k, a)
  PROVE  /\ FlagAt(g, A, gs, k, a) => gs[k].key = Key(g, a.key) /\ gs[k].args[1] = a
         /\ WordAt(g, gs, k, a) => gs[k].key = g.slot /\ ~g.once
<1>1. \A key, args : Group(key, args).key = key /\ Group(key, args).args = args BY DEF Group
<1>2. <<a>>[1] = a /\ \A v : <<a, v>>[1] = a OBVIOUS
<1>3. FlagAt(g, A, gs, k, a) => gs[k].key = Key(g, a.key) /\ gs[k].args[1] = a
  <2>1. FlagAt(g, A, gs, k, a) =>
          gs[k] = Group(Key(g, a.key), <<a>>) \/ \E v : gs[k] = Group(Key(g, a.key), <<a, v>>)
    BY Zenon DEF FlagAt
  <2>2. \A args : gs[k] = Group(Key(g, a.key), args) => gs[k].key = Key(g, a.key) /\ gs[k].args = args BY <1>1
  <2> QED BY <1>2, <2>1, <2>2
<1>4. WordAt(g, gs, k, a) => gs[k].key = g.slot /\ ~g.once
  BY <1>1 DEF WordAt, IsWord, Accepts, WellFormed
<1> QED BY <1>3, <1>4

(* Groups that change places are still groups that may be read. *)
LEMMA ExchangedRead ==
  ASSUME NEW g, WellFormed(g), NEW A, NEW G, NEW gs \in Seq(G), AllRead(g, A, gs),
         NEW i \in Nat \ {0}, i + 1 <= Len(gs), Movable(g, gs[i]), Movable(g, gs[i + 1]),
         gs[i].key # gs[i + 1].key, NEW hs, hs = Exchanged(gs, i)
  PROVE  AllRead(g, A, hs)
<1> DEFINE n == Len(gs)
<1>1. /\ n \in Nat /\ DOMAIN gs = 1 .. n /\ DOMAIN hs = 1 .. n /\ i \in 1 .. n /\ i + 1 \in 1 .. n
      /\ hs[i] = gs[i + 1] /\ hs[i + 1] = gs[i] /\ i # i + 1
      /\ \A j \in 1 .. n : j # i /\ j # i + 1 => hs[j] = gs[j]
  <2>1. n \in Nat /\ DOMAIN gs = 1 .. n OBVIOUS
  <2>2. i \in 1 .. n /\ i + 1 \in 1 .. n /\ i # i + 1 BY <2>1
  <2> QED BY <2>1, <2>2 DEF Exchanged
<1> HIDE DEF n
<1>2. \A k \in 1 .. n : ReadAt(g, A, gs, k) /\ k \in Nat \ {0} BY <1>1 DEF AllRead
<1>3. i > Len(First(g)) /\ \E a \in A : OptionAt(g, A, gs, i, a)
  BY <1>1, <1>2, MovableRead
<1>4. \E a \in A : OptionAt(g, A, gs, i + 1, a)
  <2> DEFINE k == i + 1
  <2>1. k \in Nat \ {0} /\ ReadAt(g, A, gs, k) /\ Movable(g, gs[k]) BY <1>1, <1>2
  <2> HIDE DEF k
  <2>2. \E a \in A : OptionAt(g, A, gs, k, a) BY <2>1, MovableRead
  <2> QED BY <2>2 DEF k
<1>5. PICK a \in A : OptionAt(g, A, gs, i, a) BY <1>3
<1>6. PICK b \in A : OptionAt(g, A, gs, i + 1, b) BY <1>4
<1>7. /\ FlagAt(g, A, gs, i, a) => gs[i].key = Key(g, a.key) /\ gs[i].args[1] = a
      /\ WordAt(g, gs, i, a) => gs[i].key = g.slot /\ ~g.once
  BY <1>5, OptionIs
<1>8. /\ FlagAt(g, A, gs, i + 1, b) => gs[i + 1].key = Key(g, b.key) /\ gs[i + 1].args[1] = b
      /\ WordAt(g, gs, i + 1, b) => gs[i + 1].key = g.slot /\ ~g.once
  <2> DEFINE k == i + 1
  <2>1. OptionAt(g, A, gs, k, b) BY <1>6
  <2> HIDE DEF k
  <2>2. /\ FlagAt(g, A, gs, k, b) => gs[k].key = Key(g, b.key) /\ gs[k].args[1] = b
        /\ WordAt(g, gs, k, b) => gs[k].key = g.slot /\ ~g.once
    BY <2>1, OptionIs
  <2> QED BY <2>2 DEF k
<1>9. \A j \in 1 .. i - 1 : j \in 1 .. n /\ j # i /\ j # i + 1 /\ hs[j] = gs[j] BY <1>1
<1>10. i \in 1 .. (i + 1) - 1 /\ \A j \in 1 .. (i + 1) - 1 : j \in 1 .. i - 1 \/ j = i OBVIOUS
<1>11. \A j \in 1 .. i - 1 : j \in 1 .. (i + 1) - 1 OBVIOUS
<1>12. ASSUME NEW k \in 1 .. n, k < i PROVE ReadAt(g, A, hs, k)
  <2>1. \A j \in 1 .. k : gs[j] = hs[j] BY <1>1, <1>12
  <2> QED BY <1>2, <2>1, ReadSame
<1>13. ReadAt(g, A, hs, i)
  <2>1. \A key : Before(hs, i, key) => Before(gs, i + 1, key) BY <1>9, <1>11 DEF Before
  <2>2. Repeated(g, hs, i, b) => Repeated(g, gs, i + 1, b) BY <1>9, <1>11 DEF Repeated
  <2>3. OptionAt(g, A, hs, i, b)
    <3>1. FlagAt(g, A, gs, i + 1, b) => FlagAt(g, A, hs, i, b) BY <1>1, <2>2 DEF FlagAt
    <3>2. WordAt(g, gs, i + 1, b) => WordAt(g, hs, i, b) BY <1>1, <2>1 DEF WordAt
    <3> QED BY <1>6, <3>1, <3>2 DEF OptionAt
  <2>4. i > 1 => hs[i - 1].key # "--"
    <3>1. i > 1 => i - 1 \in 1 .. i - 1 OBVIOUS
    <3> QED BY <1>1, <1>2, <1>9, <3>1 DEF ReadAt
  <2> QED BY <1>3, <2>3, <2>4 DEF ReadAt, OptionAt
<1>14. ReadAt(g, A, hs, i + 1)
  <2>1. OptionAt(g, A, hs, i + 1, a)
    <3>1. ASSUME FlagAt(g, A, gs, i, a) PROVE FlagAt(g, A, hs, i + 1, a)
      <4>1. ~Repeated(g, hs, i + 1, a)
        <5>1. ~Repeated(g, gs, i, a) BY <3>1 DEF FlagAt
        <5>2. g.once => hs[i].args[1].key # a.key
          <6>1. g.once => FlagAt(g, A, gs, i + 1, b) BY <1>6, <1>8 DEF OptionAt
          <6>2. g.once => b.key # a.key BY <1>7, <1>8, <3>1, <6>1
          <6> QED BY <1>1, <1>8, <6>1, <6>2
        <5> QED BY <1>9, <1>10, <5>1, <5>2 DEF Repeated
      <4> QED BY <1>1, <3>1, <4>1 DEF FlagAt
    <3>2. ASSUME WordAt(g, gs, i, a) PROVE WordAt(g, hs, i + 1, a)
      <4>1. Before(hs, i + 1, g.slot) => Before(gs, i, g.slot)
        <5>1. hs[i].key # g.slot BY <1>1, <1>7, <3>2
        <5> QED BY <1>9, <1>10, <5>1 DEF Before
      <4> QED BY <1>1, <3>2, <4>1 DEF WordAt
    <3> QED BY <1>5, <3>1, <3>2 DEF OptionAt
  <2>2. hs[(i + 1) - 1].key # "--"
    <3>1. (i + 1) - 1 = i OBVIOUS
    <3> QED BY <1>1, <3>1 DEF Movable
  <2>3. i + 1 > Len(First(g)) BY <1>3 DEF WellFormed
  <2> QED BY <2>1, <2>2, <2>3 DEF ReadAt, OptionAt
<1>15. ASSUME NEW k \in 1 .. n, k > i + 1 PROVE ReadAt(g, A, hs, k)
  <2>1. /\ i \in 1 .. k - 1 /\ i + 1 \in 1 .. k - 1 /\ k # i /\ k # i + 1
        /\ \A j \in 1 .. k - 1 : j \in 1 .. n
    BY <1>15, <1>1
  <2>2. \A j \in 1 .. k - 1 : j = i \/ j = i + 1 \/ hs[j] = gs[j] BY <1>1, <2>1
  <2>3. \A key : Before(hs, k, key) <=> Before(gs, k, key)
    <3>1. ASSUME NEW key, NEW j \in 1 .. k - 1, hs[j].key = key PROVE \E m \in 1 .. k - 1 : gs[m].key = key
      BY <3>1, <1>1, <2>1, <2>2
    <3>2. ASSUME NEW key, NEW j \in 1 .. k - 1, gs[j].key = key PROVE \E m \in 1 .. k - 1 : hs[m].key = key
      BY <3>2, <1>1, <2>1, <2>2
    <3> QED BY <3>1, <3>2 DEF Before
  <2>4. \A x : Repeated(g, hs, k, x) <=> Repeated(g, gs, k, x)
    <3>1. ASSUME NEW x, NEW j \in 1 .. k - 1, hs[j].args[1].key = x.key
          PROVE  \E m \in 1 .. k - 1 : gs[m].args[1].key = x.key
      BY <3>1, <1>1, <2>1, <2>2
    <3>2. ASSUME NEW x, NEW j \in 1 .. k - 1, gs[j].args[1].key = x.key
          PROVE  \E m \in 1 .. k - 1 : hs[m].args[1].key = x.key
      BY <3>2, <1>1, <2>1, <2>2
    <3> QED BY <3>1, <3>2 DEF Repeated
  <2>5. hs[k] = gs[k] BY <1>1, <2>1
  <2>6. PICK x \in A :
          \/ LeadAt(g, gs, k, x)
          \/ k > Len(First(g)) /\ (FlagAt(g, A, gs, k, x) \/ WordAt(g, gs, k, x) \/ CommandAt(g, gs, k, x))
    BY <1>2 DEF ReadAt
  <2>7. LeadAt(g, gs, k, x) => LeadAt(g, hs, k, x) BY <2>5 DEF LeadAt
  <2>8. FlagAt(g, A, gs, k, x) => FlagAt(g, A, hs, k, x) BY <2>4, <2>5 DEF FlagAt
  <2>9. WordAt(g, gs, k, x) => WordAt(g, hs, k, x) BY <2>3, <2>5 DEF WordAt
  <2>10. CommandAt(g, gs, k, x) => CommandAt(g, hs, k, x) BY <2>3, <2>5 DEF CommandAt, BeginsCommand
  <2>11. k > 1 => hs[k - 1].key # "--"
    <3>1. k - 1 \in 1 .. k - 1 BY <2>1
    <3>2. k > 1 => gs[k - 1].key # "--" BY <1>2 DEF ReadAt
    <3>3. k - 1 # i BY <1>15, <1>1
    <3> QED BY <1>1, <2>2, <3>1, <3>2, <3>3 DEF Movable
  <2> QED BY <2>6, <2>7, <2>8, <2>9, <2>10, <2>11 DEF ReadAt
<1>16. \A k \in 1 .. n : k < i \/ k = i \/ k = i + 1 \/ k > i + 1 BY <1>1
<1> QED BY <1>1, <1>12, <1>13, <1>14, <1>15, <1>16 DEF AllRead

(* What is before and after two neighbours that change places. *)
Parted(L, s, w, i) ==
  \E u, v \in Seq(L) : /\ s = Append(Append(u, s[i]), s[i + 1]) \o v
                       /\ w = Append(Append(u, s[i + 1]), s[i]) \o v

(* There are such parts. *)
LEMMA ExchangedParts ==
  ASSUME NEW L, NEW s \in Seq(L), NEW i \in Nat \ {0}, i + 1 <= Len(s), NEW w, w = Exchanged(s, i)
  PROVE  w \in Seq(L) /\ Len(w) = Len(s) /\ Parted(L, s, w, i)
<1> DEFINE n == Len(s)
           x == s[i]
           y == s[i + 1]
           u == SubSeq(s, 1, i - 1)
           v == SubSeq(s, i + 2, n)
           m == n - (i + 1)
<1>1. n \in Nat /\ i - 1 \in Nat /\ i + 1 \in Nat /\ i + 2 \in Nat \ {0} /\ m \in Nat OBVIOUS
<1>2. DOMAIN s = 1 .. n /\ i \in 1 .. n /\ i + 1 \in 1 .. n /\ i # i + 1 OBVIOUS
<1>3. \A j \in 1 .. n : s[j] \in L BY <1>2
<1>4. w = [j \in 1 .. n |-> IF j = i THEN y ELSE IF j = i + 1 THEN x ELSE s[j]]
  BY <1>2 DEF Exchanged
<1>5. x \in L /\ y \in L BY <1>2, <1>3
<1>6. /\ w \in Seq(L) /\ Len(w) = n /\ w[i] = y /\ w[i + 1] = x
      /\ \A j \in 1 .. n : j # i /\ j # i + 1 => w[j] = s[j]
  <2> HIDE DEF n, x, y
  <2>1. \A j \in 1 .. n : (IF j = i THEN y ELSE IF j = i + 1 THEN x ELSE s[j]) \in L BY <1>3, <1>5
  <2>2. w \in Seq(L) /\ Len(w) = n BY <1>1, <1>4, <2>1
  <2> QED BY <1>2, <1>4, <2>2
<1>7. /\ u \in Seq(L) /\ Len(u) = i - 1 /\ \A j \in 1 .. i - 1 : u[j] = s[j]
  <2> DEFINE k == i - 1
  <2>1. k \in Nat /\ k <= Len(s) /\ 1 <= k + 1 /\ (k - 1) + 1 = k OBVIOUS
  <2> HIDE DEF k
  <2>2. /\ SubSeq(s, 1, k) \in Seq(L) /\ Len(SubSeq(s, 1, k)) = (k - 1) + 1
        /\ \A j \in 1 .. ((k - 1) + 1) : SubSeq(s, 1, k)[j] = s[(1 + j) - 1]
    BY <2>1, Parts
  <2>3. \A j \in 1 .. k : (1 + j) - 1 = j OBVIOUS
  <2> QED BY <2>1, <2>2, <2>3 DEF k
<1>8. /\ v \in Seq(L) /\ Len(v) = m /\ \A j \in 1 .. m : v[j] = s[(i + 1) + j]
  <2> DEFINE k == i + 2
  <2>1. k \in Nat \ {0} /\ n <= Len(s) /\ k <= n + 1 /\ (n - k) + 1 = m OBVIOUS
  <2>2. \A j \in 1 .. m : (k + j) - 1 = (i + 1) + j OBVIOUS
  <2> HIDE DEF k, m
  <2>3. /\ SubSeq(s, k, n) \in Seq(L) /\ Len(SubSeq(s, k, n)) = (n - k) + 1
        /\ \A j \in 1 .. ((n - k) + 1) : SubSeq(s, k, n)[j] = s[(k + j) - 1]
    BY <1>1, <2>1, Parts
  <2> QED BY <2>1, <2>2, <2>3 DEF k
<1>9. ASSUME NEW a \in L, NEW b \in L, NEW t \in Seq(L), Len(t) = n, t[i] = a, t[i + 1] = b,
             \A j \in 1 .. n : j # i /\ j # i + 1 => t[j] = s[j]
      PROVE  t = Append(Append(u, a), b) \o v
  <2> DEFINE ua == Append(u, a)
             ub == Append(ua, b)
             z == ub \o v
  <2> HIDE DEF u, v, n, x, y, m
  <2>1. ua \in Seq(L) /\ Len(ua) = i /\ ua[i] = a /\ \A j \in 1 .. i - 1 : ua[j] = s[j]
    <3>1. ua \in Seq(L) /\ Len(ua) = Len(u) + 1 /\ ua[Len(u) + 1] = a /\ \A j \in 1 .. Len(u) : ua[j] = u[j]
      BY <1>7, AppendProperties
    <3>2. (i - 1) + 1 = i OBVIOUS
    <3> QED BY <1>7, <3>1, <3>2
  <2> HIDE DEF ua
  <2>2. ub \in Seq(L) /\ Len(ub) = i + 1 /\ ub[i + 1] = b /\ \A j \in 1 .. i : ub[j] = ua[j]
    BY <2>1, AppendProperties
  <2> HIDE DEF ub
  <2>3. /\ z \in Seq(L) /\ Len(z) = (i + 1) + m
        /\ \A j \in 1 .. (i + 1) : z[j] = ub[j]
        /\ \A j \in 1 .. m : z[(i + 1) + j] = v[j]
    <3>1. v \in Seq(L) /\ Len(v) = m BY <1>8
    <3>2. Follows(L, ub, v, z) BY <2>2, <3>1, FollowsIs
    <3> HIDE DEF z
    <3>3. /\ z \in Seq(L) /\ Len(z) = Len(ub) + Len(v)
          /\ \A j \in 1 .. Len(ub) + Len(v) : z[j] = IF j <= Len(ub) THEN ub[j] ELSE v[j - Len(ub)]
      BY <3>2, Zenon DEF Follows
    <3>4. ASSUME NEW j \in 1 .. m PROVE z[(i + 1) + j] = v[j]
      <4> DEFINE l == (i + 1) + j
      <4>1. l \in 1 .. Len(ub) + Len(v) /\ ~(l <= Len(ub)) /\ l - Len(ub) = j BY <2>2, <3>1
      <4> HIDE DEF l
      <4>2. z[l] = v[j] BY <3>3, <4>1
      <4> QED BY <4>2 DEF l
    <3>5. ASSUME NEW j \in 1 .. (i + 1) PROVE z[j] = ub[j]
      BY <2>2, <3>1, <3>3
    <3> QED BY <2>2, <3>1, <3>3, <3>4, <3>5
  <2>4. (i + 1) + m = n BY <1>1 DEF m
  <2> HIDE DEF z
  <2>5. ASSUME NEW j \in 1 .. n PROVE z[j] = t[j]
    <3>1. CASE j < i
      <4>1. j \in 1 .. i - 1 /\ j \in 1 .. i /\ j \in 1 .. (i + 1) /\ j # i /\ j # i + 1 BY <3>1, <1>1
      <4> QED BY <4>1, <1>9, <2>1, <2>2, <2>3
    <3>2. CASE j = i
      <4>1. i \in 1 .. i /\ i \in 1 .. (i + 1) BY <1>1
      <4> QED BY <4>1, <3>2, <1>9, <2>1, <2>2, <2>3
    <3>3. CASE j = i + 1
      <4>1. i + 1 \in 1 .. (i + 1) BY <1>1
      <4> QED BY <4>1, <3>3, <1>9, <2>2, <2>3
    <3>4. CASE j > i + 1
      <4> DEFINE d == j - (i + 1)
      <4>1. d \in 1 .. m /\ (i + 1) + d = j /\ j # i /\ j # i + 1 BY <3>4, <1>1, <2>4
      <4> HIDE DEF d
      <4> QED BY <4>1, <1>8, <1>9, <2>3
    <3>5. j < i \/ j = i \/ j = i + 1 \/ j > i + 1 BY <1>1
    <3> QED BY <3>1, <3>2, <3>3, <3>4, <3>5
  <2>6. z = t BY <1>9, <2>3, <2>4, <2>5, SeqEqual
  <2> QED BY <2>6 DEF z, ub, ua
<1>10. s = Append(Append(u, x), y) \o v
  <2> HIDE DEF u, v
  <2>1. s \in Seq(L) /\ Len(s) = n /\ s[i] = x /\ s[i + 1] = y OBVIOUS
  <2> HIDE DEF n, x, y
  <2> QED BY <1>5, <1>9, <2>1
<1>11. w = Append(Append(u, y), x) \o v
  <2> HIDE DEF u, v, n, x, y
  <2> QED BY <1>5, <1>6, <1>9
<1>12. Parted(L, s, w, i)
  <2>1. u \in Seq(L) /\ v \in Seq(L) BY <1>7, <1>8
  <2>2. s = Append(Append(u, s[i]), s[i + 1]) \o v BY <1>10
  <2>3. w = Append(Append(u, s[i + 1]), s[i]) \o v BY <1>11
  <2> HIDE DEF u, v
  <2> QED BY <2>1, <2>2, <2>3, Zenon DEF Parted
<1> QED BY <1>6, <1>12

(* Where one of the two is empty nothing changes. *)
LEMMA FlatExchanged ==
  ASSUME NEW A, NEW t \in Seq(Seq(A)), NEW i \in Nat \ {0}, i + 1 <= Len(t), t[i] = <<>> \/ t[i + 1] = <<>>,
         NEW w, w = Exchanged(t, i)
  PROVE  FlattenSeq(w) = FlattenSeq(t)
<1> DEFINE S == Seq(A)
<1>1. t \in Seq(S) OBVIOUS
<1>2. t[i] \in S /\ t[i + 1] \in S
  <2>1. i \in 1 .. Len(t) /\ i + 1 \in 1 .. Len(t) OBVIOUS
  <2> QED BY <1>1, <2>1
<1> DEFINE x == t[i]
           y == t[i + 1]
<1>3. PICK u \in Seq(S), v \in Seq(S) : t = Append(Append(u, x), y) \o v /\ w = Append(Append(u, y), x) \o v
  <2> HIDE DEF S
  <2>1. Parted(S, t, w, i) BY <1>1, ExchangedParts
  <2> QED BY <2>1, Zenon DEF Parted
<1>4. x \in S /\ y \in S /\ (x = <<>> \/ y = <<>>) BY <1>2
<1> HIDE DEF x, y
<1>5. ASSUME NEW a \in S, NEW b \in S
      PROVE  FlattenSeq(Append(Append(u, a), b) \o v) = ((FlattenSeq(u) \o a) \o b) \o FlattenSeq(v)
  <2> DEFINE ua == Append(u, a)
             ub == Append(ua, b)
  <2>1. ua \in Seq(S)
    <3> HIDE DEF S
    <3> QED BY AppendProperties
  <2>2. FlattenSeq(ua) = FlattenSeq(u) \o a BY FlatAppend
  <2> HIDE DEF ua
  <2>3. ub \in Seq(S)
    <3> HIDE DEF S
    <3> QED BY <2>1, AppendProperties
  <2>4. FlattenSeq(ub) = FlattenSeq(ua) \o b BY <2>1, FlatAppend
  <2> HIDE DEF ub
  <2>5. FlattenSeq(ub \o v) = FlattenSeq(ub) \o FlattenSeq(v) BY <2>3, FlatConcat
  <2> QED BY <2>2, <2>4, <2>5 DEF ua, ub
<1>6. FlattenSeq(u) \in S BY FlatType
<1>7. \A f \in S, a \in S : (f \o a) \o <<>> = f \o a /\ (f \o <<>>) \o a = f \o a
  <2>1. \A f \in S, a \in S : f \o a \in S BY Concats
  <2>2. \A f \in S : f \o <<>> = f BY Concats
  <2> HIDE DEF S
  <2> QED BY <2>1, <2>2
<1>8. (FlattenSeq(u) \o x) \o y = (FlattenSeq(u) \o y) \o x
  <2> HIDE DEF S
  <2>1. CASE x = <<>> BY <1>4, <1>6, <1>7, <2>1
  <2>2. CASE y = <<>> BY <1>4, <1>6, <1>7, <2>2
  <2> QED BY <1>4, <2>1, <2>2
<1>9. FlattenSeq(t) = ((FlattenSeq(u) \o x) \o y) \o FlattenSeq(v) BY <1>3, <1>4, <1>5
<1>10. FlattenSeq(w) = ((FlattenSeq(u) \o y) \o x) \o FlattenSeq(v) BY <1>3, <1>4, <1>5
<1> QED BY <1>8, <1>9, <1>10

(* All that the commands ask of what has been read. *)
KeysIn(r) == {r.groups[j].key : j \in DOMAIN r.groups}
Alike(q, r) ==
  /\ \A key : Given(q, key) = Given(r, key)
  /\ KeysIn(q) = KeysIn(r) /\ Command(q) = Command(r) /\ Len(q.groups) = Len(r.groups)
  /\ q.refused = r.refused /\ q.open = r.open

(* It stays when neighbours of different kinds change places. *)
LEMMA ExchangedAlike ==
  ASSUME NEW G, NEW r, r.groups \in Seq(G), NEW i \in Nat \ {0}, i + 1 <= Len(r.groups),
         r.groups[i].key # r.groups[i + 1].key, r.groups[i].key # "--", r.groups[i + 1].key # "--",
         NEW q, q.groups = Exchanged(r.groups, i), q.refused = r.refused, q.open = r.open
  PROVE  Alike(q, r)
<1> DEFINE gs == r.groups
           hs == q.groups
           n == Len(gs)
<1>1. /\ n \in Nat /\ DOMAIN gs = 1 .. n /\ hs \in Seq(G) /\ Len(hs) = n
  <2>1. gs \in Seq(G) /\ hs = Exchanged(gs, i) /\ i + 1 <= Len(gs) OBVIOUS
  <2> HIDE DEF gs, hs, n
  <2>2. hs \in Seq(G) /\ Len(hs) = Len(gs) BY <2>1, ExchangedParts
  <2> QED BY <2>1, <2>2 DEF n
<1>2. i \in 1 .. n /\ i + 1 \in 1 .. n /\ i # i + 1 BY <1>1
<1>3. /\ DOMAIN hs = 1 .. n /\ hs[i] = gs[i + 1] /\ hs[i + 1] = gs[i]
      /\ \A j \in 1 .. n : j # i /\ j # i + 1 => hs[j] = gs[j]
  BY <1>1, <1>2 DEF Exchanged
<1>4. hs = Exchanged(gs, i) /\ gs \in Seq(G) /\ gs[i].key # gs[i + 1].key
      /\ gs[i].key # "--" /\ gs[i + 1].key # "--"
  OBVIOUS
<1>5. ASSUME NEW key PROVE Given(q, key) = Given(r, key)
  <2> DEFINE E(x) == IF x.key = key THEN <<x>> ELSE <<>>
             t == [j \in DOMAIN gs |-> E(gs[j])]
             w == [j \in DOMAIN hs |-> E(hs[j])]
  <2>1. Given(r, key) = FlattenSeq(t) /\ Given(q, key) = FlattenSeq(w) BY Zenon DEF Given, Picked
  <2> DEFINE S == Seq(G)
  <2>2. \A x \in G : E(x) \in S
    <3>1. <<>> \in S /\ \A x \in G : <<x>> \in S OBVIOUS
    <3> HIDE DEF S
    <3> QED BY <3>1
  <2>3. E(gs[i]) = <<>> \/ E(gs[i + 1]) = <<>> BY <1>4
  <2> HIDE DEF E, gs, hs, n
  <2>4. \A j \in 1 .. n : gs[j] \in G BY <1>1, <1>4
  <2>5. t \in Seq(S) /\ Len(t) = n
    <3>1. t = [j \in 1 .. n |-> E(gs[j])] BY <1>1
    <3>2. \A j \in 1 .. n : E(gs[j]) \in S BY <2>2, <2>4
    <3> HIDE DEF t, S
    <3> QED BY <3>1, <3>2, <1>1
  <2>6. w = Exchanged(t, i)
    <3>1. DOMAIN t = 1 .. n BY <1>1
    <3>2. t[i] = E(gs[i]) /\ t[i + 1] = E(gs[i + 1]) /\ \A j \in 1 .. n : t[j] = E(gs[j]) BY <1>1, <1>2
    <3>3. w = [j \in 1 .. n |-> E(hs[j])] BY <1>3
    <3>4. Exchanged(t, i) = [j \in 1 .. n |-> IF j = i THEN t[i + 1] ELSE IF j = i + 1 THEN t[i] ELSE t[j]]
      BY <3>1 DEF Exchanged
    <3> HIDE DEF t, w
    <3>5. \A j \in 1 .. n : E(hs[j]) = IF j = i THEN t[i + 1] ELSE IF j = i + 1 THEN t[i] ELSE t[j]
      BY <1>2, <1>3, <3>2
    <3> QED BY <3>3, <3>4, <3>5
  <2>7. t[i] = <<>> \/ t[i + 1] = <<>>
    <3>1. t[i] = E(gs[i]) /\ t[i + 1] = E(gs[i + 1]) BY <1>1, <1>2
    <3> QED BY <2>3, <3>1
  <2>8. i + 1 <= Len(t) BY <1>2, <2>5
  <2> HIDE DEF t, w
  <2>9. t \in Seq(Seq(G)) BY <2>5 DEF S
  <2>10. FlattenSeq(w) = FlattenSeq(t) BY <2>6, <2>7, <2>8, <2>9, FlatExchanged
  <2> QED BY <2>1, <2>10
<1>6. KeysIn(q) = KeysIn(r)
  <2>1. \A j \in 1 .. n : \E m \in 1 .. n : hs[j] = gs[m] BY <1>2, <1>3
  <2>2. \A j \in 1 .. n : \E m \in 1 .. n : gs[j] = hs[m] BY <1>2, <1>3
  <2>3. KeysIn(r) = {gs[j].key : j \in 1 .. n} /\ KeysIn(q) = {hs[j].key : j \in 1 .. n}
    <3>1. KeysIn(r) = {gs[j].key : j \in DOMAIN gs} /\ KeysIn(q) = {hs[j].key : j \in DOMAIN hs}
      BY Zenon DEF KeysIn
    <3>2. DOMAIN gs = 1 .. n /\ DOMAIN hs = 1 .. n BY <1>1, <1>3
    <3> HIDE DEF gs, hs, n
    <3> QED BY <3>1, <3>2
  <2> HIDE DEF gs, hs, n
  <2> DEFINE U == {gs[j].key : j \in 1 .. n}
             V == {hs[j].key : j \in 1 .. n}
  <2>4. ASSUME NEW j \in 1 .. n PROVE gs[j].key \in V
    <3>1. PICK m \in 1 .. n : gs[j] = hs[m] BY <2>2
    <3> QED BY <3>1
  <2>5. ASSUME NEW j \in 1 .. n PROVE hs[j].key \in U
    <3>1. PICK m \in 1 .. n : hs[j] = gs[m] BY <2>1
    <3> QED BY <3>1
  <2>6. U \subseteq V /\ V \subseteq U BY <2>4, <2>5
  <2>7. U = V BY <2>6
  <2> QED BY <2>3, <2>7
<1>7. Command(q) = Command(r)
  <2> HIDE DEF gs, hs, n
  <2>1. gs # <<>> /\ hs # <<>> BY <1>1, <1>2
  <2>2. Last(gs) = gs[n] /\ Last(hs) = hs[n] BY <1>1 DEF Last, n
  <2>3. CASE n = i + 1
    <3>1. gs[n] = gs[i + 1] /\ hs[n] = gs[i] BY <2>3, <1>3
    <3>2. ~InCommand(q) /\ ~InCommand(r) BY <1>4, <2>2, <3>1 DEF InCommand, gs, hs
    <3> QED BY <3>2, Zenon DEF Command
  <2>4. CASE n # i + 1
    <3>1. n \in 1 .. n /\ n # i BY <2>4, <1>1, <1>2
    <3>2. Last(gs) = Last(hs) BY <1>3, <2>2, <2>4, <3>1
    <3>3. InCommand(q) <=> InCommand(r) BY <2>1, <3>2 DEF InCommand, gs, hs
    <3> QED BY <3>2, <3>3, Zenon DEF Command, gs, hs
  <2> QED BY <2>3, <2>4
<1> QED BY <1>1, <1>5, <1>6, <1>7 DEF Alike

(* What the handlers are called with depends on nothing else. *)
LEMMA AlikeMeans ==
  ASSUME NEW q, NEW r, Alike(q, r), NEW op, NEW g
  PROVE  /\ Complete(g, q) <=> Complete(g, r)
         /\ Sensible(op, q) <=> Sensible(op, r)
         /\ Meaning(op, g, q) = Meaning(op, g, r)
<1>1. \A key : Given(q, key) = Given(r, key) BY DEF Alike
<1>2. /\ KeysIn(q) = KeysIn(r) /\ Command(q) = Command(r) /\ Len(q.groups) = Len(r.groups)
      /\ q.refused = r.refused /\ q.open = r.open
  BY DEF Alike
<1>3. \A key : Has(q, key) <=> Has(r, key) BY <1>1 DEF Has
<1>4. \A key : Values(q, key) = Values(r, key)
  <2> DEFINE V(given) == [i \in DOMAIN given |-> ValueOf(given[i])]
  <2>1. \A x, key : Values(x, key) = V(Given(x, key)) BY Zenon DEF Values
  <2> HIDE DEF V
  <2> QED BY <1>1, <2>1
<1>5. \A key : Value(q, key) = Value(r, key) BY <1>3, <1>4, Zenon DEF Value
<1>6. Complete(g, q) <=> Complete(g, r) BY <1>2, <1>3, Zenon DEF Complete
<1>7. Member(q) = Member(r) BY <1>3, <1>4, <1>5, Zenon DEF Member
<1>8. MemberGiven(q) <=> MemberGiven(r) BY <1>1, <1>2, Zenon DEF MemberGiven, MemberMissing, KeysIn
<1>9. Keyed(q) = Keyed(r)
  <2> DEFINE P(given) == Picked(given, LAMBDA a : a.eq)
  <2>1. \A x : Keyed(x) = P(Values(x, "--credential-expires-at")) BY Zenon DEF Keyed
  <2> HIDE DEF P
  <2> QED BY <1>4, <2>1
<1>10. CredentialKey(q) = CredentialKey(r) BY <1>3, <1>5, <1>9, Zenon DEF CredentialKey
<1>11. Inner(q) = Inner(r) BY <1>4, Zenon DEF Inner
<1>12. ProfileGiven(op, q) <=> ProfileGiven(op, r) BY <1>1, <1>3, <1>11, Zenon DEF ProfileGiven
<1>13. Fields(g, q) = Fields(g, r) BY <1>2, <1>4, <1>5, Zenon DEF Fields, KeysIn
<1>14. Sensible(op, q) <=> Sensible(op, r)
  BY <1>2, <1>3, <1>5, <1>7, <1>8, <1>10, <1>12, SMT DEF Sensible
<1>15. Unread(op, q) = Unread(op, r)
  <2>1. \A key : Has(q, key) = Has(r, key) BY <1>1, Zenon DEF Has
  <2> QED BY <1>5, <2>1, SMT DEF Unread
<1>16. Passed(op, g, q) = Passed(op, g, r) BY <1>13, <1>15, Zenon DEF Passed
<1>17. Removed(q) = Removed(r) BY <1>7, Zenon DEF Removed
<1>18. Meaning(op, g, q) = Meaning(op, g, r)
  BY <1>5, <1>7, <1>10, <1>11, <1>16, <1>17, Zenon DEF Meaning
<1> QED BY <1>6, <1>14, <1>18

(* The words of a command are a sequence. *)
Pathed(c) == DOMAIN c.path = 1 .. Len(c.path)

(* Those of every command. *)
LEMMA Paths == \A c \in Commands : Pathed(c)
<1>1. \A op, g, p : Is(op, p, g).path = p BY DEF Is
<1>2. \A op, x, g : Pathed(Top(op, x, g))
  <2>1. \A x : DOMAIN <<x>> = 1 .. 1 /\ Len(<<x>>) = 1 OBVIOUS
  <2> QED BY <1>1, <2>1 DEF Pathed, Top
<1>3. \A op, x, y, g : Pathed(Sub(op, x, y, g))
  <2>1. \A x, y : DOMAIN <<x, y>> = 1 .. 2 /\ Len(<<x, y>>) = 2 OBVIOUS
  <2> QED BY <1>1, <2>1 DEF Pathed, Sub
<1>4. \A op, x, y, z, g : Pathed(Deep(op, x, y, z, g))
  <2>1. \A x, y, z : DOMAIN <<x, y, z>> = 1 .. 3 /\ Len(<<x, y, z>>) = 3 OBVIOUS
  <2> QED BY <1>1, <2>1 DEF Pathed, Deep
<1> DEFINE EachPathed(S) == \A c \in S : Pathed(c)
<1>5. EachPathed(TopCommands) BY <1>2, <1>3, SMTT(60) DEF TopCommands
<1>6. EachPathed(SandboxCommands) BY <1>3, <1>4, SMTT(60) DEF SandboxCommands
<1>7. EachPathed(GatewayCommands) BY <1>3, SMTT(60) DEF GatewayCommands
<1>8. EachPathed(PolicyCommands) BY <1>3, SMTT(60) DEF PolicyCommands
<1>9. EachPathed(ProviderCommands) BY <1>3, <1>4, SMTT(60) DEF ProviderCommands
<1>10. EachPathed(ProfileCommands) BY <1>3, <1>4, SMTT(60) DEF ProfileCommands
<1>11. EachPathed(WorkspaceCommands) BY <1>3, <1>4, SMTT(60) DEF WorkspaceCommands
<1>12. EachPathed(StoreCommands) BY <1>3, SMTT(60) DEF StoreCommands
<1> QED BY <1>5, <1>6, <1>7, <1>8, <1>9, <1>10, <1>11, <1>12 DEF Commands

(* What follows the first of two sequences is the second. *)
LEMMA RestOf ==
  ASSUME NEW A, NEW pre \in Seq(A), NEW rest \in Seq(A), NEW new, new = pre \o rest
  PROVE  SubSeq(new, Len(pre) + 1, Len(new)) = rest
<1> DEFINE p == Len(pre)
           m == Len(rest)
           k == p + 1
           l == Len(new)
           q == SubSeq(new, k, l)
<1>1. /\ p \in Nat /\ m \in Nat /\ new \in Seq(A) /\ l = p + m
      /\ \A j \in 1 .. p + m : new[j] = IF j <= p THEN pre[j] ELSE rest[j - p]
  <2>1. Follows(A, pre, rest, new) BY FollowsIs
  <2> QED BY <2>1 DEF Follows
<1> HIDE DEF p, m
<1>2. k \in Nat \ {0} /\ l \in Nat /\ l <= Len(new) /\ k <= l + 1 /\ (l - k) + 1 = m BY <1>1
<1>3. \A j \in 1 .. m : (k + j) - 1 = p + j /\ p + j \in 1 .. p + m /\ ~(p + j <= p) /\ (p + j) - p = j BY <1>1
<1> HIDE DEF k, l
<1>4. /\ SubSeq(new, k, l) \in Seq(A) /\ Len(SubSeq(new, k, l)) = (l - k) + 1
      /\ \A j \in 1 .. ((l - k) + 1) : SubSeq(new, k, l)[j] = new[(k + j) - 1]
  BY <1>1, <1>2, Parts
<1>5. q \in Seq(A) /\ Len(q) = m /\ \A j \in 1 .. m : q[j] = new[(k + j) - 1] BY <1>2, <1>4
<1> HIDE DEF q
<1>6. \A j \in 1 .. m : q[j] = rest[j] BY <1>1, <1>3, <1>5
<1>7. q = rest BY <1>5, <1>6, SeqEqual DEF m
<1> QED BY <1>7 DEF q, k, l, p

(* Other arguments after the words of a command are arguments of the same. *)
Finds(c, new, rest) == Matching(new) # {} /\ Matched(new) = c /\ After(c, new) = rest

(* They find it again. *)
LEMMA SameFound ==
  ASSUME NEW A, NEW args \in Seq(A), NEW c \in Matching(args), c.grammar \notin {Plain, NameOnly},
         NEW rest \in Seq(A), NEW new, new = SubSeq(args, 1, Len(c.path)) \o rest
  PROVE  Finds(c, new, rest)
<1> DEFINE p == Len(c.path)
           pre == SubSeq(args, 1, p)
<1>1. c \in Commands /\ Starts(c.path, args) BY DEF Matching
<1>2. p \in Nat /\ p <= Len(args) /\ DOMAIN c.path = 1 .. p
  <2>1. p \in 1 .. 3 BY <1>1, PathLengths
  <2>2. Len(args) >= p BY <1>1 DEF Starts
  <2> QED BY <1>1, <2>1, <2>2, Paths DEF Pathed
<1> HIDE DEF p
<1>3. pre \in Seq(A) /\ Len(pre) = p /\ \A j \in 1 .. p : pre[j] = args[j]
  <2>1. 1 <= p + 1 /\ (p - 1) + 1 = p BY <1>2
  <2>2. /\ SubSeq(args, 1, p) \in Seq(A) /\ Len(SubSeq(args, 1, p)) = (p - 1) + 1
        /\ \A j \in 1 .. ((p - 1) + 1) : SubSeq(args, 1, p)[j] = args[(1 + j) - 1]
    BY <1>2, <2>1, Parts
  <2>3. \A j \in 1 .. p : (1 + j) - 1 = j OBVIOUS
  <2> QED BY <2>1, <2>2, <2>3
<1>4. new = pre \o rest BY DEF p
<1> HIDE DEF pre
<1> DEFINE m == Len(rest)
<1>5. m \in Nat OBVIOUS
<1>6. /\ new \in Seq(A) /\ Len(new) = p + m
      /\ \A j \in 1 .. p : new[j] = args[j]
      /\ \A j \in 1 .. m : new[p + j] = rest[j]
  <2>1. /\ new \in Seq(A) /\ Len(new) = Len(pre) + m
        /\ \A j \in 1 .. Len(pre) : new[j] = pre[j]
        /\ \A j \in 1 .. m : new[Len(pre) + j] = rest[j]
    <3>1. Follows(A, pre, rest, new) BY <1>3, <1>4, FollowsIs
    <3>2. /\ new \in Seq(A) /\ Len(new) = Len(pre) + Len(rest)
          /\ \A j \in 1 .. Len(pre) + Len(rest) : new[j] = IF j <= Len(pre) THEN pre[j] ELSE rest[j - Len(pre)]
      BY <3>1, Zenon DEF Follows
    <3> QED BY <1>3, <1>5, <3>2, SMTT(30)
  <2> QED BY <1>3, <2>1
<1>7. Starts(c.path, new)
  <2>1. Len(new) >= p BY <1>2, <1>5, <1>6
  <2> QED BY <1>1, <1>2, <1>6, <2>1 DEF Starts, p
<1>8. c \in Matching(new)
  <2>1. ASSUME NEW d \in Commands, Starts(d.path, new) PROVE Len(d.path) <= Len(c.path)
    BY <1>1, <1>7, <2>1, ShorterPath
  <2> QED BY <1>1, <1>7, <2>1 DEF Matching
<1>9. Matched(new) = c
  <2>1. Matched(new) \in Matching(new) BY <1>8, Zenon DEF Matched
  <2> QED BY <1>8, <2>1, OneCommand
<1>10. After(c, new) = rest
  <2>1. After(c, new) = SubSeq(new, p + 1, Len(new)) BY DEF After, p
  <2>2. SubSeq(new, Len(pre) + 1, Len(new)) = rest BY <1>3, <1>4, RestOf, SMTT(30)
  <2> QED BY <1>3, <2>1, <2>2
<1> QED BY <1>8, <1>9, <1>10 DEF Finds

(* Options may be typed in any order, before or after the words: for every  *)
(* line, where two neighbours of different kinds change places the same     *)
(* handler is called with the same (the parsers of src/internal/osargs and  *)
(* src/internal/app/cli/cli.go).                                            *)
THEOREM OrderIsFree == SshSpec => []OrderFree
<1>1. ASSUME TypingInv PROVE OrderFree
  <2> SUFFICES ASSUME outcome.how = "called",
                      NEW i \in 1 .. Len(outcome.groups) - 1,
                      Moves(Matched(Rest(line)), outcome.groups[i]),
                      Moves(Matched(Rest(line)), outcome.groups[i + 1]),
                      outcome.groups[i].key # outcome.groups[i + 1].key
               PROVE  LET args == Rest(line)
                          c == Matched(args)
                          other == Called(SubSeq(args, 1, Len(c.path)) \o Flattened(Exchanged(outcome.groups, i)))
                      IN  other.op = outcome.op /\ other.meaning = outcome.meaning
    BY DEF OrderFree
  <2> DEFINE A == LineArgs
             args == Rest(line)
             c == Matched(args)
             g == c.grammar
             r == Scan(g, After(c, args))
             gs == r.groups
             hs == Exchanged(gs, i)
             G == GroupsOf(g, A)
             new == SubSeq(args, 1, Len(c.path)) \o Flattened(hs)
  <2>1. line \in Seq(A) /\ NoFlag \in A BY <1>1 DEF TypingInv, LineArgs
  <2>2. outcome = Executed(line) BY <1>1 DEF TypingInv
  <2>3. /\ args \in Seq(A) /\ c \in Matching(args) /\ Complete(g, r) /\ Sensible(c.op, r)
        /\ outcome = [how |-> "called", op |-> c.op, groups |-> r.groups, meaning |-> Meaning(c.op, g, r)]
    BY <2>1, <2>2, ExecutedCalled
  <2>4. outcome.groups = gs /\ outcome.op = c.op /\ outcome.meaning = Meaning(c.op, g, r) BY <2>3
  <2>5. c \in Commands /\ Starts(c.path, args) BY <2>3 DEF Matching
  <2>6. WellFormed(g) BY <2>5, WellFormedParsers
  <2>7. After(c, args) \in Seq(A) BY <2>3, <2>5, AfterType
  <2>8. ~r.refused /\ r.open = NoFlag BY <2>3 DEF Complete
  <2> HIDE DEF A, args, c
  <2>9. Sound(g, A, r) /\ GroupsRead(g, A, r)
    <3> HIDE DEF g
    <3> QED BY <2>1, <2>6, <2>7, <2>8, ScanKeeps, ScanRead
  <2>10. gs \in Seq(G) /\ r.refused \in BOOLEAN BY <2>9 DEF Sound, Readings
  <2>11. /\ i \in Nat \ {0} /\ i + 1 <= Len(gs) /\ gs[i].key # gs[i + 1].key
         /\ Moves(c, gs[i]) /\ Moves(c, gs[i + 1])
    <3>1. Len(gs) \in Nat
      <4> HIDE DEF gs, G
      <4> QED BY <2>10
    <3>2. i \in 1 .. Len(gs) - 1 BY <2>4
    <3>3. i \in Nat \ {0} /\ i + 1 <= Len(gs) BY <3>1, <3>2
    <3> QED BY <2>4, <3>3 DEF c, args
  <2>12. Movable(g, gs[i]) /\ Movable(g, gs[i + 1]) BY <2>11 DEF Moves, Movable, First
  <2>13. AllRead(g, A, gs) BY <2>9 DEF GroupsRead
  <2> DEFINE K == KeysOf(g, A)
  <2>14. gs \in Seq(Groups(K, A)) BY <2>10 DEF GroupsOf
  <2>15. G = Groups(K, A) BY DEF GroupsOf
  <2> HIDE DEF G, K, r, gs, g
  <2>16. hs \in Seq(G) /\ Len(hs) = Len(gs) BY <2>10, <2>11, ExchangedParts
  <2>17. AllRead(g, A, hs) BY <2>6, <2>10, <2>11, <2>12, <2>13, ExchangedRead
  <2> DEFINE rest == Flattened(hs)
             q == Scan(g, rest)
  <2>18. Reads(q, hs, NoFlag)
    <3>1. \A s \in Seq(GroupsOf(g, A)) : AllRead(g, A, s) => Rebuilt(g, s) BY <2>1, <2>6, AllRebuilt
    <3> HIDE DEF hs
    <3>2. Rebuilt(g, hs) BY <2>16, <2>17, <3>1 DEF G
    <3> QED BY <3>2 DEF Rebuilt
  <2>19. rest \in Seq(A)
    <3>1. gs[i] \in Groups(K, A)
      <4>1. i \in 1 .. Len(gs) BY <2>11, <2>10
      <4> QED BY <4>1, <2>14
    <3> HIDE DEF hs
    <3>2. hs \in Seq(Groups(K, A)) BY <2>15, <2>16
    <3> QED BY <3>1, <3>2, FlattenedAppend
  <2>20. c.grammar \notin {Plain, NameOnly}
    <3>1. ReadAt(g, A, gs, i)
      <4>1. i \in DOMAIN gs BY <2>10, <2>11
      <4> QED BY <4>1, <2>13 DEF AllRead
    <3>2. \E a \in A : OptionAt(g, A, gs, i, a) BY <2>6, <2>11, <2>12, <3>1, MovableRead
    <3>3. \A x \in {Plain, NameOnly} : x.value = {} /\ x.bare = {} /\ x.words = "none"
      <4>1. Plain.value = {} /\ Plain.bare = {} /\ Plain.words = "none" BY DEF Plain
      <4>2. NameOnly.value = {} /\ NameOnly.bare = {} /\ NameOnly.words = "none" BY DEF Plain, NameOnly, Takes
      <4> QED BY <4>1, <4>2
    <3>4. g \notin {Plain, NameOnly}
      BY <3>2, <3>3, Zenon DEF OptionAt, FlagAt, WordAt, IsFlag, IsWord, Known, Accepts
    <3> QED BY <3>4 DEF g
  <2> HIDE DEF rest
  <2>21. Finds(c, new, rest)
    <3>1. new = SubSeq(args, 1, Len(c.path)) \o rest BY DEF rest
    <3> HIDE DEF new
    <3> QED BY <2>3, <2>19, <2>20, <3>1, SameFound
  <2> HIDE DEF new, q, hs
  <2>22. Sound(g, A, q)
    <3>1. ~q.refused BY <2>18 DEF Reads
    <3> QED BY <2>1, <2>19, <3>1, ScanKeeps DEF q
  <2>23. Alike(q, r)
    <3>1. q.groups = hs /\ q.open = NoFlag /\ ~q.refused BY <2>18 DEF Reads
    <3>2. q.refused \in BOOLEAN BY <2>22 DEF Sound, Readings
    <3>3. q.refused = r.refused BY <2>8, <2>10, <3>1, <3>2
    <3>4. gs[i].key # "--" /\ gs[i + 1].key # "--" BY <2>12 DEF Movable
    <3> QED BY <2>8, <2>10, <2>11, <3>1, <3>3, <3>4, ExchangedAlike DEF gs, hs
  <2>24. /\ Complete(g, q) /\ Sensible(c.op, q) /\ Meaning(c.op, g, q) = Meaning(c.op, g, r)
    BY <2>3, <2>23, AlikeMeans DEF g
  <2>25. Called(new) = [how |-> "called", op |-> c.op, meaning |-> Meaning(c.op, g, q), groups |-> q.groups]
    BY <2>21, <2>24, Zenon DEF Called, Finds, g, q
  <2>26. Called(new).op = outcome.op /\ Called(new).meaning = outcome.meaning
    BY <2>4, <2>24, <2>25
  <2> QED BY <2>4, <2>26 DEF new, hs, c, args
<1> QED BY <1>1, TypingInvAlways, PTL
=============================================================================
