---------------------------- MODULE GatewayProofs ----------------------------
(***************************************************************************)
(* Proofs about Gateway: what config.Load accepts serves; a fingerprint    *)
(* tells accepted messages apart; and therefore a ticket answers the very  *)
(* message it was asked with, and a managed one goes to Governance only.   *)
(***************************************************************************)
EXTENDS Gateway, SequenceTheorems, TLAPS

-----------------------------------------------------------------------------
(* Fingerprints                                                            *)

\* Two equal concatenations whose left parts are equally long have equal parts.
LEMMA SplitLeft ==
  ASSUME NEW S, NEW a \in Seq(S), NEW b \in Seq(S), NEW c \in Seq(S), NEW d \in Seq(S),
         Len(a) = Len(b), a \o c = b \o d
  PROVE  a = b /\ c = d
<1>1. /\ Len(a \o c) = Len(a) + Len(c)
      /\ \A i \in 1 .. Len(a) + Len(c) :
           (a \o c)[i] = IF i <= Len(a) THEN a[i] ELSE c[i - Len(a)]
  BY ConcatProperties, Zenon
<1>2. /\ Len(b \o d) = Len(b) + Len(d)
      /\ \A i \in 1 .. Len(b) + Len(d) :
           (b \o d)[i] = IF i <= Len(b) THEN b[i] ELSE d[i - Len(b)]
  BY ConcatProperties, Zenon
<1> DEFINE e == a \o c
<1> HIDE DEF e
<1>3. /\ Len(e) = Len(a) + Len(c)
      /\ \A i \in 1 .. Len(a) + Len(c) : e[i] = IF i <= Len(a) THEN a[i] ELSE c[i - Len(a)]
      /\ Len(e) = Len(b) + Len(d)
      /\ \A i \in 1 .. Len(b) + Len(d) : e[i] = IF i <= Len(b) THEN b[i] ELSE d[i - Len(b)]
  BY <1>1, <1>2, Zenon DEF e
<1>4. Len(a) \in Nat /\ Len(b) \in Nat /\ Len(c) \in Nat /\ Len(d) \in Nat
  OBVIOUS
<1>5. Len(c) = Len(d)
  BY <1>3, <1>4
<1>6. \A i \in 1..Len(a) : a[i] = b[i]
  BY <1>2, <1>4
<1>7. \A i \in 1..Len(c) : c[i] = d[i]
  <2> TAKE i \in 1..Len(c)
  <2>1. /\ Len(a) + i \in 1 .. Len(a) + Len(c) /\ ~(Len(a) + i <= Len(a))
        /\ (Len(a) + i) - Len(a) = i
    BY <1>4
  <2> QED BY <2>1, <1>3, <1>5
<1>8. a = b
  BY <1>6, SeqEqual, Zenon
<1>9. c = d
  BY <1>5, <1>7, SeqEqual, Zenon
<1> QED BY <1>8, <1>9

\* The same, when their right parts are equally long.
LEMMA SplitRight ==
  ASSUME NEW S, NEW a \in Seq(S), NEW b \in Seq(S), NEW c \in Seq(S), NEW d \in Seq(S),
         Len(c) = Len(d), a \o c = b \o d
  PROVE  a = b /\ c = d
<1>1. Len(a \o c) = Len(a) + Len(c) /\ Len(b \o d) = Len(b) + Len(d)
  BY ConcatProperties, Zenon
<1>2. Len(a) + Len(c) = Len(b) + Len(d)
  BY <1>1, Zenon
<1>3. Len(a) \in Nat /\ Len(b) \in Nat /\ Len(c) \in Nat
  OBVIOUS
<1>4. Len(a) = Len(b)
  BY <1>2, <1>3
<1> QED BY <1>4, SplitLeft, Zenon

\* A message that maps is its own request: narrowing to uint16 changes no size that
\* mapRequest lets pass.
LEMMA MapIdentity ==
  ASSUME NEW m, WellFormed(m), Maps(m) PROVE MapRequest(m) = m
<1>1. m.rows \in 0..4096 /\ m.cols \in 0..4096
  <2>1. CASE m.mode = "exec"
    BY <2>1 DEF Maps
  <2>2. CASE m.mode # "exec"
    <3>1. m.rows = 0 /\ m.cols = 0
      BY <2>2, Zenon DEF WellFormed
    <3> QED BY <3>1
  <2> QED BY <2>1, <2>2
<1> DEFINE w == 2^16
<1>2. MapRequest(m) = [m EXCEPT !.rows = @ % w, !.cols = @ % w]
  BY Zenon DEF MapRequest
<1>3. w = 65536
  OBVIOUS
<1> HIDE DEF w
<1>4. m.rows % w = m.rows /\ m.cols % w = m.cols
  <2> DEFINE Sizes == 0..4096
  <2> HIDE DEF Sizes
  <2>1. \A n \in Sizes : n % w = n
    <3> TAKE n \in Sizes
    <3> QED BY <1>3 DEF Sizes
  <2>2. m.rows \in Sizes /\ m.cols \in Sizes
    BY <1>1, Zenon DEF Sizes
  <2> QED BY <2>1, <2>2, Zenon
<1>5. m = [f \in DOMAIN m |-> m[f]]
  BY DEF WellFormed
<1>6. ASSUME NEW f \in DOMAIN m PROVE MapRequest(m)[f] = m[f]
  BY <1>2, <1>4
<1>7. MapRequest(m) = [f \in DOMAIN m |-> MapRequest(m)[f]]
  BY <1>2
<1> QED BY <1>5, <1>6, <1>7, Zenon
\* The parts of a fingerprint: the names, the options, and a binding of each kind.
Names(r)   == <<r.tenant, r.subject, r.instance, r.kind, r.mode, r.container>>
Options(r) == <<Text(r.tty), Text(r.rows), Text(r.cols), r.protocol>>
Frozen(r)  == LET i == r.instanceBinding
              IN IF i = None THEN <<>>
                 ELSE <<Text(i.version), i.cluster, i.objects, i.container, i.shell>>
Console(r) == LET v == r.vmBinding
              IN IF v = None THEN <<>>
                 ELSE <<"vm.console.v1", v.tenant, v.vm, Text(v.version), v.cluster, v.objects>>
\* What a part is made of.
Values == STRING \cup Kinds \cup {"exec", "serial", "vnc", "unspecified", "vm.console.v1"}
            \cup {Text(x) : x \in Int \cup BOOLEAN}

\* What Fingerprint hashes is made of five parts, two of which are there or not.
LEMMA Parts ==
  ASSUME NEW r, WellFormed(r)
  PROVE  /\ Fingerprint(r) = Names(r) \o r.command \o Options(r) \o Frozen(r) \o Console(r)
         /\ Names(r) \in Seq(Values) /\ Len(Names(r)) = 6
         /\ r.command \in Seq(Values)
         /\ Options(r) \in Seq(Values) /\ Len(Options(r)) = 4
         /\ Frozen(r) \in Seq(Values) /\ Len(Frozen(r)) = IF r.instanceBinding = None THEN 0 ELSE 5
         /\ Console(r) \in Seq(Values) /\ Len(Console(r)) = IF r.vmBinding = None THEN 0 ELSE 6
<1>1. Fingerprint(r) = Names(r) \o r.command \o Options(r) \o Frozen(r) \o Console(r)
  BY DEF Fingerprint, Names, Options, Frozen, Console
<1>2. /\ r.tenant \in Values /\ r.subject \in Values /\ r.instance \in Values
      /\ r.kind \in Values /\ r.mode \in Values /\ r.container \in Values
      /\ r.protocol \in Values
  BY DEF WellFormed, Values, Kinds
<1>3. Names(r) \in Seq(Values) /\ Len(Names(r)) = 6
  BY <1>2 DEF Names
<1>4. r.command \in Seq(Values)
  <2>1. r.command \in Seq(STRING)
    BY DEF WellFormed
  <2> QED BY <2>1 DEF Values
<1>5. Text(r.tty) \in Values /\ Text(r.rows) \in Values /\ Text(r.cols) \in Values
  BY DEF WellFormed, Values
<1>6. Options(r) \in Seq(Values) /\ Len(Options(r)) = 4
  BY <1>2, <1>5 DEF Options
<1>7. /\ Frozen(r) \in Seq(Values)
      /\ Len(Frozen(r)) = IF r.instanceBinding = None THEN 0 ELSE 5
  <2>1. CASE r.instanceBinding = None
    BY <2>1 DEF Frozen
  <2>2. CASE r.instanceBinding # None
    <3> DEFINE i == r.instanceBinding
    <3>1. i \in InstanceBindings
      BY <2>2 DEF WellFormed
    <3>2. /\ Text(i.version) \in Values /\ i.cluster \in Values /\ i.objects \in Values
          /\ i.container \in Values /\ i.shell \in Values
      BY <3>1 DEF InstanceBindings, Values
    <3> QED BY <3>2, <2>2 DEF Frozen
  <2> QED BY <2>1, <2>2
<1>8. /\ Console(r) \in Seq(Values)
      /\ Len(Console(r)) = IF r.vmBinding = None THEN 0 ELSE 6
  <2>1. CASE r.vmBinding = None
    BY <2>1 DEF Console
  <2>2. CASE r.vmBinding # None
    <3> DEFINE v == r.vmBinding
    <3>1. v \in VMBindings
      BY <2>2 DEF WellFormed
    <3>2. /\ Text(v.version) \in Values /\ v.cluster \in Values /\ v.objects \in Values
          /\ v.tenant \in Values /\ v.vm \in Values /\ "vm.console.v1" \in Values
      BY <3>1 DEF VMBindings, Values
    <3> QED BY <3>2, <2>2 DEF Console
  <2> QED BY <2>1, <2>2
<1> QED BY <1>1, <1>3, <1>4, <1>6, <1>7, <1>8
\* What follows the words of the command.
Rest(r) == Options(r) \o (Frozen(r) \o Console(r))
\* Concatenation, as a name the provers need not look into.
Join(a, b) == a \o b

\* Concatenation is associative.
LEMMA JoinAssociative ==
  ASSUME NEW S, NEW a \in Seq(S), NEW b \in Seq(S), NEW c \in Seq(S)
  PROVE  Join(a, b) \in Seq(S) /\ Join(Join(a, b), c) = Join(a, Join(b, c))
<1>1. Join(a, b) \in Seq(S)
  BY ConcatProperties, Zenon DEF Join
<1>2. Join(Join(a, b), c) = Join(a, Join(b, c))
  BY ConcatAssociative, SMT DEF Join
<1> QED BY <1>1, <1>2

\* So five parts may be taken one by one from the left.
LEMMA Regrouped ==
  ASSUME NEW S, NEW n \in Seq(S), NEW w \in Seq(S), NEW o \in Seq(S), NEW f \in Seq(S),
         NEW c \in Seq(S)
  PROVE  Join(Join(Join(Join(n, w), o), f), c) = Join(n, Join(w, Join(o, Join(f, c))))
<1>1. /\ Join(n, w) \in Seq(S) /\ Join(Join(n, w), o) \in Seq(S)
      /\ Join(f, c) \in Seq(S) /\ Join(o, Join(f, c)) \in Seq(S)
  BY JoinAssociative, Zenon
<1>2. Join(Join(Join(Join(n, w), o), f), c) = Join(Join(Join(n, w), o), Join(f, c))
  BY <1>1, JoinAssociative
<1>3. Join(Join(Join(n, w), o), Join(f, c)) = Join(Join(n, w), Join(o, Join(f, c)))
  BY <1>1, JoinAssociative
<1>4. Join(Join(n, w), Join(o, Join(f, c))) = Join(n, Join(w, Join(o, Join(f, c))))
  BY <1>1, JoinAssociative
<1> QED BY <1>2, <1>3, <1>4, Zenon

\* The fingerprint begins with the six names, then the words of the command.
LEMMA NamesFirst ==
  ASSUME NEW r, WellFormed(r)
  PROVE  /\ Rest(r) \in Seq(Values)
         /\ r.command \o Rest(r) \in Seq(Values)
         /\ Fingerprint(r) = Names(r) \o (r.command \o Rest(r))
<1>1. /\ Fingerprint(r) = Names(r) \o r.command \o Options(r) \o Frozen(r) \o Console(r)
      /\ Names(r) \in Seq(Values) /\ r.command \in Seq(Values) /\ Options(r) \in Seq(Values)
      /\ Frozen(r) \in Seq(Values) /\ Console(r) \in Seq(Values)
  BY Parts, Zenon
<1>2. /\ Frozen(r) \o Console(r) \in Seq(Values)
      /\ Options(r) \o (Frozen(r) \o Console(r)) \in Seq(Values)
      /\ r.command \o (Options(r) \o (Frozen(r) \o Console(r))) \in Seq(Values)
  BY <1>1, ConcatProperties, Zenon
<1>3. Names(r) \o r.command \o Options(r) \o Frozen(r) \o Console(r)
        = Names(r) \o (r.command \o (Options(r) \o (Frozen(r) \o Console(r))))
  <2>1. Join(Join(Join(Join(Names(r), r.command), Options(r)), Frozen(r)), Console(r))
          = Join(Names(r), Join(r.command, Join(Options(r), Join(Frozen(r), Console(r)))))
    <3> DEFINE N == Names(r)  W == r.command  O == Options(r)  F == Frozen(r)  C == Console(r)
    <3>1. /\ N \in Seq(Values) /\ W \in Seq(Values) /\ O \in Seq(Values)
          /\ F \in Seq(Values) /\ C \in Seq(Values)
      BY <1>1, Zenon
    <3> HIDE DEF N, W, O, F, C
    <3>2. Join(Join(Join(Join(N, W), O), F), C) = Join(N, Join(W, Join(O, Join(F, C))))
      BY <3>1, Regrouped
    <3> QED BY <3>2, Zenon DEF N, W, O, F, C
  <2> QED BY <2>1, Zenon DEF Join
<1> QED BY <1>1, <1>2, <1>3, Zenon DEF Rest

\* The last item of a concatenation is that of its right part.
LEMMA LastOfConcat ==
  ASSUME NEW S, NEW a \in Seq(S), NEW b \in Seq(S), Len(b) > 0
  PROVE  (a \o b)[Len(a \o b)] = b[Len(b)]
<1>1. /\ Len(a \o b) = Len(a) + Len(b)
      /\ \A i \in 1 .. Len(a) + Len(b) :
           (a \o b)[i] = IF i <= Len(a) THEN a[i] ELSE b[i - Len(a)]
  BY ConcatProperties, Zenon
<1>2. Len(a) \in Nat /\ Len(b) \in Nat
  OBVIOUS
<1> DEFINE e == a \o b
<1> HIDE DEF e
<1>3. /\ Len(e) = Len(a) + Len(b)
      /\ \A i \in 1 .. Len(a) + Len(b) : e[i] = IF i <= Len(a) THEN a[i] ELSE b[i - Len(a)]
  BY <1>1, Zenon DEF e
<1>4. e[Len(e)] = b[Len(b)]
  BY <1>2, <1>3
<1> QED BY <1>4, Zenon DEF e
\* The messages whose requests the gateway stores.
Accepted == {m \in Messages : Maps(m) /\ Valid(MapRequest(m))}

\* An accepted message is valid as it stands.
LEMMA AcceptedMaps ==
  ASSUME NEW m \in Accepted PROVE WellFormed(m) /\ Maps(m) /\ Valid(m) /\ MapRequest(m) = m
<1>1. WellFormed(m) /\ Maps(m) /\ Valid(MapRequest(m))
  BY MessageAssumption, Zenon DEF Accepted
<1>2. MapRequest(m) = m
  BY <1>1, MapIdentity, Zenon
<1> QED BY <1>1, <1>2, Zenon

\* What validateRequest and the oneof rule out: an exec request has no VM binding and
\* no protocol, a console request no instance binding and no command, and a binding
\* has a shell.
LEMMA OptionsOf ==
  ASSUME NEW r, WellFormed(r), Valid(r)
  PROVE  /\ r.mode = "exec" => r.vmBinding = None /\ r.protocol = ""
         /\ r.mode # "exec" => r.instanceBinding = None /\ r.command = <<>>
         /\ r.instanceBinding # None => r.instanceBinding.shell # ""
<1>1. r.mode = "exec" => r.protocol = ""
  BY Zenon DEF WellFormed
<1>2. r.mode # "exec" => r.command = <<>>
  BY Zenon DEF WellFormed
<1>3. r.vmBinding # None => r.mode = "vnc"
  BY Zenon DEF Valid
<1>4. r.instanceBinding # None => r.mode = "exec" /\ r.instanceBinding.shell # ""
  BY Zenon DEF Valid
<1> QED BY <1>1, <1>2, <1>3, <1>4

\* A command can be spelled like the options and the binding of another request, but
\* the last item of the one is a protocol, which is empty, and of the other a shell,
\* which is not: a bound and an unbound exec request never have one fingerprint.
LEMMA NeverUnshelled ==
  ASSUME NEW r, NEW s, WellFormed(r), Valid(r), WellFormed(s), Valid(s),
         r.mode = "exec", s.mode = "exec",
         r.instanceBinding = None, s.instanceBinding # None,
         r.command \o Rest(r) = s.command \o Rest(s)
  PROVE  FALSE
<1>1. /\ r.vmBinding = None /\ s.vmBinding = None
      /\ r.protocol = "" /\ s.instanceBinding.shell # ""
  BY OptionsOf, Zenon
<1>2. Frozen(r) = <<>> /\ Console(r) = <<>> /\ Console(s) = <<>>
  BY <1>1, Zenon DEF Frozen, Console
<1>3. Frozen(r) \o Console(r) = <<>> /\ Frozen(s) \o Console(s) = Frozen(s)
  <2>1. <<>> \o <<>> = <<>>
    OBVIOUS
  <2>2. Frozen(s) \in Seq(Values)
    BY Parts, Zenon
  <2>3. Frozen(s) \o <<>> = Frozen(s)
    BY <2>2, ConcatEmptySeq, Zenon
  <2> QED BY <1>2, <2>1, <2>3, Zenon
<1>4. Rest(r) = Options(r) /\ Rest(s) = Options(s) \o Frozen(s)
  <2>1. Options(r) \o <<>> = Options(r)
    BY Parts, ConcatEmptySeq, Zenon
  <2> QED BY <1>3, <2>1, Zenon DEF Rest
<1>5. /\ r.command \in Seq(Values) /\ s.command \in Seq(Values)
      /\ Options(r) \in Seq(Values) /\ Options(s) \in Seq(Values) /\ Frozen(s) \in Seq(Values)
      /\ Rest(s) \in Seq(Values) /\ Len(Options(r)) = 4 /\ Len(Frozen(s)) = 5
  <2>1. Len(Frozen(s)) = 5
    BY Parts, Zenon
  <2> QED BY <2>1, Parts, NamesFirst, Zenon
<1>6. Options(r)[4] = ""
  BY <1>1 DEF Options
<1>7. Frozen(s)[5] # ""
  BY <1>1 DEF Frozen
<1> DEFINE L(q) == q[Len(q)]
<1>8. L(r.command \o Rest(r)) = ""
  <2>1. Len(Options(r)) > 0
    BY <1>5
  <2>2. L(r.command \o Options(r)) = L(Options(r))
    BY <2>1, <1>5, LastOfConcat, Zenon
  <2> QED BY <2>2, <1>4, <1>5, <1>6, Zenon
<1>9. L(s.command \o Rest(s)) # ""
  <2>1. Len(Frozen(s)) > 0 /\ Len(Rest(s)) > 0
    <3>1. Len(Rest(s)) = Len(Options(s)) + Len(Frozen(s))
      <4>1. Len(Options(s) \o Frozen(s)) = Len(Options(s)) + Len(Frozen(s))
        BY <1>5, ConcatProperties, Zenon
      <4> QED BY <4>1, <1>4, Zenon
    <3>2. Len(Options(s)) \in Nat
      BY <1>5
    <3> QED BY <1>5, <3>1, <3>2
  <2>2. L(s.command \o Rest(s)) = L(Rest(s))
    BY <2>1, <1>5, LastOfConcat, Zenon
  <2>3. L(Options(s) \o Frozen(s)) = L(Frozen(s))
    BY <2>1, <1>5, LastOfConcat, Zenon
  <2> QED BY <2>2, <2>3, <1>4, <1>5, <1>7, Zenon
<1> QED BY <1>8, <1>9, Zenon

\* Valid requests with one fingerprint agree in each of its parts, although neither
\* the words of the command nor the parts are counted.
LEMMA SameParts ==
  ASSUME NEW r, NEW s, WellFormed(r), Valid(r), WellFormed(s), Valid(s),
         Fingerprint(r) = Fingerprint(s)
  PROVE  /\ Names(r) = Names(s) /\ r.command = s.command /\ Options(r) = Options(s)
         /\ Frozen(r) = Frozen(s) /\ Console(r) = Console(s)
         /\ (r.instanceBinding = None) <=> (s.instanceBinding = None)
         /\ (r.vmBinding = None) <=> (s.vmBinding = None)
<1>1. /\ Names(r) \in Seq(Values) /\ Names(s) \in Seq(Values) /\ Len(Names(r)) = Len(Names(s))
      /\ r.command \in Seq(Values) /\ s.command \in Seq(Values)
      /\ Options(r) \in Seq(Values) /\ Options(s) \in Seq(Values)
      /\ Frozen(r) \in Seq(Values) /\ Frozen(s) \in Seq(Values)
      /\ Console(r) \in Seq(Values) /\ Console(s) \in Seq(Values)
      /\ Rest(r) \in Seq(Values) /\ Rest(s) \in Seq(Values)
      /\ r.command \o Rest(r) \in Seq(Values) /\ s.command \o Rest(s) \in Seq(Values)
  BY Parts, NamesFirst, Zenon
<1>2. Names(r) = Names(s) /\ r.command \o Rest(r) = s.command \o Rest(s)
  <2>1. Names(r) \o (r.command \o Rest(r)) = Names(s) \o (s.command \o Rest(s))
    BY NamesFirst, Zenon
  <2> DEFINE x == r.command \o Rest(r)  y == s.command \o Rest(s)
  <2>2. Names(r) \o x = Names(s) \o y /\ x \in Seq(Values) /\ y \in Seq(Values)
    BY <2>1, <1>1, Zenon
  <2> HIDE DEF x, y
  <2>3. Names(r) = Names(s) /\ x = y
    BY <2>2, <1>1, SplitLeft, Zenon
  <2> QED BY <2>3, Zenon DEF x, y
<1>3. r.mode = s.mode
  <2>1. Names(r)[5] = r.mode /\ Names(s)[5] = s.mode
    BY DEF Names
  <2> QED BY <2>1, <1>2, Zenon
<1>4. (r.instanceBinding = None) <=> (s.instanceBinding = None)
  <2>1. CASE r.mode = "exec"
    BY <2>1, <1>2, <1>3, NeverUnshelled, Zenon
  <2>2. CASE r.mode # "exec"
    BY <2>2, <1>3, OptionsOf, Zenon
  <2> QED BY <2>1, <2>2
<1> DEFINE C(q) == Len(q.command)  K(q) == Len(Console(q))  F(q) == Len(Frozen(q))
<1>5. F(r) = F(s)
  BY <1>4, Parts, Zenon
<1>6. C(r) + Len(Rest(r)) = C(s) + Len(Rest(s))
  <2>1. /\ Len(r.command \o Rest(r)) = C(r) + Len(Rest(r))
        /\ Len(s.command \o Rest(s)) = C(s) + Len(Rest(s))
    BY <1>1, ConcatProperties, Zenon
  <2> QED BY <2>1, <1>2, Zenon
<1>7. ASSUME NEW q, WellFormed(q)
      PROVE  Len(Rest(q)) = 4 + Len(Frozen(q)) + Len(Console(q)) /\ Len(Rest(q)) \in Nat
             /\ Len(Frozen(q)) \in Nat /\ Len(Console(q)) \in Nat
             /\ Frozen(q) \o Console(q) \in Seq(Values)
  <2>1. /\ Frozen(q) \in Seq(Values) /\ Console(q) \in Seq(Values) /\ Options(q) \in Seq(Values)
        /\ Len(Options(q)) = 4
    BY <1>7, Parts, Zenon
  <2>2. /\ Frozen(q) \o Console(q) \in Seq(Values)
        /\ Len(Frozen(q) \o Console(q)) = Len(Frozen(q)) + Len(Console(q))
    BY <2>1, ConcatProperties, Zenon
  <2>3. Len(Options(q) \o (Frozen(q) \o Console(q)))
          = Len(Options(q)) + Len(Frozen(q) \o Console(q))
    BY <2>1, <2>2, ConcatProperties, Zenon
  <2>4. Len(Rest(q)) = Len(Options(q)) + Len(Frozen(q) \o Console(q))
    BY <2>3, Zenon DEF Rest
  <2>5. Len(Frozen(q)) \in Nat /\ Len(Console(q)) \in Nat
    BY <2>1
  <2> QED BY <2>1, <2>2, <2>4, <2>5
<1>8. /\ K(r) = IF r.vmBinding = None THEN 0 ELSE 6
      /\ K(s) = IF s.vmBinding = None THEN 0 ELSE 6
  BY Parts, Zenon
<1>9. C(r) \in Nat /\ C(s) \in Nat
  BY <1>1
<1>10. (r.vmBinding = None) <=> (s.vmBinding = None)
  <2>1. CASE r.mode = "exec"
    BY <2>1, <1>3, OptionsOf, Zenon
  <2>2. CASE r.mode # "exec"
    <3>1. r.command = <<>> /\ s.command = <<>>
      BY <2>2, <1>3, OptionsOf, Zenon
    <3>2. C(r) = 0 /\ C(s) = 0
      BY <3>1
    <3>3. K(r) = K(s)
      <4>1. /\ Len(Rest(r)) = 4 + F(r) + K(r) /\ Len(Rest(s)) = 4 + F(s) + K(s)
            /\ F(r) \in Nat /\ F(s) \in Nat /\ K(r) \in Nat /\ K(s) \in Nat
        BY <1>7, Zenon
      <4> HIDE DEF C, F, K
      <4> QED BY <4>1, <3>2, <1>5, <1>6
    <3> DEFINE k(q) == IF q = None THEN 0 ELSE 6
    <3>4. k(r.vmBinding) = k(s.vmBinding)
      BY <3>3, <1>8, Zenon
    <3> QED BY <3>4
  <2> QED BY <2>1, <2>2
<1>11. K(r) = K(s)
  BY <1>8, <1>10
<1>12. r.command = s.command /\ Rest(r) = Rest(s)
  <2>1. Len(Rest(r)) = Len(Rest(s))
    BY <1>5, <1>7, <1>11
  <2>2. r.command \o Rest(r) = s.command \o Rest(s)
    BY <1>2, Zenon
  <2>3. /\ r.command \in Seq(Values) /\ s.command \in Seq(Values)
        /\ Rest(r) \in Seq(Values) /\ Rest(s) \in Seq(Values)
    BY <1>1, Zenon
  <2> QED BY <2>1, <2>2, <2>3, SplitRight, Zenon
<1>13. Options(r) = Options(s) /\ Frozen(r) \o Console(r) = Frozen(s) \o Console(s)
  <2>1. Len(Options(r)) = Len(Options(s))
    BY Parts, Zenon
  <2>2. Options(r) \o (Frozen(r) \o Console(r)) = Options(s) \o (Frozen(s) \o Console(s))
    BY <1>12, Zenon DEF Rest
  <2>3. Frozen(r) \o Console(r) \in Seq(Values) /\ Frozen(s) \o Console(s) \in Seq(Values)
    BY <1>7, Zenon
  <2> DEFINE x == Frozen(r) \o Console(r)  y == Frozen(s) \o Console(s)
  <2>4. Options(r) \o x = Options(s) \o y /\ x \in Seq(Values) /\ y \in Seq(Values)
    BY <2>2, <2>3, Zenon
  <2> HIDE DEF x, y
  <2>5. Options(r) = Options(s) /\ x = y
    BY <2>1, <2>4, <1>1, SplitLeft, Zenon
  <2> QED BY <2>5, Zenon DEF x, y
<1>14. Frozen(r) = Frozen(s) /\ Console(r) = Console(s)
  BY <1>1, <1>5, <1>13, SplitLeft, Zenon
<1> QED BY <1>2, <1>4, <1>10, <1>12, <1>13, <1>14, Zenon
\* Numbers that Fingerprint writes alike are the same.
LEMMA WrittenTells ==
  ASSUME NEW m \in Accepted, NEW n \in Accepted, NEW i \in Written(m), NEW j \in Written(n),
         Text(i) = Text(j)
  PROVE  i = j
<1> DEFINE All == UNION {Written(MapRequest(x)) : x \in Messages}
<1>1. i \in All /\ j \in All
  <2>1. m \in Messages /\ n \in Messages /\ MapRequest(m) = m /\ MapRequest(n) = n
    BY AcceptedMaps, Zenon DEF Accepted
  <2> QED BY <2>1, Zenon
<1>2. \A x, y \in All : Text(x) = Text(y) => x = y
  BY MessageAssumption, Zenon
<1> QED BY <1>1, <1>2, Zenon

\* Two messages that the gateway accepts and whose requests have one fingerprint are
\* one message (Fingerprint of manager.go, mapRequest of server.go).
LEMMA FingerprintTells ==
  ASSUME NEW m \in Accepted, NEW n \in Accepted,
         Fingerprint(MapRequest(m)) = Fingerprint(MapRequest(n))
  PROVE  m = n
<1>1. /\ WellFormed(m) /\ WellFormed(n) /\ Valid(m) /\ Valid(n)
      /\ Fingerprint(m) = Fingerprint(n)
  BY AcceptedMaps, Zenon
<1>2. /\ Names(m) = Names(n) /\ m.command = n.command /\ Options(m) = Options(n)
      /\ Frozen(m) = Frozen(n) /\ Console(m) = Console(n)
      /\ (m.instanceBinding = None) <=> (n.instanceBinding = None)
      /\ (m.vmBinding = None) <=> (n.vmBinding = None)
  BY <1>1, SameParts, Zenon
<1>3. /\ m.tenant = n.tenant /\ m.subject = n.subject /\ m.instance = n.instance
      /\ m.kind = n.kind /\ m.mode = n.mode /\ m.container = n.container
  BY <1>2 DEF Names
<1>4. /\ Text(m.tty) = Text(n.tty) /\ Text(m.rows) = Text(n.rows)
      /\ Text(m.cols) = Text(n.cols) /\ m.protocol = n.protocol
  BY <1>2 DEF Options
<1>5. m.rows = n.rows /\ m.cols = n.cols
  <2>1. /\ m.rows \in Written(m) /\ m.cols \in Written(m)
        /\ n.rows \in Written(n) /\ n.cols \in Written(n)
    BY Zenon DEF Written
  <2> QED BY <2>1, <1>4, WrittenTells, Zenon
<1>6. m.tty = n.tty
  <2>1. m.tty \in BOOLEAN /\ n.tty \in BOOLEAN
    BY <1>1, Zenon DEF WellFormed
  <2> QED BY <2>1, <1>4, MessageAssumption, Zenon
<1>7. m.instanceBinding = n.instanceBinding
  <2> DEFINE b == m.instanceBinding  d == n.instanceBinding
  <2>1. CASE b = None
    BY <2>1, <1>2, Zenon
  <2>2. CASE b # None
    <3>1. d # None /\ b \in InstanceBindings /\ d \in InstanceBindings
      BY <2>2, <1>1, <1>2, Zenon DEF WellFormed
    <3>2. /\ Frozen(m) = <<Text(b.version), b.cluster, b.objects, b.container, b.shell>>
          /\ Frozen(n) = <<Text(d.version), d.cluster, d.objects, d.container, d.shell>>
      BY <3>1, <2>2, Zenon DEF Frozen
    <3>3. /\ Text(b.version) = Text(d.version) /\ b.cluster = d.cluster /\ b.objects = d.objects
          /\ b.container = d.container /\ b.shell = d.shell
      BY <3>2, <1>2
    <3>4. b.version = d.version
      <4>1. b.version \in Written(m) /\ d.version \in Written(n)
        BY <2>2, <3>1, Zenon DEF Written
      <4> QED BY <4>1, <3>3, WrittenTells, Zenon
    <3> HIDE DEF b, d
    <3>5. b = d
      BY <3>1, <3>3, <3>4 DEF InstanceBindings
    <3> QED BY <3>5, Zenon DEF b, d
  <2> QED BY <2>1, <2>2
<1>8. m.vmBinding = n.vmBinding
  <2> DEFINE b == m.vmBinding  d == n.vmBinding
  <2>1. CASE b = None
    BY <2>1, <1>2, Zenon
  <2>2. CASE b # None
    <3>1. d # None /\ b \in VMBindings /\ d \in VMBindings
      BY <2>2, <1>1, <1>2, Zenon DEF WellFormed
    <3>2. /\ Console(m) = <<"vm.console.v1", b.tenant, b.vm, Text(b.version), b.cluster, b.objects>>
          /\ Console(n) = <<"vm.console.v1", d.tenant, d.vm, Text(d.version), d.cluster, d.objects>>
      BY <3>1, <2>2, Zenon DEF Console
    <3>3. /\ Text(b.version) = Text(d.version) /\ b.cluster = d.cluster /\ b.objects = d.objects
          /\ b.tenant = d.tenant /\ b.vm = d.vm
      BY <3>2, <1>2
    <3>4. b.version = d.version
      <4>1. b.version \in Written(m) /\ d.version \in Written(n)
        BY <2>2, <3>1, Zenon DEF Written
      <4> QED BY <4>1, <3>3, WrittenTells, Zenon
    <3> HIDE DEF b, d
    <3>5. b = d
      BY <3>1, <3>3, <3>4 DEF VMBindings
    <3> QED BY <3>5, Zenon DEF b, d
  <2> QED BY <2>1, <2>2
<1> DEFINE Fields == {"tenant", "subject", "instance", "kind", "mode", "container", "command",
                      "tty", "rows", "cols", "protocol", "instanceBinding", "vmBinding"}
<1>9. /\ m = [f \in Fields |-> m[f]] /\ n = [f \in Fields |-> n[f]]
  BY <1>1 DEF WellFormed
<1>10. \A f \in Fields : m[f] = n[f]
  BY <1>2, <1>3, <1>4, <1>5, <1>6, <1>7, <1>8
<1> HIDE DEF Fields
<1> QED BY <1>9, <1>10, Zenon
-----------------------------------------------------------------------------
(* The process                                                             *)

\* What config.Load accepts satisfies every constructor that checks its values again.
LEMMA LoadedSuffices ==
  ASSUME NEW e \in Environments, Loads(e)
  PROVE  /\ TracingAccepts(e) /\ ManagerAccepts(e) /\ KubeVirtAccepts(e)
         /\ ConnectedAccepts(e) /\ HandlerAccepts(e)
<1>1. TracingAccepts(e)
  BY DEF Loads, TracingAccepts
<1>2. ASSUME NEW s \in Numbers PROVE Value(e, s) > 0
  <2>1. NumberParses(e, s)
    BY Zenon DEF Loads
  <2>2. CASE e[s] = Unset
    <3>1. Value(e, s) = Default[s]
      BY <2>2, Zenon DEF Value
    <3>2. Default[s] > 0
      BY DEF Default, Numbers
    <3> QED BY <3>1, <3>2
  <2>3. CASE e[s] # Unset
    BY <2>1, <2>3 DEF NumberParses, Value
  <2> QED BY <2>2, <2>3
<1>3. {"TICKET_TTL", "SESSION_MAX_DURATION", "IDEMPOTENCY_TTL", "MAX_ACTIVE_SESSIONS",
       "MAX_ACTIVE_PER_SUBJECT", "RUNTIME_REQUEST_TIMEOUT", "WS_MAX_MESSAGE_BYTES",
       "WS_IDLE_TIMEOUT", "WS_HANDSHAKE_TIMEOUT"} \subseteq Numbers
  BY DEF Numbers, Default
<1>4. ASSUME NEW S, S \subseteq Numbers PROVE Positive(e, S)
  BY <1>2, <1>4, Zenon DEF Positive
<1>5. e.PUBLIC_WS_BASE_URL # Unset
  BY Zenon DEF Loads, PublicURLParses, URLParses
<1>6. e.ALLOWED_ORIGINS # {}
  BY EnvironmentAssumption, Zenon
<1>7. ManagerAccepts(e)
  BY <1>3, <1>4, <1>5, Zenon DEF ManagerAccepts
<1>8. KubeVirtAccepts(e) /\ ConnectedAccepts(e) /\ HandlerAccepts(e)
  BY <1>3, <1>4, <1>6, Zenon DEF KubeVirtAccepts, ConnectedAccepts, HandlerAccepts
<1> QED BY <1>1, <1>7, <1>8

\* The order of the boot, step by step.
LEMMA Places ==
  /\ BootOrder[1] = "load" /\ BootOrder[2] = "tracing" /\ BootOrder[3] = "store"
  /\ BootOrder[4] = "validator" /\ BootOrder[5] = "control" /\ BootOrder[6] = "manager"
  /\ BootOrder[7] = "kubernetes" /\ BootOrder[8] = "cluster" /\ BootOrder[9] = "kubevirt"
  /\ BootOrder[10] = "connected" /\ BootOrder[11] = "handler" /\ BootOrder[12] = "signals"
  /\ BootOrder[13] = "listen http" /\ BootOrder[14] = "listen grpc"
  /\ BootOrder[15] = "serving"
  BY DEF BootOrder

\* The boot steps after Load.
Later == {"tracing", "store", "validator", "control", "manager", "kubernetes", "cluster",
          "kubevirt", "connected", "handler", "signals", "listen http", "listen grpc"}

\* The boot begins with Load, never returns to it and ends serving.
LEMMA StepNames ==
  /\ "load" \in BootSteps /\ BootSteps \subseteq {"load"} \cup Later
  /\ \A i \in 1..14 : BootOrder[1 + i] \in (BootSteps \ {"load"}) \cup {"serving"}
<1>1. ASSUME NEW i \in 2..14 PROVE BootOrder[i] \in Later
  <2>1. \/ i = 2 \/ i = 3 \/ i = 4 \/ i = 5 \/ i = 6 \/ i = 7 \/ i = 8 \/ i = 9
        \/ i = 10 \/ i = 11 \/ i = 12 \/ i = 13 \/ i = 14
    OBVIOUS
  <2> QED BY <2>1, Places DEF Later
<1>2. ASSUME NEW i \in 1..14 PROVE BootOrder[i] \in {"load"} \cup Later
  <2>1. i = 1 \/ i \in 2..14
    OBVIOUS
  <2> QED BY <2>1, <1>1, Places
<1>3. "load" \in BootSteps
  <2>1. 1 \in 1..14
    OBVIOUS
  <2> QED BY <2>1, Places, Zenon DEF BootSteps
<1>4. ASSUME NEW i \in 1..14 PROVE BootOrder[1 + i] \in (BootSteps \ {"load"}) \cup {"serving"}
  <2> DEFINE j == 1 + i
  <2>1. j = 15 \/ (j \in 2..14 /\ j \in 1..14)
    OBVIOUS
  <2> SUFFICES BootOrder[j] \in (BootSteps \ {"load"}) \cup {"serving"}
    BY Zenon
  <2> HIDE DEF j
  <2>2. CASE j = 15
    BY <2>2, Places
  <2>3. CASE j \in 2..14 /\ j \in 1..14
    <3>1. BootOrder[j] \in Later /\ BootOrder[j] \in BootSteps
      BY <2>3, <1>1, Zenon DEF BootSteps
    <3>2. "load" \notin Later
      BY DEF Later
    <3> QED BY <3>1, <3>2, Zenon
  <2> QED BY <2>1, <2>2, <2>3, Zenon
<1>5. BootSteps \subseteq {"load"} \cup Later
  BY <1>2, Zenon DEF BootSteps
<1> QED BY <1>3, <1>4, <1>5
\* Where run() may be, and the boot steps that check what Load has checked.
Phases == BootSteps \cup {"serving", "drain rpc", "drain http", "failing", "stopping",
                          "exited", "down"}
Rechecked == {"tracing", "manager", "kubevirt", "connected", "handler"}

\* The process: it has an environment while it boots, one that loads after the first
\* step, so that none of the steps that check again has refused it.
ProcessInv ==
  /\ boots \in 0..MaxBoots /\ phase \in Phases /\ held \in Seq(Releases)
  /\ config \in Configs \cup {None} /\ canceled \in BOOLEAN
  /\ phase \in BootSteps => env \in Environments
  /\ phase \notin BootSteps => env = Unset
  /\ phase \in BootSteps \ {"load"} => Loads(env)
  /\ refused \in (BootSteps \ Rechecked) \cup {None}

\* No other phase is a boot step.
LEMMA Disjoint ==
  /\ "serving" \notin BootSteps /\ "drain rpc" \notin BootSteps /\ "drain http" \notin BootSteps
  /\ "failing" \notin BootSteps /\ "stopping" \notin BootSteps /\ "exited" \notin BootSteps
  /\ "down" \notin BootSteps
  BY StepNames DEF Later

\* The process invariant holds before the first start.
LEMMA ProcessInit == Init => ProcessInv
<1> SUFFICES ASSUME Init PROVE ProcessInv
  OBVIOUS
<1>1. phase \notin BootSteps /\ phase \in Phases
  BY Disjoint DEF Init, Phases
<1>2. boots \in 0..MaxBoots
  BY GatewayAssumption DEF Init
<1>3. held \in Seq(Releases)
  BY DEF Init
<1> QED BY <1>1, <1>2, <1>3, Zenon DEF Init, ProcessInv

\* What a process keeps of an environment that loads.
LEMMA ConfigureTypes ==
  ASSUME NEW e \in Environments, Loads(e) PROVE Configure(e) \in Configs
<1>1. Value(e, "STORE_MODE") \in {"memory", "redis"}
  BY Zenon DEF Loads
<1>2. (IF HasResource(e) THEN e.RESOURCE_INSTANCE_CLUSTER_ID ELSE None)
        \in {None} \cup {x.RESOURCE_INSTANCE_CLUSTER_ID : x \in Environments}
  BY Zenon
<1>3. ControlTLS(e) \in BOOLEAN
  BY Zenon DEF ControlTLS
<1> QED BY <1>1, <1>2, <1>3, Zenon DEF Configure, Configs

\* A boot step that succeeds keeps the process invariant: the first shows that the
\* environment loads, the others do not change it.
LEMMA BootKeeps == ProcessInv /\ Boot => ProcessInv'
<1> SUFFICES ASSUME ProcessInv, Boot PROVE ProcessInv'
  OBVIOUS
<1>1. phase \in BootSteps /\ env \in Environments /\ Demanded(phase, env)
  BY Zenon DEF ProcessInv, Boot
<1>2. Loads(env)
  <2>1. CASE phase = "load"
    BY <1>1, <2>1 DEF Demanded
  <2>2. CASE phase # "load"
    BY <1>1, <2>2, Zenon DEF ProcessInv
  <2> QED BY <2>1, <2>2
<1>3. phase' \in (BootSteps \ {"load"}) \cup {"serving"}
  <2> DEFINE i == CHOOSE i \in 1..14 : BootOrder[i] = phase
  <2>1. \E k \in 1..14 : BootOrder[k] = phase
    BY <1>1, Zenon DEF BootSteps
  <2>2. i \in 1..14
    BY <2>1, Zenon
  <2>3. phase' = BootOrder[1 + i]
    BY Zenon DEF Boot
  <2> HIDE DEF i
  <2> QED BY <2>2, <2>3, StepNames, Zenon
<1>4. env' = IF phase' = "serving" THEN Unset ELSE env
  BY Zenon DEF Boot
<1>5. held' \in Seq(Releases)
  <2>1. CASE phase \in Releases
    <3>1. held' = <<phase>> \o held
      BY <2>1, Zenon DEF Boot
    <3>2. <<phase>> \in Seq(Releases) /\ held \in Seq(Releases)
      BY <2>1 DEF ProcessInv
    <3> QED BY <3>1, <3>2, ConcatProperties, Zenon
  <2>2. CASE phase \notin Releases
    BY <2>2, Zenon DEF Boot, ProcessInv
  <2> QED BY <2>1, <2>2
<1>6. config' \in Configs \cup {None}
  BY <1>1, <1>2, ConfigureTypes, Zenon DEF Boot, ProcessInv
<1>7. UNCHANGED <<boots, refused, canceled>>
  BY Zenon DEF Boot
<1>8. phase' \in Phases
  BY <1>3, Zenon DEF Phases
<1>9. /\ phase' \in BootSteps => env' \in Environments
      /\ phase' \notin BootSteps => env' = Unset
      /\ phase' \in BootSteps \ {"load"} => Loads(env)' 
  <2>1. CASE phase' = "serving"
    BY <2>1, <1>4, Disjoint, Zenon
  <2>2. CASE phase' # "serving"
    <3>1. env' = env /\ phase' \in BootSteps
      BY <2>2, <1>3, <1>4, Zenon
    <3>2. Loads(env)'
      BY <3>1, <1>2, Zenon DEF Loads, NumberParses, EndpointParses, OriginsParse, URLParses, PublicURLParses, Value
    <3> QED BY <3>1, <3>2, <1>1, Zenon
  <2> QED BY <2>1, <2>2
<1>10. boots' \in 0..MaxBoots /\ canceled' \in BOOLEAN
       /\ refused' \in (BootSteps \ Rechecked) \cup {None}
  BY <1>7, Zenon DEF ProcessInv
<1> QED BY <1>5, <1>6, <1>8, <1>9, <1>10, Zenon DEF ProcessInv

\* A boot step that refuses an environment is none of those that check Load's values
\* again.
LEMMA BootFailsKeeps == ProcessInv /\ BootFails => ProcessInv'
<1> SUFFICES ASSUME ProcessInv, BootFails PROVE ProcessInv'
  OBVIOUS
<1>1. phase \in BootSteps /\ env \in Environments /\ phase' = "stopping" /\ env' = Unset
      /\ UNCHANGED <<boots, held, config, canceled>>
  BY Zenon DEF ProcessInv, BootFails
<1>2. refused' \in (BootSteps \ Rechecked) \cup {None}
  <2>1. CASE UNCHANGED refused
    BY <2>1, Zenon DEF ProcessInv
  <2>2. CASE ~Demanded(phase, env) /\ refused' = phase
    <3>1. ASSUME phase \in Rechecked PROVE FALSE
      <4>1. phase # "load"
        BY <3>1 DEF Rechecked
      <4>2. Loads(env)
        BY <4>1, <1>1, Zenon DEF ProcessInv
      <4>3. /\ TracingAccepts(env) /\ ManagerAccepts(env) /\ KubeVirtAccepts(env)
            /\ ConnectedAccepts(env) /\ HandlerAccepts(env)
        BY <1>1, <4>2, LoadedSuffices, Zenon
      <4>4. Demanded(phase, env)
        BY <3>1, <4>3 DEF Demanded, Rechecked
      <4> QED BY <2>2, <4>4, Zenon
    <3> QED BY <2>2, <3>1, <1>1, Zenon
  <2> QED BY <2>1, <2>2, Zenon DEF BootFails
<1>3. phase' \in Phases /\ phase' \notin BootSteps
  BY <1>1, Disjoint, Zenon DEF Phases
<1> QED BY <1>1, <1>2, <1>3, Zenon DEF ProcessInv
\* A start, in any environment, keeps the process invariant.
LEMMA StartKeeps == ProcessInv /\ Start => ProcessInv'
<1> SUFFICES ASSUME ProcessInv, Start PROVE ProcessInv'
  OBVIOUS
<1>1. /\ phase' = "load" /\ refused' = None /\ config' = None /\ canceled' = FALSE
      /\ held' = held /\ boots' = boots + 1 /\ boots < MaxBoots
  BY Zenon DEF Start
<1>2. boots' \in 0..MaxBoots
  <2>1. boots \in 0..MaxBoots
    BY Zenon DEF ProcessInv
  <2> QED BY <1>1, <2>1, GatewayAssumption
<1>3. env' \in Environments
  BY GatewayAssumption, Zenon DEF Start
<1>4. phase' \in BootSteps /\ phase' \in Phases
  BY <1>1, StepNames, Zenon DEF Phases
<1>5. canceled' \in BOOLEAN
  BY <1>1
<1> QED BY <1>1, <1>2, <1>3, <1>4, <1>5, Zenon DEF ProcessInv

\* A step that ends outside the boot keeps the process invariant.
LEMMA StoppedKeeps ==
  /\ ProcessInv /\ phase' \in Phases \ BootSteps /\ env' = Unset
  /\ held' \in Seq(Releases) /\ canceled' \in BOOLEAN /\ UNCHANGED <<boots, refused, config>>
  => ProcessInv'
BY Zenon DEF ProcessInv

\* A step that leaves the process alone keeps its invariant.
LEMMA UnchangedProcess == ProcessInv /\ UNCHANGED process => ProcessInv'
<1> SUFFICES ASSUME ProcessInv, UNCHANGED process PROVE ProcessInv'
  OBVIOUS
<1>1. UNCHANGED <<env, boots, phase, refused, held, config, canceled>>
  BY DEF process
<1> QED BY <1>1, Zenon DEF ProcessInv, Loads, NumberParses, EndpointParses, OriginsParse, URLParses,
                           PublicURLParses, Value

\* Every step of run() keeps the process invariant.
LEMMA LifecycleKeeps == ProcessInv /\ Lifecycle => ProcessInv'
<1> SUFFICES ASSUME ProcessInv, Lifecycle PROVE ProcessInv'
  OBVIOUS
<1>1. CASE Start
  BY <1>1, StartKeeps, Zenon
<1>2. CASE Boot
  BY <1>2, BootKeeps, Zenon
<1>3. CASE BootFails
  BY <1>3, BootFailsKeeps, Zenon
<1> DEFINE Stops == {"serving", "drain rpc", "drain http", "failing", "stopping", "exited", "down"}
<1>4. Stops \subseteq Phases \ BootSteps /\ \A p \in Stops : p \in Phases \ BootSteps
  BY Disjoint, Zenon DEF Phases
<1>5. phase \in Stops => env = Unset
  BY <1>4, Zenon DEF ProcessInv
<1>6. held \in Seq(Releases) /\ canceled \in BOOLEAN
  BY Zenon DEF ProcessInv
<1>7. CASE Signal
  <2>1. canceled' = TRUE /\ UNCHANGED <<env, boots, phase, refused, held, config>>
    BY <1>7, Zenon DEF Signal
  <2>2. canceled' \in BOOLEAN
    BY <2>1
  <2> QED BY <2>1, <2>2, Zenon DEF ProcessInv, Loads, NumberParses, EndpointParses, OriginsParse,
                                  URLParses, PublicURLParses, Value
<1>8. CASE Await \/ ServeFails \/ GracefulStop \/ Shutdown
  <2>1. phase \in Stops /\ phase' \in Stops
    BY <1>8, Zenon DEF Await, ServeFails, GracefulStop, Shutdown, Goto
  <2>2. UNCHANGED <<env, boots, refused, held, config, canceled>>
    BY <1>8, Zenon DEF Await, ServeFails, GracefulStop, Shutdown, Goto
  <2> QED BY <2>1, <2>2, <1>4, <1>5, <1>6, StoppedKeeps, Zenon
<1>9. CASE Release
  <2>1. phase \in Stops /\ UNCHANGED <<env, boots, refused, config>>
    BY <1>9, Zenon DEF Release
  <2>2. phase' \in Stops
    BY <1>9, <2>1, Zenon DEF Release
  <2>3. held' \in Seq(Releases) /\ canceled' \in BOOLEAN
    <3>1. CASE held = <<>>
      BY <1>9, <3>1, <1>6, Zenon DEF Release
    <3>2. CASE held # <<>>
      <4>1. held' = Tail(held) /\ canceled' = (canceled \/ Head(held) = "signals")
        BY <1>9, <3>2, Zenon DEF Release
      <4>2. Tail(held) \in Seq(Releases)
        BY <1>6, <3>2
      <4>3. canceled' \in BOOLEAN
        BY <4>1, Zenon
      <4> QED BY <4>1, <4>2, <4>3, Zenon
    <3> QED BY <3>1, <3>2
  <2> QED BY <2>1, <2>2, <2>3, <1>4, <1>5, StoppedKeeps, Zenon
<1>10. CASE Crash
  <2>1. phase' \in Stops /\ env' = Unset /\ held' = <<>> /\ UNCHANGED <<boots, refused, config, canceled>>
    BY <1>10, Zenon DEF Crash
  <2>2. held' \in Seq(Releases)
    <3>1. <<>> \in Seq(Releases)
      OBVIOUS
    <3> QED BY <2>1, <3>1, Zenon
  <2> QED BY <2>1, <2>2, <1>4, <1>6, StoppedKeeps, Zenon
<1> QED BY <1>1, <1>2, <1>3, <1>7, <1>8, <1>9, <1>10, Zenon DEF Lifecycle

\* RPCs, requests and expiry leave the process alone.
LEMMA ServingLeavesProcess ==
  ASSUME Control \/ Requests \/ (\E k \in Keys : Expire(k)) PROVE UNCHANGED process
<1>1. CASE Control
  BY <1>1, Zenon DEF Control, CreateSession, GetSessionReplay, IssueStores, Respond, Watch, Serve,
     Receive, OpenRPC, DropRPC
<1>2. CASE Requests
  BY <1>2, Zenon DEF Requests, Arrive, Claim, Upgrade, Open, End, Complete, Close, Becomes
<1>3. CASE \E k \in Keys : Expire(k)
  BY <1>3, Zenon DEF Expire
<1> QED BY <1>1, <1>2, <1>3

\* The process invariant is inductive.
LEMMA ProcessStep == ProcessInv /\ [Next]_vars => ProcessInv'
<1> SUFFICES ASSUME ProcessInv, [Next]_vars PROVE ProcessInv'
  OBVIOUS
<1>1. CASE Lifecycle
  BY <1>1, LifecycleKeeps, Zenon
<1>2. CASE Control \/ Requests \/ (\E k \in Keys : Expire(k))
  BY <1>2, ServingLeavesProcess, UnchangedProcess, Zenon
<1>3. CASE UNCHANGED vars
  <2>1. UNCHANGED process
    BY <1>3, Zenon DEF vars
  <2> QED BY <2>1, UnchangedProcess, Zenon
<1> QED BY <1>1, <1>2, <1>3, Zenon DEF Next

\* The process invariant holds in every state, for every set of environments.
THEOREM ProcessInvariant == Spec => []ProcessInv
<1>1. Init => ProcessInv
  BY ProcessInit
<1>2. ProcessInv /\ [Next]_vars => ProcessInv'
  BY ProcessStep
<1> QED BY <1>1, <1>2, PTL DEF Spec

\* What config.Load accepts, InitTracing, NewManager, NewAdapter, connectedsession.New
\* and NewHandler accept too: for any set of environments, and over any number of boots.
THEOREM ConfigServes == Spec => []AcceptedConfigServes
<1>1. None \notin Rechecked
  <2>1. 2 \in 1..14 /\ 6 \in 1..14 /\ 9 \in 1..14 /\ 10 \in 1..14 /\ 11 \in 1..14
    OBVIOUS
  <2>2. Rechecked \subseteq BootSteps
    BY <2>1, Places, Zenon DEF Rechecked, BootSteps
  <2> QED BY <2>2, BootAssumption, Zenon
<1>2. ProcessInv => AcceptedConfigServes
  BY <1>1, Zenon DEF ProcessInv, AcceptedConfigServes, Rechecked
<1> QED BY <1>2, ProcessInvariant, PTL
-----------------------------------------------------------------------------
(* The store and its requests                                              *)

\* A stored session, a connection, and a request with the key of what it claimed.
Stored    == [message : Accepted, state : {"issued", "claimed", "closed"}]
Links     == [stage : {"arrived", "admitted", "running", "over"},
              stream : {"none", "open", "closed"}, closes : 0..1, active : 0..1]
Requested == {r \in [connection : Links, key : Keys \cup {None}] :
                r.key # None <=> r.connection.stage # "arrived"}

\* The store holds accepted messages, and what a request has claimed; there are no
\* requests while the process boots.
StoreInv ==
  /\ sessions \in [Keys -> Stored \cup {None}]
  /\ conns \in [Conns -> Requested \cup {None}]
  /\ phase \in BootSteps => conns = NoConns
  /\ \A c \in Conns : conns[c] # None /\ conns[c].key # None => sessions[conns[c].key] \in Stored

\* The store invariant holds at first.
LEMMA StoreInit == Init => StoreInv
<1> SUFFICES ASSUME Init PROVE StoreInv
  OBVIOUS
<1>1. sessions = NoSessions /\ conns = NoConns
  BY DEF Init
<1> QED BY <1>1 DEF StoreInv, NoSessions, NoConns

\* A step without requests keeps the store invariant.
LEMMA StoreEmptied ==
  /\ StoreInv /\ conns' = NoConns /\ sessions' \in {sessions, NoSessions} => StoreInv'
<1> SUFFICES ASSUME StoreInv, conns' = NoConns, sessions' \in {sessions, NoSessions}
             PROVE  StoreInv'
  OBVIOUS
<1>1. sessions' \in [Keys -> Stored \cup {None}]
  <2>1. NoSessions \in [Keys -> Stored \cup {None}]
    BY DEF NoSessions
  <2> QED BY <2>1, Zenon DEF StoreInv
<1>2. NoConns \in [Conns -> Requested \cup {None}] /\ \A c \in Conns : NoConns[c] = None
  BY DEF NoConns
<1>3. conns' \in [Conns -> Requested \cup {None}] /\ \A c \in Conns : conns'[c] = None
  BY <1>2, Zenon
<1>4. NoConns' = NoConns
  BY DEF NoConns
<1> QED BY <1>1, <1>3, <1>4, Zenon DEF StoreInv

\* So does a step that leaves store and requests alone.
LEMMA StoreUntouched ==
  /\ StoreInv /\ UNCHANGED <<sessions, conns>> /\ (phase' \in BootSteps => phase \in BootSteps)
  => StoreInv'
BY Zenon DEF StoreInv, NoConns

\* Every step of run() keeps the store invariant, crashes and restarts included.
LEMMA StoreLifecycle == ProcessInv /\ StoreInv /\ Lifecycle => StoreInv'
<1> SUFFICES ASSUME ProcessInv, StoreInv, Lifecycle PROVE StoreInv'
  OBVIOUS
<1>1. CASE Start
  <2>1. conns' = NoConns /\ sessions' \in {sessions, NoSessions}
    BY <1>1, Zenon DEF Start
  <2> QED BY <2>1, StoreEmptied, Zenon
<1>2. CASE Boot
  <2>1. conns' = NoConns
    BY <1>2, Zenon DEF Boot, StoreInv
  <2>2. sessions' \in {sessions, NoSessions}
    BY <1>2, Zenon DEF Boot
  <2> QED BY <2>1, <2>2, StoreEmptied, Zenon
<1>3. CASE Crash
  <2>1. conns' = NoConns /\ sessions' \in {sessions, NoSessions}
    BY <1>3, Zenon DEF Crash
  <2> QED BY <2>1, StoreEmptied, Zenon
<1>4. CASE BootFails \/ Signal \/ Await \/ ServeFails \/ GracefulStop \/ Shutdown \/ Release
  <2>1. UNCHANGED <<sessions, conns>>
    BY <1>4, Zenon DEF BootFails, Signal, Await, ServeFails, GracefulStop, Shutdown, Release, Goto
  <2>2. phase' \in BootSteps => phase \in BootSteps
    BY <1>4, Disjoint, Zenon
       DEF BootFails, Signal, Await, ServeFails, GracefulStop, Shutdown, Release, Goto
  <2> QED BY <2>1, <2>2, StoreUntouched, Zenon
<1> QED BY <1>1, <1>2, <1>3, <1>4, Zenon DEF Lifecycle

\* A step of one request keeps the store invariant if the request, and whatever others
\* claimed, is still in the store.
LEMMA StoreRequest ==
  ASSUME StoreInv, phase \notin BootSteps, UNCHANGED phase, NEW c \in Conns, NEW n,
         conns' = [conns EXCEPT ![c] = n],
         n # None => n \in Requested /\ (n.key # None => sessions'[n.key] \in Stored),
         sessions' \in [Keys -> Stored \cup {None}],
         \A d \in Conns : conns[d] # None /\ conns[d].key # None
                            => sessions'[conns[d].key] \in Stored
  PROVE  StoreInv'
<1>1. conns \in [Conns -> Requested \cup {None}]
  BY Zenon DEF StoreInv
<1>2. n \in Requested \cup {None}
  BY Zenon
<1>3. conns' \in [Conns -> Requested \cup {None}]
  BY <1>1, <1>2
<1>4. \A d \in Conns : conns'[d] = IF d = c THEN n ELSE conns[d]
  BY <1>1
<1>5. \A d \in Conns : conns'[d] # None /\ conns'[d].key # None => sessions'[conns'[d].key] \in Stored
  <2> TAKE d \in Conns
  <2>1. CASE d = c
    BY <2>1, <1>4, Zenon
  <2>2. CASE d # c
    BY <2>2, <1>4, Zenon
  <2> QED BY <2>1, <2>2
<1>6. phase' \notin BootSteps
  BY Zenon
<1> QED BY <1>3, <1>5, <1>6, Zenon DEF StoreInv
\* The steps of Connection stay within its states.
LEMMA LinkSteps ==
  ASSUME NEW c, NEW l \in Links
  PROVE  /\ WS(c)!Refused(l).stage = "over" /\ WS(c)!Closed(l).stage = "over"
         /\ WS(c)!Admitted(l) \in Links /\ WS(c)!Admitted(l).stage = "admitted"
         /\ WS(c)!HandedOver(l) \in Links /\ WS(c)!HandedOver(l).stage = "running"
         /\ WS(c)!Opened(l) \in Links /\ WS(c)!Opened(l).stage = l.stage
         /\ WS(c)!Ended(l) \in Links /\ WS(c)!Ended(l).stage = l.stage
<1>1. WS(c)!Refused(l).stage = "over"
  BY DEF WS!Refused, Links
<1>2. WS(c)!Closed(l).stage = "over"
  BY DEF WS!Closed, Links
<1>3. WS(c)!Admitted(l) \in Links /\ WS(c)!Admitted(l).stage = "admitted"
  BY DEF WS!Admitted, Links
<1>4. WS(c)!HandedOver(l) \in Links /\ WS(c)!HandedOver(l).stage = "running"
  BY DEF WS!HandedOver, Links
<1>5. WS(c)!Opened(l) \in Links /\ WS(c)!Opened(l).stage = l.stage
  <2> DEFINE m == [l EXCEPT !.stream = "open"]
  <2>1. m \in Links /\ m.stage = l.stage
    BY DEF Links
  <2>2. WS(c)!Opened(l) = [m EXCEPT !.active = 1]
    BY Zenon DEF WS!Opened
  <2> HIDE DEF m
  <2> QED BY <2>1, <2>2 DEF Links
<1>6. WS(c)!Ended(l) \in Links /\ WS(c)!Ended(l).stage = l.stage
  BY DEF WS!Ended, Links
<1> QED BY <1>1, <1>2, <1>3, <1>4, <1>5, <1>6

\* A request that was admitted knows the stored session it claimed.
LEMMA ActiveRequest ==
  ASSUME StoreInv, NEW c \in Conns, NEW stage, At(c, stage)
  PROVE  /\ phase \notin BootSteps /\ conns[c] # None /\ conns[c] \in Requested
         /\ conns[c].connection \in Links /\ conns[c].connection.stage = stage
         /\ conns[c].key \in Keys \cup {None}
         /\ stage # "arrived" => conns[c].key \in Keys /\ conns[c].key # None
                                 /\ sessions[conns[c].key] \in Stored
<1>1. conns[c] # None /\ conns[c].connection.stage = stage
  BY Zenon DEF At
<1>2. conns[c] \in Requested
  BY <1>1, Zenon DEF StoreInv
<1>3. phase \notin BootSteps
  <2>1. NoConns[c] = None
    BY DEF NoConns
  <2> QED BY <2>1, <1>1, Zenon DEF StoreInv
<1>4. conns[c].connection \in Links /\ conns[c].key \in Keys \cup {None}
  BY <1>2 DEF Requested
<1>5. conns[c].key # None <=> conns[c].connection.stage # "arrived"
  BY <1>2, Zenon DEF Requested
<1> QED BY <1>1, <1>2, <1>3, <1>4, <1>5, Zenon DEF StoreInv

\* A stored session stays stored when its state changes.
LEMMA StateSet ==
  ASSUME StoreInv, NEW k \in Keys, sessions[k] \in Stored,
         NEW x \in {"issued", "claimed", "closed"}, sessions' = [sessions EXCEPT ![k].state = x]
  PROVE  /\ sessions' \in [Keys -> Stored \cup {None}] /\ sessions'[k] \in Stored
         /\ \A j \in Keys : sessions[j] \in Stored => sessions'[j] \in Stored
<1>1. sessions \in [Keys -> Stored \cup {None}]
  BY Zenon DEF StoreInv
<1>2. PICK s \in Stored : s = sessions[k]
  BY Zenon
<1>3. [s EXCEPT !.state = x] \in Stored
  BY DEF Stored
<1>4. sessions' = [sessions EXCEPT ![k] = [s EXCEPT !.state = x]]
  BY <1>2, Zenon
<1> DEFINE u == [s EXCEPT !.state = x]
<1> HIDE DEF u
<1>5. u \in Stored /\ sessions' = [sessions EXCEPT ![k] = u]
  BY <1>3, <1>4, Zenon DEF u
<1> QED BY <1>1, <1>5

\* Requests keep what they claimed if no stored session is forgotten.
LEMMA KeptSessions ==
  ASSUME StoreInv, \A j \in Keys : sessions[j] \in Stored => sessions'[j] \in Stored
  PROVE  \A d \in Conns : conns[d] # None /\ conns[d].key # None
                            => sessions'[conns[d].key] \in Stored
<1> TAKE d \in Conns
<1> HAVE conns[d] # None /\ conns[d].key # None
<1>1. conns[d] \in Requested
  BY Zenon DEF StoreInv
<1>2. conns[d].key \in Keys
  BY <1>1 DEF Requested
<1>3. sessions[conns[d].key] \in Stored
  BY Zenon DEF StoreInv
<1> QED BY <1>2, <1>3, Zenon

\* Manager.Close keeps the store invariant.
LEMMA CloseKeeps ==
  ASSUME StoreInv, NEW c \in Conns, NEW stage, At(c, stage), stage # "arrived", Close(c)
  PROVE  StoreInv'
<1>1. /\ phase \notin BootSteps /\ conns[c].key \in Keys /\ sessions[conns[c].key] \in Stored
      /\ conns[c].connection \in Links
  <2>1. /\ phase \notin BootSteps /\ conns[c].connection \in Links
        /\ stage # "arrived" => conns[c].key \in Keys /\ sessions[conns[c].key] \in Stored
    BY ActiveRequest, Zenon
  <2> QED BY <2>1, Zenon
<1>2. PICK k \in Keys : k = conns[c].key
  BY <1>1, Zenon
<1>3. PICK l \in Links : l = conns[c].connection
  BY <1>1, Zenon
<1>4. conns' = [conns EXCEPT ![c] = None] /\ UNCHANGED phase
  <2>1. WS(c)!Closed(l).stage = "over"
    BY LinkSteps, Zenon
  <2>2. Becomes(c, WS(c)!Closed(conns[c].connection), None)
    BY Zenon DEF Close
  <2>3. WS(c)!Closed(conns[c].connection).stage = "over"
    BY <2>1, <1>3, Zenon
  <2> QED BY <2>2, <2>3, Zenon DEF Becomes, process
<1>5. /\ sessions' \in [Keys -> Stored \cup {None}]
      /\ \A j \in Keys : sessions[j] \in Stored => sessions'[j] \in Stored
  <2>1. CASE sessions' = [sessions EXCEPT ![k].state = "closed"]
    <3>1. sessions[k] \in Stored /\ "closed" \in {"issued", "claimed", "closed"}
      BY <1>1, <1>2, Zenon
    <3> QED BY <2>1, <3>1, StateSet, Zenon
  <2>2. CASE UNCHANGED sessions
    BY <2>2, Zenon DEF StoreInv
  <2> QED BY <2>1, <2>2, <1>2, Zenon DEF Close
<1>6. \A d \in Conns : conns[d] # None /\ conns[d].key # None => sessions'[conns[d].key] \in Stored
  BY <1>5, KeptSessions, Zenon
<1> QED BY <1>1, <1>4, <1>5, <1>6, StoreRequest, Zenon
\* A request that goes on keeps the store invariant.
LEMMA ProceedKeeps ==
  ASSUME StoreInv, phase \notin BootSteps, NEW c \in Conns, NEW l \in Links, NEW k \in Keys \cup {None},
         Becomes(c, l, k), k # None <=> l.stage # "arrived", k # None => sessions'[k] \in Stored,
         sessions' \in [Keys -> Stored \cup {None}],
         \A j \in Keys : sessions[j] \in Stored => sessions'[j] \in Stored
  PROVE  StoreInv'
<1> DEFINE n == IF l.stage = "over" THEN None ELSE [connection |-> l, key |-> k]
<1>1. conns' = [conns EXCEPT ![c] = n] /\ UNCHANGED phase
  BY Zenon DEF Becomes, process
<1>2. n # None => n \in Requested /\ (n.key # None => sessions'[n.key] \in Stored)
  <2> SUFFICES ASSUME n # None PROVE n \in Requested /\ (n.key # None => sessions'[n.key] \in Stored)
    OBVIOUS
  <2>1. n = [connection |-> l, key |-> k]
    BY Zenon
  <2> HIDE DEF n
  <2>2. n.key = k /\ n.connection = l /\ n \in [connection : Links, key : Keys \cup {None}]
    BY <2>1
  <2>3. n \in Requested
    BY <2>2, Zenon DEF Requested
  <2> QED BY <2>2, <2>3, Zenon
<1>3. \A d \in Conns : conns[d] # None /\ conns[d].key # None => sessions'[conns[d].key] \in Stored
  BY KeptSessions, Zenon
<1> HIDE DEF n
<1>4. PICK x : x = n
  BY Zenon
<1>5. conns' = [conns EXCEPT ![c] = x] /\ (x # None => x \in Requested /\ (x.key # None => sessions'[x.key] \in Stored))
  BY <1>1, <1>2, <1>4, Zenon
<1> QED BY <1>1, <1>3, <1>5, StoreRequest, Zenon

\* A step that leaves the store alone forgets nothing.
LEMMA SessionsKept ==
  ASSUME StoreInv, UNCHANGED sessions
  PROVE  /\ sessions' \in [Keys -> Stored \cup {None}]
         /\ \A j \in Keys : sessions[j] \in Stored => sessions'[j] \in Stored
  BY Zenon DEF StoreInv

\* A new request keeps the store invariant.
LEMMA ArriveKeeps == ASSUME StoreInv, NEW c \in Conns, Arrive(c) PROVE StoreInv'
<1> DEFINE l == [stage |-> "arrived", stream |-> "none", closes |-> 0, active |-> 0]
<1>1. l \in Links /\ l.stage = "arrived"
  BY DEF Links
<1>2. Becomes(c, l, None) /\ UNCHANGED sessions
  BY Zenon DEF Arrive
<1>3. phase \notin BootSteps
  BY Disjoint, Zenon DEF Arrive
<1> HIDE DEF l
<1>4. PICK x \in Links : x = l
  BY <1>1, Zenon
<1>5. Becomes(c, x, None) /\ x.stage = "arrived"
  BY <1>1, <1>2, <1>4, Zenon
<1> QED BY <1>2, <1>3, <1>5, SessionsKept, ProceedKeeps, Zenon

\* So does the claim of a ticket, or its refusal,
LEMMA ClaimKeeps == ASSUME StoreInv, NEW c \in Conns, Claim(c) PROVE StoreInv'
<1>1. At(c, "arrived")
  BY Zenon DEF Claim
<1>2. phase \notin BootSteps /\ conns[c].connection \in Links
  BY <1>1, ActiveRequest, Zenon
<1>3. PICK l \in Links : l = conns[c].connection
  BY <1>2, Zenon
<1>4. CASE Becomes(c, WS(c)!Refused(conns[c].connection), None) /\ UNCHANGED sessions
  <2>1. WS(c)!Refused(conns[c].connection).stage = "over"
    <3>1. WS(c)!Refused(l).stage = "over"
      BY LinkSteps, Zenon
    <3> QED BY <3>1, <1>3, Zenon
  <2>2. conns' = [conns EXCEPT ![c] = None] /\ UNCHANGED phase
    BY <1>4, <2>1, Zenon DEF Becomes, process
  <2>3. /\ sessions' \in [Keys -> Stored \cup {None}]
        /\ \A j \in Keys : sessions[j] \in Stored => sessions'[j] \in Stored
    BY <1>4, SessionsKept, Zenon
  <2>4. \A d \in Conns : conns[d] # None /\ conns[d].key # None => sessions'[conns[d].key] \in Stored
    BY <2>3, KeptSessions, Zenon
  <2> QED BY <1>2, <2>2, <2>3, <2>4, StoreRequest, Zenon
<1>5. CASE \E k \in Keys :
             /\ sessions[k] # None /\ sessions' = [sessions EXCEPT ![k].state = "claimed"]
             /\ Becomes(c, WS(c)!Admitted(conns[c].connection), k)
  <2>1. PICK k \in Keys :
             /\ sessions[k] # None /\ sessions' = [sessions EXCEPT ![k].state = "claimed"]
             /\ Becomes(c, WS(c)!Admitted(conns[c].connection), k)
    BY <1>5, Zenon
  <2>2. WS(c)!Admitted(l) \in Links /\ WS(c)!Admitted(l).stage = "admitted"
    BY LinkSteps, Zenon
  <2>3. PICK a \in Links : a = WS(c)!Admitted(l)
    BY <2>2, Zenon
  <2>4. Becomes(c, a, k) /\ a.stage = "admitted"
    BY <2>1, <2>2, <2>3, <1>3, Zenon
  <2>5. a.stage # "arrived" /\ k # None
    BY <2>4, GatewayAssumption
  <2>6. sessions[k] \in Stored /\ "claimed" \in {"issued", "claimed", "closed"}
    BY <2>1, Zenon DEF StoreInv
  <2>7. /\ sessions' \in [Keys -> Stored \cup {None}] /\ sessions'[k] \in Stored
        /\ \A j \in Keys : sessions[j] \in Stored => sessions'[j] \in Stored
    BY <2>1, <2>6, StateSet, Zenon
  <2> QED BY <1>2, <2>4, <2>5, <2>7, ProceedKeeps, Zenon
<1> QED BY <1>4, <1>5, Zenon DEF Claim

\* a step of a request that has its session,
LEMMA CarriesOn ==
  ASSUME StoreInv, NEW c \in Conns, NEW stage, At(c, stage), stage # "arrived", NEW l \in Links,
         l.stage # "arrived", Becomes(c, l, conns[c].key), UNCHANGED sessions
  PROVE  StoreInv'
<1>1. /\ phase \notin BootSteps
      /\ stage # "arrived" => conns[c].key \in Keys /\ conns[c].key # None
                              /\ sessions[conns[c].key] \in Stored
  BY ActiveRequest, Zenon
<1>2. PICK k \in Keys : k = conns[c].key
  BY <1>1, Zenon
<1>3. k # None /\ sessions'[k] \in Stored /\ Becomes(c, l, k)
  BY <1>1, <1>2, Zenon
<1> QED BY <1>1, <1>3, SessionsKept, ProceedKeeps, Zenon

\* and every step after the claim.
LEMMA RunningKeeps ==
  ASSUME StoreInv, NEW c \in Conns, Upgrade(c) \/ Open(c) \/ End(c) \/ Complete(c) PROVE StoreInv'
<1>1. "admitted" # "arrived" /\ "running" # "arrived"
  OBVIOUS
<1>2. ASSUME NEW stage, At(c, stage), stage # "arrived"
      PROVE  \E l \in Links : l = conns[c].connection /\ l.stage = stage
  BY <1>2, ActiveRequest, Zenon
<1>3. CASE Upgrade(c)
  <2>1. At(c, "admitted")
    BY <1>3, Zenon DEF Upgrade
  <2>2. CASE Close(c)
    BY <2>1, <2>2, <1>1, CloseKeeps, Zenon
  <2>3. CASE Becomes(c, WS(c)!HandedOver(conns[c].connection), conns[c].key) /\ UNCHANGED sessions
    <3>1. PICK l \in Links : l = conns[c].connection
      BY <2>1, <1>1, <1>2, Zenon
    <3>2. PICK a \in Links : a = WS(c)!HandedOver(l) /\ a.stage = "running"
      BY LinkSteps, Zenon
    <3>3. Becomes(c, a, conns[c].key)
      BY <2>3, <3>1, <3>2, Zenon
    <3> QED BY <2>1, <2>3, <3>2, <3>3, <1>1, CarriesOn, Zenon
  <2> QED BY <1>3, <2>2, <2>3, Zenon DEF Upgrade
<1>4. CASE Open(c)
  <2>1. At(c, "running")
    BY <1>4, Zenon DEF Open
  <2>2. CASE Close(c)
    BY <2>1, <2>2, <1>1, CloseKeeps, Zenon
  <2>3. CASE Becomes(c, WS(c)!Opened(conns[c].connection), conns[c].key) /\ UNCHANGED sessions
    <3>1. PICK l \in Links : l = conns[c].connection /\ l.stage = "running"
      BY <2>1, <1>1, <1>2, Zenon
    <3>2. PICK a \in Links : a = WS(c)!Opened(l) /\ a.stage = "running"
      <4>1. WS(c)!Opened(l) \in Links /\ WS(c)!Opened(l).stage = l.stage
        BY LinkSteps, Zenon
      <4> QED BY <3>1, <4>1, Zenon
    <3>3. Becomes(c, a, conns[c].key)
      BY <2>3, <3>1, <3>2, Zenon
    <3> QED BY <2>1, <2>3, <3>2, <3>3, <1>1, CarriesOn, Zenon
  <2> QED BY <1>4, <2>2, <2>3, Zenon DEF Open
<1>5. CASE End(c)
  <2>1. At(c, "running") /\ UNCHANGED sessions
        /\ Becomes(c, WS(c)!Ended(conns[c].connection), conns[c].key)
    BY <1>5, Zenon DEF End
  <2>2. PICK l \in Links : l = conns[c].connection /\ l.stage = "running"
    BY <2>1, <1>1, <1>2, Zenon
  <2>3. PICK a \in Links : a = WS(c)!Ended(l) /\ a.stage = "running"
    <3>1. WS(c)!Ended(l) \in Links /\ WS(c)!Ended(l).stage = l.stage
      BY LinkSteps, Zenon
    <3> QED BY <2>2, <3>1, Zenon
  <2>4. Becomes(c, a, conns[c].key)
    BY <2>1, <2>2, <2>3, Zenon
  <2> QED BY <2>1, <2>3, <2>4, <1>1, CarriesOn, Zenon
<1>6. CASE Complete(c)
  <2>1. At(c, "running") /\ Close(c)
    BY <1>6, Zenon DEF Complete
  <2> QED BY <2>1, <1>1, CloseKeeps, Zenon
<1> QED BY <1>3, <1>4, <1>5, <1>6
-----------------------------------------------------------------------------
(* The control plane                                                       *)

\* An RPC being served.
Calls == [peer : {"governance", "other"}, key : Keys, message : Accepted,
          got : Accepted \cup {None}]

\* It is served outside the boot, in the configuration its peer was checked in, and
\* its answer is its own message.
RpcInv ==
  /\ rpc \in Calls \cup {None}
  /\ rpc # None => /\ phase \notin BootSteps \cup {"exited", "down"}
                   /\ rpc.got \in {None, rpc.message}
                   /\ Bound(rpc.message) => config.tls /\ rpc.peer = "governance"

\* Expiry forgets only what no request holds.
LEMMA ExpireKeeps == ASSUME StoreInv, NEW k \in Keys, Expire(k) PROVE StoreInv'
<1>1. /\ sessions[k] # None /\ UNCHANGED <<conns, phase>>
      /\ \A c \in Conns : conns[c] # None => conns[c].key # k
  BY Zenon DEF Expire, process
<1>2. sessions \in [Keys -> Stored \cup {None}] /\ sessions[k] \in Stored
  BY <1>1, Zenon DEF StoreInv
<1>3. /\ sessions' \in [Keys -> Stored \cup {None}]
      /\ \A j \in Keys : j # k /\ sessions[j] \in Stored => sessions'[j] \in Stored
  <2>1. CASE sessions' = [sessions EXCEPT ![k].state = "closed"]
    <3>1. "closed" \in {"issued", "claimed", "closed"}
      OBVIOUS
    <3> QED BY <2>1, <3>1, <1>2, StateSet, Zenon
  <2>2. CASE sessions' = [sessions EXCEPT ![k] = None]
    BY <2>2, <1>2
  <2> QED BY <2>1, <2>2, Zenon DEF Expire
<1>4. \A c \in Conns : conns'[c] # None /\ conns'[c].key # None => sessions'[conns'[c].key] \in Stored
  <2> TAKE c \in Conns
  <2> HAVE conns'[c] # None /\ conns'[c].key # None
  <2>1. conns'[c] = conns[c]
    BY <1>1, Zenon
  <2>2. conns[c] # None /\ conns[c].key # None /\ conns[c].key # k
    BY <1>1, <2>1, Zenon
  <2>3. conns[c] \in Requested /\ sessions[conns[c].key] \in Stored
    BY <2>2, Zenon DEF StoreInv
  <2>4. conns[c].key \in Keys
    BY <2>2, <2>3 DEF Requested
  <2>5. sessions'[conns[c].key] \in Stored
    BY <2>2, <2>3, <2>4, <1>3, Zenon
  <2> QED BY <2>1, <2>5, Zenon
<1>5. NoConns' = NoConns
  BY DEF NoConns
<1> QED BY <1>1, <1>3, <1>4, <1>5, Zenon DEF StoreInv

\* A session stored under a key forgets no other one.
LEMMA StoreCreated ==
  ASSUME StoreInv, UNCHANGED <<conns, phase>>, NEW k \in Keys, NEW s \in Stored,
         sessions' = [sessions EXCEPT ![k] = s]
  PROVE  StoreInv'
<1>1. sessions \in [Keys -> Stored \cup {None}]
  BY Zenon DEF StoreInv
<1>2. /\ sessions' \in [Keys -> Stored \cup {None}]
      /\ \A j \in Keys : sessions[j] \in Stored => sessions'[j] \in Stored
  BY <1>1
<1>3. \A c \in Conns : conns[c] # None /\ conns[c].key # None => sessions'[conns[c].key] \in Stored
  BY <1>2, KeptSessions, Zenon
<1>4. NoConns' = NoConns
  BY DEF NoConns
<1> QED BY <1>2, <1>3, <1>4, Zenon DEF StoreInv

\* An RPC carries an accepted message.
LEMMA RpcTypes == 
  ASSUME RpcInv, rpc # None
  PROVE  rpc \in Calls /\ rpc.key \in Keys /\ rpc.message \in Accepted
<1>1. rpc \in Calls
  BY Zenon DEF RpcInv
<1> QED BY <1>1 DEF Calls

\* CreateOrGet keeps the store invariant.
LEMMA IssueKeepsStore == ASSUME StoreInv, RpcInv, IssueStores PROVE StoreInv'
<1>1. rpc # None /\ UNCHANGED <<conns, phase>>
  BY Zenon DEF IssueStores, Serve, process
<1>2. PICK k \in Keys : k = rpc.key
  BY <1>1, RpcTypes, Zenon
<1>3. PICK s : s = [message |-> rpc.message, state |-> "issued"]
  BY Zenon
<1>4. s \in Stored
  <2>1. rpc.message \in Accepted
    BY <1>1, RpcTypes, Zenon
  <2> QED BY <2>1, <1>3 DEF Stored
<1>5. UNCHANGED sessions \/ sessions' = [sessions EXCEPT ![k] = s]
  BY <1>2, <1>3, Zenon DEF IssueStores
<1>6. CASE UNCHANGED sessions
  BY <1>1, <1>6, StoreUntouched, Zenon
<1>7. CASE sessions' = [sessions EXCEPT ![k] = s]
  BY <1>1, <1>4, <1>7, StoreCreated, Zenon
<1> QED BY <1>5, <1>6, <1>7

\* The control plane keeps the store invariant.
LEMMA StoreControl == ASSUME StoreInv, RpcInv, Control PROVE StoreInv'
<1>1. CASE IssueStores
  BY <1>1, IssueKeepsStore, Zenon
<1>2. CASE ~IssueStores
  <2>1. UNCHANGED <<sessions, conns, phase>>
    BY <1>2, Zenon DEF Control, CreateSession, GetSessionReplay, Receive, OpenRPC, DropRPC, Respond, Watch,
       Serve, process
  <2> QED BY <2>1, StoreUntouched, Zenon
<1> QED BY <1>1, <1>2

\* The store invariant is inductive, given the other two.
LEMMA StoreStep == ProcessInv /\ StoreInv /\ RpcInv /\ [Next]_vars => StoreInv'
<1> SUFFICES ASSUME ProcessInv, StoreInv, RpcInv, [Next]_vars PROVE StoreInv'
  OBVIOUS
<1>1. CASE Lifecycle
  BY <1>1, StoreLifecycle, Zenon
<1>2. CASE Control
  BY <1>2, StoreControl, Zenon
<1>3. CASE Requests
  BY <1>3, ArriveKeeps, ClaimKeeps, RunningKeeps, Zenon DEF Requests
<1>4. CASE \E k \in Keys : Expire(k)
  BY <1>4, ExpireKeeps, Zenon
<1>5. CASE UNCHANGED vars
  <2>1. UNCHANGED <<sessions, conns, phase>>
    BY <1>5, Zenon DEF vars, process
  <2> QED BY <2>1, StoreUntouched, Zenon
<1> QED BY <1>1, <1>2, <1>3, <1>4, <1>5, Zenon DEF Next

\* An RPC that is left alone keeps its invariant while the process serves.
LEMMA RpcUntouched ==
  /\ RpcInv /\ UNCHANGED <<rpc, config>> /\ (rpc # None => phase' \notin BootSteps \cup {"exited", "down"})
  => RpcInv'
BY Zenon DEF RpcInv, Bound

\* There is nothing to say of an RPC that ended.
LEMMA RpcEnded == rpc' = None => RpcInv'
BY Zenon DEF RpcInv

\* An RPC with an answer that is its own message keeps the invariant.
LEMMA RpcSet ==
  ASSUME NEW call \in Calls, rpc' = call, phase' \notin BootSteps \cup {"exited", "down"},
         call.got \in {None, call.message},
         Bound(call.message) => config'.tls /\ call.peer = "governance"
  PROVE  RpcInv'
BY Zenon DEF RpcInv, Bound

\* Every step of run() keeps the RPC invariant: nothing is served while it boots.
LEMMA RpcLifecycle == ProcessInv /\ RpcInv /\ Lifecycle => RpcInv'
<1> SUFFICES ASSUME ProcessInv, RpcInv, Lifecycle PROVE RpcInv'
  OBVIOUS
<1>1. CASE Start
  <2>1. rpc = None /\ rpc' = rpc
    BY <1>1, Zenon DEF Start, Ended, RpcInv
  <2> QED BY <2>1, RpcEnded, Zenon
<1>2. CASE Boot \/ BootFails
  <2>1. rpc = None /\ rpc' = rpc
    BY <1>2, Zenon DEF Boot, BootFails, RpcInv
  <2> QED BY <2>1, RpcEnded, Zenon
<1>3. CASE Crash
  BY <1>3, RpcEnded, Zenon DEF Crash
<1>4. CASE Signal
  <2>1. UNCHANGED <<rpc, config, phase>>
    BY <1>4, Zenon DEF Signal
  <2> QED BY <2>1, RpcUntouched, Zenon DEF RpcInv
<1>5. CASE Await \/ ServeFails \/ GracefulStop \/ Shutdown
  <2>1. UNCHANGED <<rpc, config>> /\ phase' \in {"drain rpc", "failing", "drain http", "stopping"}
    BY <1>5, Zenon DEF Await, ServeFails, GracefulStop, Shutdown, Goto
  <2>2. phase' \notin BootSteps \cup {"exited", "down"}
    BY <2>1, Disjoint
  <2> QED BY <2>1, <2>2, RpcUntouched, Zenon
<1>6. CASE Release
  <2>1. CASE held = <<>>
    BY <1>6, <2>1, RpcEnded, Zenon DEF Release
  <2>2. CASE held # <<>>
    <3>1. UNCHANGED <<rpc, config, phase>>
      BY <1>6, <2>2, Zenon DEF Release
    <3> QED BY <3>1, RpcUntouched, Zenon DEF RpcInv
  <2> QED BY <2>1, <2>2
<1> QED BY <1>1, <1>2, <1>3, <1>4, <1>5, <1>6, Zenon DEF Lifecycle
\* A message comes to a process that serves, stops serving or whose server failed.
LEMMA ServesCalls == Awaited => phase \notin BootSteps \cup {"exited", "down"}
<1> SUFFICES ASSUME Awaited PROVE phase \notin BootSteps \cup {"exited", "down"}
  OBVIOUS
<1>1. phase \in {"serving", "failing", "drain rpc"}
  BY Zenon DEF Awaited, ServesRPC
<1> QED BY <1>1, Disjoint

\* CreateSession takes a frozen target from Governance only.
LEMMA CreateKeepsRpc ==
  ASSUME NEW peer \in {"governance", "other"}, NEW k \in Keys, NEW m \in Messages,
         CreateSession(peer, k, m)
  PROVE  RpcInv'
<1> DEFINE call == [peer |-> peer, key |-> k, message |-> m, got |-> None]
<1>1. rpc' = call /\ UNCHANGED <<phase, config>> /\ Awaited
  BY Zenon DEF CreateSession, Receive, process
<1>2. m \in Accepted
  BY Zenon DEF CreateSession, IssueAccepts, Accepted
<1>3. call \in Calls /\ call.got = None /\ call.message = m /\ call.peer = peer
  BY <1>2 DEF Calls
<1>4. Bound(m) => config'.tls /\ peer = "governance"
  BY <1>1, Zenon DEF CreateSession, AuthenticatedGovernance
<1>5. phase' \notin BootSteps \cup {"exited", "down"}
  BY <1>1, ServesCalls, Zenon
<1> HIDE DEF call
<1> QED BY <1>1, <1>3, <1>4, <1>5, RpcSet, Zenon

\* GetSessionReplay answers Governance only.
LEMMA ReplayKeepsRpc ==
  ASSUME StoreInv, NEW peer \in {"governance", "other"}, NEW k \in Keys, NEW q \in Queries,
         GetSessionReplay(peer, k, q)
  PROVE  RpcInv'
<1>1. sessions[k] \in Stored
  BY Zenon DEF GetSessionReplay, StoreInv
<1>2. sessions[k].message \in Accepted
  BY <1>1 DEF Stored
<1>3. PICK m \in Accepted : m = sessions[k].message
  BY <1>2, Zenon
<1> DEFINE call == [peer |-> peer, key |-> k, message |-> m, got |-> m]
<1>4. rpc' = call /\ UNCHANGED <<phase, config>> /\ Awaited
  BY <1>3, Zenon DEF GetSessionReplay, Receive, process
<1>5. call \in Calls /\ call.got = m /\ call.message = m /\ call.peer = peer
  BY DEF Calls
<1>6. config'.tls /\ peer = "governance"
  BY <1>4, Zenon DEF GetSessionReplay, AuthenticatedGovernance
<1>7. phase' \notin BootSteps \cup {"exited", "down"}
  BY <1>4, ServesCalls, Zenon
<1> HIDE DEF call
<1> QED BY <1>4, <1>5, <1>6, <1>7, RpcSet, Zenon

\* CreateOrGet answers with the very message, for the fingerprint of what was stored
\* under the key tells it from every other.
LEMMA IssueKeepsRpc == ASSUME StoreInv, RpcInv, IssueStores PROVE RpcInv'
<1>1. rpc # None /\ UNCHANGED <<phase, config>>
  BY Zenon DEF IssueStores, Serve, process
<1>2. rpc \in Calls /\ rpc.key \in Keys /\ rpc.message \in Accepted
  BY <1>1, RpcTypes, Zenon
<1>3. rpc' = None \/ rpc' = [rpc EXCEPT !.got = rpc.message]
  <2> DEFINE stored == sessions[rpc.key]
  <2>1. CASE /\ stored # None /\ rpc' = [rpc EXCEPT !.got = stored.message]
             /\ Fingerprint(MapRequest(stored.message)) = Fingerprint(MapRequest(rpc.message))
    <3>1. stored \in Stored
      BY <2>1, <1>2, Zenon DEF StoreInv
    <3>2. stored.message \in Accepted
      BY <3>1 DEF Stored
    <3>3. stored.message = rpc.message
      BY <3>2, <2>1, <1>2, FingerprintTells, Zenon
    <3> QED BY <2>1, <3>3, Zenon
  <2>2. CASE rpc' = [rpc EXCEPT !.got = rpc.message]
    BY <2>2
  <2>3. CASE rpc' = None
    BY <2>3
  <2> QED BY <2>1, <2>2, <2>3, Zenon DEF IssueStores, Serve
<1>4. CASE rpc' = None
  BY <1>4, RpcEnded, Zenon
<1>5. CASE rpc' = [rpc EXCEPT !.got = rpc.message]
  <2>1. PICK r \in Calls : r = rpc
    BY <1>2, Zenon
  <2>2. PICK call : call = [r EXCEPT !.got = r.message]
    BY Zenon
  <2>3. call \in Calls /\ call.got = r.message /\ call.message = r.message /\ call.peer = r.peer
    BY <2>2 DEF Calls
  <2>4. rpc' = call
    BY <1>5, <2>1, <2>2, Zenon
  <2>5. Bound(r.message) => config'.tls /\ r.peer = "governance"
    BY <1>1, <2>1, Zenon DEF RpcInv
  <2>6. phase' \notin BootSteps \cup {"exited", "down"}
    BY <1>1, Zenon DEF RpcInv
  <2> QED BY <2>3, <2>4, <2>5, <2>6, RpcSet, Zenon
<1> QED BY <1>3, <1>4, <1>5

\* The RPC invariant is inductive, given the other two.
LEMMA RpcStep == ProcessInv /\ StoreInv /\ RpcInv /\ [Next]_vars => RpcInv'
<1> SUFFICES ASSUME ProcessInv, StoreInv, RpcInv, [Next]_vars PROVE RpcInv'
  OBVIOUS
<1>1. CASE Lifecycle
  BY <1>1, RpcLifecycle, Zenon
<1>2. CASE UNCHANGED <<rpc, process>>
  <2>1. UNCHANGED <<rpc, config, phase>>
    BY <1>2, Zenon DEF process
  <2> QED BY <2>1, RpcUntouched, Zenon DEF RpcInv
<1>3. CASE Control
  <2>1. ASSUME NEW peer \in {"governance", "other"}, NEW k \in Keys,
               (\E m \in Messages : CreateSession(peer, k, m))
                 \/ (\E q \in Queries : GetSessionReplay(peer, k, q))
        PROVE  RpcInv'
    BY <2>1, CreateKeepsRpc, ReplayKeepsRpc, Zenon
  <2>2. CASE IssueStores
    BY <2>2, IssueKeepsRpc, Zenon
  <2>3. CASE Respond
    BY <2>3, RpcEnded, Zenon DEF Respond, Serve
  <2>4. CASE Watch \/ OpenRPC \/ DropRPC
    BY <2>4, <1>2, Zenon DEF Watch, OpenRPC, DropRPC
  <2> QED BY <1>3, <2>1, <2>2, <2>3, <2>4, Zenon DEF Control
<1>4. CASE Requests
  <2>1. UNCHANGED <<rpc, process>>
    BY <1>4, Zenon DEF Requests, Arrive, Claim, Upgrade, Open, End, Complete, Close, Becomes
  <2> QED BY <2>1, <1>2, Zenon
<1>5. CASE \E k \in Keys : Expire(k)
  BY <1>5, <1>2, Zenon DEF Expire
<1>6. CASE UNCHANGED vars
  BY <1>6, <1>2, Zenon DEF vars
<1> QED BY <1>1, <1>3, <1>4, <1>5, <1>6, Zenon DEF Next

\* What waits for a client is a watch or a call.
Streams == SUBSET {"watch", "message"}
LEMMA WaitingStep == waiting \in Streams /\ [Next]_vars => waiting' \in Streams
<1> SUFFICES ASSUME waiting \in Streams, [Next]_vars PROVE waiting' \in Streams
  OBVIOUS
<1>1. CASE OpenRPC \/ DropRPC \/ Watch
  <2>1. \E s \in {{"watch"}, {"message"}} : waiting' \in {waiting \cup s, waiting \ s}
    BY <1>1, Zenon DEF OpenRPC, DropRPC, Watch
  <2> QED BY <2>1 DEF Streams
<1>2. CASE \E peer \in {"governance", "other"}, k \in Keys :
             \/ \E m \in Messages : CreateSession(peer, k, m)
             \/ \E q \in Queries : GetSessionReplay(peer, k, q)
  <2>1. waiting' = waiting \ {"message"}
    BY <1>2, Zenon DEF CreateSession, GetSessionReplay, Receive
  <2> QED BY <2>1 DEF Streams
<1>3. CASE IssueStores \/ Respond \/ Lifecycle \/ Requests \/ (\E k \in Keys : Expire(k)) \/ UNCHANGED vars
  <2>1. UNCHANGED waiting \/ waiting' = {}
    BY <1>3, Zenon DEF vars, Lifecycle, Start, Boot, BootFails, Signal, Await, ServeFails, GracefulStop,
       Shutdown, Release, Crash, Goto, IssueStores, Respond, Serve, Requests, Arrive, Claim, Upgrade,
       Open, End, Complete, Close, Becomes, Expire
  <2> QED BY <2>1 DEF Streams
<1> QED BY <1>1, <1>2, <1>3, Zenon DEF Next, Control

\* All of it: what the fingerprint of a stored session shows of its message needs the
\* store's invariant, and the store that of the RPC it stores for.
GatewayInv == ProcessInv /\ StoreInv /\ RpcInv /\ waiting \in Streams

\* The invariants of process, store and RPC hold together in every state.
THEOREM GatewayInvariant == Spec => []GatewayInv
<1>1. Init => GatewayInv
  <2>1. Init => RpcInv
    BY Zenon DEF Init, RpcInv
  <2>2. Init => waiting \in Streams
    BY DEF Init, Streams
  <2> QED BY <2>1, <2>2, ProcessInit, StoreInit, Zenon DEF GatewayInv
<1>2. GatewayInv /\ [Next]_vars => GatewayInv'
  BY ProcessStep, StoreStep, RpcStep, WaitingStep, Zenon DEF GatewayInv
<1> QED BY <1>1, <1>2, PTL DEF Spec

\* The ticket that answers CreateSession opens the session that was asked for, to the
\* last option, also when the key was used before, by anyone, before or after a restart:
\* for any messages of the protocol and any command.
THEOREM SameIntent == Spec => []TicketForSameIntent
<1>1. GatewayInv => TicketForSameIntent
  BY Zenon DEF GatewayInv, RpcInv, TicketForSameIntent
<1> QED BY <1>1, GatewayInvariant, PTL

\* The ticket of a frozen target is given to Governance only, for any messages and
\* environments, also when another client repeats its idempotency key.
THEOREM ManagedOnlyToGovernance == Spec => []ManagedTicketsOnlyToGovernance
<1>1. GatewayInv => ManagedTicketsOnlyToGovernance
  BY Zenon DEF GatewayInv, RpcInv, ManagedTicketsOnlyToGovernance
<1> QED BY <1>1, GatewayInvariant, PTL

\* The invariants imply the type invariant.
LEMMA InvTypes == GatewayInv => TypeOK
<1> SUFFICES ASSUME GatewayInv PROVE TypeOK
  OBVIOUS
<1>1. /\ boots \in 0..MaxBoots /\ refused \in BootSteps \cup {None}
      /\ config \in Configs \cup {None} /\ canceled \in BOOLEAN /\ waiting \subseteq {"watch", "message"}
      /\ phase \in BootSteps \cup {"serving", "drain rpc", "drain http", "failing", "stopping",
                                   "exited", "down"}
  BY Zenon DEF GatewayInv, ProcessInv, Phases, Streams
<1>2. (env = Unset) = (phase \notin BootSteps)
  BY GatewayAssumption, Zenon DEF GatewayInv, ProcessInv
<1>3. \A i \in DOMAIN held : held[i] \in Releases
  <2>1. held \in Seq(Releases)
    BY Zenon DEF GatewayInv, ProcessInv
  <2> QED BY <2>1
<1>4. ASSUME NEW k \in Keys, sessions[k] # None
      PROVE  /\ sessions[k].state \in {"issued", "claimed", "closed"}
             /\ Valid(MapRequest(sessions[k].message))
  <2>1. sessions[k] \in Stored
    BY <1>4, Zenon DEF GatewayInv, StoreInv
  <2>2. sessions[k].state \in {"issued", "claimed", "closed"} /\ sessions[k].message \in Accepted
    BY <2>1 DEF Stored
  <2> QED BY <2>2, Zenon DEF Accepted
<1>5. ASSUME NEW c \in Conns, conns[c] # None
      PROVE  /\ conns[c].connection \in WS(c)!Connections
             /\ (conns[c].key # None) = (conns[c].connection.stage # "arrived")
  <2>1. conns[c] \in Requested
    BY <1>5, Zenon DEF GatewayInv, StoreInv
  <2>2. conns[c].connection \in Links
    BY <2>1 DEF Requested
  <2>3. conns[c].key # None <=> conns[c].connection.stage # "arrived"
    BY <2>1, Zenon DEF Requested
  <2>4. Links = WS(c)!Connections
    BY Zenon DEF Links, WS!Connections
  <2> QED BY <2>2, <2>3, <2>4, Zenon
<1>6. rpc # None => rpc.message \in Messages /\ rpc.got \in Messages \cup {None}
  <2> SUFFICES ASSUME rpc # None PROVE rpc.message \in Messages /\ rpc.got \in Messages \cup {None}
    OBVIOUS
  <2>1. rpc.message \in Accepted /\ rpc.got \in {None, rpc.message}
    BY RpcTypes, Zenon DEF GatewayInv, RpcInv
  <2> QED BY <2>1, Zenon DEF Accepted
<1> QED BY <1>1, <1>2, <1>3, <1>4, <1>5, <1>6, Zenon DEF TypeOK

\* The process, its store, its RPC and its requests are always well typed.
THEOREM TypeCorrect == Spec => []TypeOK
BY InvTypes, GatewayInvariant, PTL
=============================================================================
