--------------------------- MODULE GraphXferProofs ---------------------------
(***************************************************************************)
(* Proofs about the search of GraphXfer, for every graph, every number of  *)
(* rules and every budget: it returns the cheapest graph it has seen, run  *)
(* keeps mappedInputs in step with its stack when no two source operators  *)
(* of a rule share an outside tensor, and then every graph it builds is    *)
(* wired completely and, if the rules are sound, computes what the graph   *)
(* does that optimize was called on.                                       *)
(***************************************************************************)
EXTENDS GraphXfer, FiniteSetTheorems, TLAPS

----------------------------------------------------------------------------
(* Sequences and numbers *)

\* A nonempty set of naturals has a least element, which is its Min.
LEMMA MinIn ==
  ASSUME NEW S \in SUBSET Nat, S # {}
  PROVE  Min(S) \in S
<1>1. PICK m \in S : \A k \in S : ~ (<<k, m>> \in OpToRel(<, Nat))
  BY NatLessThanWellFounded, WFMin, Zenon
<1>2. \A k \in S : m \in Nat /\ k \in Nat /\ ~ (k < m)
  BY <1>1, Zenon DEF OpToRel
<1>3. \A k \in S : m <= k
  BY <1>2
<1> QED BY <1>3, Zenon DEF Min

\* What is left of a sequence without its last element.
LEMMA FrontIs ==
  ASSUME NEW S, NEW s \in Seq(S), s # <<>>
  PROVE  /\ Front(s) \in Seq(S) /\ Len(Front(s)) = Len(s) - 1 /\ Len(s) \in DOMAIN s
         /\ \A k : k \in DOMAIN Front(s) <=> k \in DOMAIN s /\ k # Len(s)
         /\ \A k \in DOMAIN Front(s) : Front(s)[k] = s[k]
<1>1. Len(s) \in Nat /\ Len(s) # 0 /\ DOMAIN s = 1 .. Len(s)
  OBVIOUS
<1> DEFINE t == [i \in 1 .. Len(s) - 1 |-> s[i]]
<1>2. t = Front(s)
  BY Zenon DEF Front
<1>3. t \in Seq(S) /\ Len(t) = Len(s) - 1 /\ \A i \in 1 .. Len(s) - 1 : t[i] = s[i]
  BY <1>1
<1> HIDE DEF t
<1>4. DOMAIN t = 1 .. Len(s) - 1
  BY <1>3
<1>5. \A k : k \in DOMAIN t <=> k \in DOMAIN s /\ k # Len(s)
  BY <1>1, <1>4
<1>6. Len(s) \in DOMAIN s
  BY <1>1
<1> QED BY <1>2, <1>3, <1>4, <1>5, <1>6

\* A sequence with one more element.
LEMMA AppendIs ==
  ASSUME NEW S, NEW s \in Seq(S), NEW a \in S
  PROVE  /\ Append(s, a) \in Seq(S) /\ Len(Append(s, a)) = Len(s) + 1
         /\ \A k : k \in DOMAIN Append(s, a) <=> k \in DOMAIN s \/ k = Len(s) + 1
         /\ \A k \in DOMAIN s : Append(s, a)[k] = s[k] /\ k # Len(s) + 1
         /\ Append(s, a)[Len(s) + 1] = a
<1>1. Len(s) \in Nat /\ DOMAIN s = 1 .. Len(s)
  OBVIOUS
<1>2. /\ Append(s, a) \in Seq(S) /\ Len(Append(s, a)) = Len(s) + 1
      /\ \A k \in 1 .. Len(s) : Append(s, a)[k] = s[k]
      /\ Append(s, a)[Len(s) + 1] = a
  OBVIOUS
<1> DEFINE t == Append(s, a)
<1> HIDE DEF t
<1>3. DOMAIN t = 1 .. Len(s) + 1
  BY <1>2 DEF t
<1>4. \A k : k \in DOMAIN t <=> k \in DOMAIN s \/ k = Len(s) + 1
  BY <1>1, <1>3
<1>5. \A k \in DOMAIN s : k # Len(s) + 1
  BY <1>1
<1> QED BY <1>1, <1>2, <1>4, <1>5, Zenon DEF t

\* Two sequences.
LEMMA ConcatIs ==
  ASSUME NEW S, NEW s \in Seq(S), NEW t \in Seq(S)
  PROVE  /\ s \o t \in Seq(S) /\ Len(s \o t) = Len(s) + Len(t)
         /\ \A i \in 1 .. Len(s) + Len(t) :
              (s \o t)[i] = IF i <= Len(s) THEN s[i] ELSE t[i - Len(s)]
OBVIOUS

----------------------------------------------------------------------------
(* Rules and kinds *)

\* The rule that is being run.
LEMMA RuleIs ==
  ASSUME x \in DOMAIN Rules
  PROVE  /\ WellFormedRule(Rules[x])
         /\ Len(Src) \in Nat \ {0} /\ DOMAIN Src = 1 .. Len(Src)
         /\ Len(Dst) \in Nat /\ DOMAIN Dst = 1 .. Len(Dst)
         /\ \A k \in DOMAIN Src : Src[k] \in RuleOp /\ Src[k].kind # "input"
         /\ \A k \in DOMAIN Dst : Dst[k] \in RuleOp
<1>1. WellFormedRule(Rules[x])
  BY RulesAssumption, Zenon
<1>2. Src \in Seq(RuleOp) /\ Src # <<>> /\ Dst \in Seq(RuleOp)
  BY <1>1, Zenon DEF WellFormedRule, Src, Dst
<1>3. Len(Src) \in Nat \ {0} /\ DOMAIN Src = 1 .. Len(Src)
  <2>1. Len(Src) \in Nat /\ DOMAIN Src = 1 .. Len(Src)
    BY <1>2
  <2>2. Len(Src) # 0
    BY <1>2
  <2> QED BY <2>1, <2>2
<1>4. Len(Dst) \in Nat /\ DOMAIN Dst = 1 .. Len(Dst)
  BY <1>2
<1>5. \A k \in DOMAIN Src : Src[k] \in RuleOp
  BY <1>2, <1>3
<1>6. \A k \in DOMAIN Dst : Dst[k] \in RuleOp
  BY <1>2, <1>4
<1>7. \A k \in DOMAIN Src : Src[k].kind # "input"
  BY <1>1, Zenon DEF WellFormedRule, Src
<1> QED BY <1>1, <1>3, <1>4, <1>5, <1>6, <1>7, Zenon

\* The inputs of an operator of a rule.
LEMMA InputsAre ==
  ASSUME NEW op \in RuleOp
  PROVE  /\ op.kind \in DOMAIN Arity
         /\ Len(op.in) \in Nat /\ DOMAIN op.in = 1 .. Len(op.in)
         /\ \A i \in DOMAIN op.in : op.in[i] \in Int /\ op.in[i] # 0
<1>1. op.in \in Seq(Int \ {0}) /\ op.kind \in DOMAIN Arity
  BY DEF RuleOp
<1> QED BY <1>1

\* A tensor from outside is a negative number.
LEMMA ExternalNegative ==
  ASSUME NEW op \in RuleOp, NEW t \in ExternalIds(op)
  PROVE  t \in Int /\ ~ (t > 0)
<1>1. PICK i \in DOMAIN op.in : t = op.in[i] /\ op.in[i] < 0
  BY Zenon DEF ExternalIds, External
<1>2. op.in[i] \in Int
  BY InputsAre, Zenon
<1> QED BY <1>1, <1>2

\* The operators that a rewriting makes come after those there are.
LEMMA KindIs ==
  ASSUME x \in DOMAIN Rules, kind \in Seq(DOMAIN Arity)
  PROVE  /\ NewKind \in Seq(DOMAIN Arity) /\ DOMAIN kind = 1 .. Len(kind) /\ Len(kind) \in Nat
         /\ \A op \in DOMAIN kind : op \in DOMAIN NewKind /\ NewKind[op] = kind[op]
         /\ \A k \in DOMAIN Dst : /\ NewOp(k) \in DOMAIN NewKind /\ NewOp(k) \notin DOMAIN kind
                                  /\ NewKind[NewOp(k)] = Dst[k].kind /\ NewOp(k) # 0
         /\ \A j, k \in DOMAIN Dst : NewOp(j) = NewOp(k) => j = k
<1> DEFINE d == [k \in DOMAIN Dst |-> Dst[k].kind]
           n == Len(kind)
           m == Len(Dst)
           A == DOMAIN Arity
<1>1. m \in Nat /\ DOMAIN Dst = 1 .. m
  BY RuleIs, Zenon
<1>2. \A k \in DOMAIN Dst : Dst[k].kind \in A
  BY RuleIs, InputsAre, Zenon
<1>3. d \in Seq(A) /\ Len(d) = m /\ \A k \in 1 .. m : d[k] = Dst[k].kind
  <2> HIDE DEF A, m
  <2>1. d = [k \in 1 .. m |-> Dst[k].kind]
    BY <1>1, Zenon
  <2>2. d \in [1 .. m -> A]
    BY <1>1, <1>2, <2>1, Zenon
  <2> HIDE DEF d
  <2>3. d \in Seq(A) /\ Len(d) = m
    BY <1>1, <2>2
  <2> QED BY <1>1, <2>1, <2>3, Zenon
<1>4. n \in Nat /\ DOMAIN kind = 1 .. n
  OBVIOUS
<1> HIDE DEF d, n, m, A
<1>5. kind \in Seq(A) /\ Len(kind) = n
  BY DEF A, n
<1>6. /\ kind \o d \in Seq(A) /\ Len(kind \o d) = n + m
      /\ \A i \in 1 .. n + m : (kind \o d)[i] = IF i <= n THEN kind[i] ELSE d[i - n]
  BY <1>3, <1>5, ConcatIs, Zenon
<1>7. NewKind = kind \o d
  BY Zenon DEF NewKind, d
<1>8. NewKind \in Seq(A) /\ Len(NewKind) = n + m
  BY <1>6, <1>7, Zenon
<1>9. DOMAIN NewKind = 1 .. n + m
  BY <1>8
<1>10. ASSUME NEW op \in DOMAIN kind PROVE op \in DOMAIN NewKind /\ NewKind[op] = kind[op]
  <2>1. op \in 1 .. n + m /\ op <= n
    BY <1>1, <1>4
  <2> QED BY <1>6, <1>7, <1>9, <2>1, Zenon
<1>11. ASSUME NEW k \in DOMAIN Dst
       PROVE  /\ NewOp(k) \in DOMAIN NewKind /\ NewOp(k) \notin DOMAIN kind
              /\ NewKind[NewOp(k)] = Dst[k].kind /\ NewOp(k) # 0
  <2>1. n + k \in 1 .. n + m /\ ~ (n + k <= n) /\ (n + k) - n = k /\ n + k \notin 1 .. n
        /\ n + k # 0 /\ k \in 1 .. m
    BY <1>1, <1>4
  <2>2. NewOp(k) = n + k
    BY Zenon DEF NewOp, n
  <2> QED BY <1>3, <1>4, <1>6, <1>7, <1>9, <2>1, <2>2, Zenon
<1>12. ASSUME NEW j \in DOMAIN Dst, NEW k \in DOMAIN Dst, NewOp(j) = NewOp(k) PROVE j = k
  <2>1. n + j = n + k
    BY <1>12, Zenon DEF NewOp, n
  <2> QED BY <1>1, <1>4, <2>1
<1> QED BY <1>4, <1>8, <1>10, <1>11, <1>12, Zenon DEF A, n

\* The edges of the graph that create_new_graph makes: those of the operators that
\* stay, from the same source or from a new operator, and those of the new ones.
Stays(e, f) == f \in sub /\ f[2] \notin Matched /\ e = <<NewSource(f[1]), f[2], f[3]>>
Fed(k, i) == IF Dst[k].in[i] > 0 THEN NewOp(Dst[k].in[i]) ELSE mapped[Dst[k].in[i]]
Made(e, k, i) == k \in DOMAIN Dst /\ i \in DOMAIN Dst[k].in /\ e = <<Fed(k, i), NewOp(k), i>>

LEMMA NewEdges ==
  /\ \A e \in create_new_graph : (\E f : Stays(e, f)) \/ (\E k, i : Made(e, k, i))
  /\ \A e, f : Stays(e, f) => e \in create_new_graph
  /\ \A e, k, i : Made(e, k, i) => e \in create_new_graph
<1> DEFINE A == {<<NewSource(e[1]), e[2], e[3]>> : e \in {f \in sub : f[2] \notin Matched}}
           B(k) == {<<Fed(k, i), NewOp(k), i>> : i \in DOMAIN Dst[k].in}
<1>1. create_new_graph = A \cup UNION {B(k) : k \in DOMAIN Dst}
  BY Zenon DEF create_new_graph, Fed
<1>2. \A e : e \in A <=> \E f : Stays(e, f)
  BY Zenon DEF Stays
<1>3. \A e, k : k \in DOMAIN Dst => (e \in B(k) <=> \E i : Made(e, k, i))
  BY Zenon DEF Made
<1>4. \A e, k, i : Made(e, k, i) => k \in DOMAIN Dst
  BY Zenon DEF Made
<1> HIDE DEF A, B
<1>5. \A e : e \in create_new_graph <=> e \in A \/ \E k \in DOMAIN Dst : e \in B(k)
  BY <1>1, Zenon
<1> QED BY <1>2, <1>3, <1>4, <1>5, Zenon

\* Their targets and slots.
LEMMA NewTargets ==
  /\ \A e, f : Stays(e, f) => e[2] = f[2] /\ e[3] = f[3] /\ f[2] \in Ops(sub) /\ e[1] = NewSource(f[1])
  /\ \A e, k, i : Made(e, k, i) => e[2] = NewOp(k) /\ e[3] = i /\ e[1] = Fed(k, i)
<1>1. ASSUME NEW e, NEW f, Stays(e, f)
      PROVE  e[2] = f[2] /\ e[3] = f[3] /\ f[2] \in Ops(sub) /\ e[1] = NewSource(f[1])
  <2>1. e = <<NewSource(f[1]), f[2], f[3]>>
    BY <1>1, Zenon DEF Stays
  <2>2. f[2] \in Ops(sub)
    BY <1>1, Zenon DEF Stays, Ops
  <2> QED BY <2>1, <2>2
<1>2. ASSUME NEW e, NEW k, NEW i, Made(e, k, i)
      PROVE  e[2] = NewOp(k) /\ e[3] = i /\ e[1] = Fed(k, i)
  <2>1. e = <<Fed(k, i), NewOp(k), i>>
    BY <1>2, Zenon DEF Made
  <2> QED BY <2>1
<1> QED BY <1>1, <1>2, Zenon

----------------------------------------------------------------------------
(* The types, and the price of the best graph *)

\* TypeOK, with what it needs to be inductive.
TypeInv ==
  /\ kind \in Seq(DOMAIN Arity)
  /\ \A g \in cands \cup {sub, best} : Ops(g) \subseteq DOMAIN kind
  /\ x \in DOMAIN Rules
  /\ stack \in Seq(Ops(sub)) /\ Len(stack) <= Len(Src)
  /\ counter \in 0 .. Budget + 1
  /\ phase \in {"pop", "run", "done", "KeyError", "NotImplementedError"}
  /\ phase = "pop" => stack = <<>>

\* The search starts with TypeInv.
LEMMA InitType == Init => TypeInv
<1> SUFFICES ASSUME Init PROVE TypeInv
  OBVIOUS
<1>1. PICK g \in Graphs : origin = g.edges /\ kind = g.kind
  BY Zenon DEF Init
<1>2. kind \in Seq(DOMAIN Arity) /\ Ops(origin) \subseteq DOMAIN kind
  BY <1>1, GraphsAssumption, Zenon
<1>3. /\ cands = {origin} /\ sub = origin /\ best = origin /\ counter = 0 /\ x = 1
      /\ stack = <<>> /\ phase = "pop"
  BY Zenon DEF Init
<1>4. \A h \in cands \cup {sub, best} : Ops(h) \subseteq DOMAIN kind
  BY <1>2, <1>3, Zenon
<1>5. x \in DOMAIN Rules
  BY <1>3, RulesAssumption
<1>6. stack \in Seq(Ops(sub)) /\ Len(stack) <= Len(Src)
  <2>1. Len(Src) \in Nat
    BY <1>5, RuleIs
  <2> QED BY <1>3, <2>1
<1>7. counter \in 0 .. Budget + 1
  BY <1>3, RulesAssumption
<1> QED BY <1>2, <1>3, <1>4, <1>5, <1>6, <1>7, Zenon DEF TypeInv

\* optimize takes a graph from the heap.
LEMMA PopType ==
  ASSUME TypeInv, NEW g \in cands, Expand(g) \/ BudgetSpent(g)
  PROVE  TypeInv'
<1>1. /\ phase = "pop" /\ cands' = cands \ {g} /\ kind' = kind /\ stack' = stack
      /\ best' = IF total_cost(g) < total_cost(best) THEN g ELSE best
      /\ sub' \in {sub, g}
  BY Zenon DEF Expand, BudgetSpent, Pop
<1>2. /\ kind \in Seq(DOMAIN Arity) /\ \A h \in cands \cup {sub, best} : Ops(h) \subseteq DOMAIN kind
      /\ x \in DOMAIN Rules /\ stack = <<>> /\ counter \in 0 .. Budget + 1
  BY <1>1, Zenon DEF TypeInv
<1>3. \A h \in cands' \cup {sub', best'} : Ops(h) \subseteq DOMAIN kind'
  BY <1>1, <1>2, Zenon
<1>4. x' \in DOMAIN Rules /\ phase' \in {"run", "done"}
  <2>1. 1 \in DOMAIN Rules
    BY RulesAssumption
  <2> QED BY <1>2, <2>1, Zenon DEF Expand, BudgetSpent
<1>5. counter' \in 0 .. Budget + 1
  <2>1. CASE Expand(g)
    BY <1>2, <2>1, RulesAssumption DEF Expand
  <2>2. CASE BudgetSpent(g)
    BY <1>2, <2>2, Zenon DEF BudgetSpent
  <2> QED BY <2>1, <2>2, Zenon
<1>6. stack' \in Seq(Ops(sub')) /\ Len(stack') <= Len(Src')
  <2>1. Len(Src') \in Nat
    <3>1. Src' = Rules[x'].src
      BY Zenon DEF Src
    <3>2. WellFormedRule(Rules[x'])
      BY <1>4, RulesAssumption, Zenon
    <3>3. Src' \in Seq(RuleOp)
      BY <3>1, <3>2, Zenon DEF WellFormedRule
    <3> QED BY <3>3
  <2>2. stack' = <<>>
    BY <1>1, <1>2, Zenon
  <2> QED BY <2>1, <2>2
<1> QED BY <1>1, <1>2, <1>3, <1>4, <1>5, <1>6 DEF TypeInv

\* run matches one more operator, of the graph and not matched yet.
LEMMA DescendIs ==
  ASSUME TypeInv, Descend
  PROVE  \E op \in Ops(sub) :
           /\ op \notin Matched /\ can_match(Src[Len(stack) + 1], op)
           /\ stack' = Append(stack, op)
           /\ mapped' = [k \in DOMAIN mapped \cup ExternalIds(Src[Len(stack) + 1]) |->
                           Tensor(Src[Len(stack) + 1], op, k)]
<1>1. Matches # {} /\ match(Src[Len(stack) + 1], Min(Matches))
  BY Zenon DEF Descend
<1>2. Min(Matches) \in Matches
  <2>1. Matches \subseteq Ops(sub)
    BY Zenon DEF Matches
  <2>2. kind \in Seq(DOMAIN Arity)
    BY Zenon DEF TypeInv
  <2>3. DOMAIN kind \subseteq Nat
    BY <2>2
  <2>4. Ops(sub) \subseteq DOMAIN kind
    BY Zenon DEF TypeInv
  <2>5. Matches \in SUBSET Nat
    BY <2>1, <2>3, <2>4, Zenon
  <2> HIDE DEF TypeInv
  <2> QED BY <1>1, <2>5, MinIn, Zenon
<1>3. /\ Min(Matches) \in Ops(sub) /\ Min(Matches) \notin Matched
      /\ can_match(Src[Len(stack) + 1], Min(Matches))
  BY <1>2, Zenon DEF Matches
<1> QED BY <1>1, <1>3, Zenon DEF match

LEMMA DescendType ==
  ASSUME TypeInv, Descend
  PROVE  TypeInv'
<1>1. /\ phase = "run" /\ Len(stack) < Len(Src)
      /\ UNCHANGED <<kind, cands, best, counter, sub, x, phase>>
  BY Zenon DEF Descend
<1>2. PICK op \in Ops(sub) : stack' = Append(stack, op)
  BY DescendIs, Zenon
<1>3. /\ kind \in Seq(DOMAIN Arity) /\ \A h \in cands \cup {sub, best} : Ops(h) \subseteq DOMAIN kind
      /\ x \in DOMAIN Rules /\ counter \in 0 .. Budget + 1
  BY Zenon DEF TypeInv
<1>4. stack \in Seq(Ops(sub))
  BY Zenon DEF TypeInv
<1>5. stack' \in Seq(Ops(sub)) /\ Len(stack') = Len(stack) + 1
  BY <1>2, <1>4, AppendIs, Zenon
<1>6. Len(stack') <= Len(Src)
  <2>1. Len(Src) \in Nat
    BY <1>3, RuleIs
  <2>2. Len(stack) \in Nat
    BY <1>4
  <2> QED BY <1>1, <1>5, <2>1, <2>2
<1>7. Src' = Src
  BY <1>1, Zenon DEF Src
<1> QED BY <1>1, <1>3, <1>5, <1>6, <1>7 DEF TypeInv

\* unmatch takes the last operator off the stack.
LEMMA UnmatchType ==
  ASSUME TypeInv, stack # <<>>, unmatch("run"), UNCHANGED <<best, counter, sub, x>>,
         kind' \in Seq(DOMAIN Arity), DOMAIN kind \subseteq DOMAIN kind',
         \A g \in cands' \ cands : Ops(g) \subseteq DOMAIN kind'
  PROVE  TypeInv'
<1>1. stack \in Seq(Ops(sub)) /\ Len(stack) <= Len(Src) /\ x \in DOMAIN Rules
  BY Zenon DEF TypeInv
<1>2. stack' = Front(stack) /\ phase' \in {"run", "KeyError"}
  BY Zenon DEF unmatch
<1>3. stack' \in Seq(Ops(sub)) /\ Len(stack') = Len(stack) - 1
  BY <1>1, <1>2, FrontIs, Zenon
<1>4. Len(stack') <= Len(Src)
  <2>1. Len(Src) \in Nat
    BY <1>1, RuleIs
  <2>2. stack \in Seq(Ops(sub))
    BY <1>1
  <2>3. Len(stack) \in Nat
    BY <2>2
  <2> QED BY <1>1, <1>3, <2>1, <2>3
<1>5. \A g \in cands' \cup {sub', best'} : Ops(g) \subseteq DOMAIN kind'
  BY Zenon DEF TypeInv
<1>6. counter' \in 0 .. Budget + 1 /\ x' \in DOMAIN Rules /\ Src' = Src /\ sub' = sub
  BY Zenon DEF TypeInv, Src
<1> QED BY <1>2, <1>3, <1>4, <1>5, <1>6 DEF TypeInv

\* The operators of the graph that create_new_graph makes.
LEMMA NewGraphKnown ==
  ASSUME TypeInv
  PROVE  Ops(create_new_graph) \subseteq DOMAIN NewKind
<1>1. x \in DOMAIN Rules /\ kind \in Seq(DOMAIN Arity) /\ Ops(sub) \subseteq DOMAIN kind
  BY Zenon DEF TypeInv
<1>2. /\ \A op \in DOMAIN kind : op \in DOMAIN NewKind
      /\ \A k \in DOMAIN Dst : NewOp(k) \in DOMAIN NewKind
  BY <1>1, KindIs, Zenon
<1>3. ASSUME NEW e \in create_new_graph PROVE e[2] \in DOMAIN NewKind
  <2>1. CASE \E f : Stays(e, f)
    BY <1>1, <1>2, <2>1, NewTargets, Zenon
  <2>2. CASE \E k, i : Made(e, k, i)
    <3>1. PICK k, i : Made(e, k, i)
      BY <2>2, Zenon
    <3>2. e[2] = NewOp(k)
      BY <3>1, NewTargets, Zenon
    <3>3. k \in DOMAIN Dst
      BY <3>1, Zenon DEF Made
    <3> QED BY <1>2, <3>2, <3>3, Zenon
  <2> QED BY <2>1, <2>2, NewEdges, Zenon
<1> QED BY <1>3, Zenon DEF Ops

\* At full depth there is something on the stack.
LEMMA FullStack ==
  ASSUME TypeInv, Len(stack) = Len(Src)
  PROVE  stack # <<>> /\ DOMAIN stack = DOMAIN Src
<1>1. x \in DOMAIN Rules /\ stack \in Seq(Ops(sub))
  BY Zenon DEF TypeInv
<1>2. Len(Src) # 0 /\ DOMAIN Src = 1 .. Len(Src)
  BY <1>1, RuleIs
<1>3. stack \in Seq(Ops(sub))
  BY <1>1
<1>4. DOMAIN stack = 1 .. Len(stack)
  BY <1>3
<1>5. Len(<<>>) = 0
  OBVIOUS
<1> QED BY <1>2, <1>4, <1>5, Zenon

\* run at full depth: the graph that was built enters the heap, or nothing changes.
LEMMA RewriteIs ==
  ASSUME TypeInv, Rewrite
  PROVE  /\ stack # <<>> /\ unmatch("run") /\ UNCHANGED <<origin, best, counter, sub, x>>
         /\ \/ /\ ~ has_loop(create_new_graph)
               /\ cands' = cands \cup {create_new_graph} /\ kind' = NewKind
            \/ UNCHANGED <<cands, kind>>
<1>1. /\ Len(stack) = Len(Src) /\ unmatch("run") /\ UNCHANGED <<origin, best, counter, sub, x>>
      /\ \E g \in {create_new_graph} :
           Push(g) \/ (~ Accepts(g) /\ UNCHANGED <<seen, cands, kind>>)
  BY Zenon DEF Rewrite
<1>2. Push(create_new_graph) \/ UNCHANGED <<cands, kind>>
  BY <1>1, Zenon
<1>3. stack # <<>>
  BY <1>1, FullStack, Zenon
<1> QED BY <1>1, <1>2, <1>3, Zenon DEF Push, Accepts

\* Every step keeps TypeInv.
LEMMA TypeStep == TypeInv /\ [Next]_vars => TypeInv'
<1> SUFFICES ASSUME TypeInv, [Next]_vars PROVE TypeInv'
  OBVIOUS
<1>1. /\ kind \in Seq(DOMAIN Arity) /\ x \in DOMAIN Rules
      /\ \A h \in cands \cup {sub, best} : Ops(h) \subseteq DOMAIN kind
  BY Zenon DEF TypeInv
<1>2. ASSUME NEW g \in cands, Expand(g) \/ BudgetSpent(g) PROVE TypeInv'
  BY <1>2, PopType, Zenon
<1>3. ASSUME UNCHANGED <<kind, cands, best, counter, sub, x, stack>>,
             phase' \in {"pop", "done", "NotImplementedError", phase},
             phase' = "pop" => stack = <<>>
      PROVE  TypeInv'
  <2>1. Src' = Src
    BY <1>3, Zenon DEF Src
  <2> QED BY <1>3, <2>1 DEF TypeInv
<1>4. CASE Exhausted
  BY <1>3, <1>4 DEF Exhausted
<1>5. CASE Descend
  BY <1>5, DescendType, Zenon
<1>6. CASE Return \/ Discard
  <2>1. stack # <<>> /\ unmatch("run") /\ UNCHANGED <<kind, cands, best, counter, sub, x>>
    BY <1>6, FullStack, Zenon DEF Return, Discard
  <2> QED BY <1>1, <2>1, UnmatchType, Zenon
<1>7. CASE NextRule
  <2>1. /\ stack = <<>> /\ UNCHANGED <<kind, cands, best, counter, sub, stack>>
        /\ phase' \in {"run", "pop"} /\ (x' = x \/ (x < Len(Rules) /\ x' = x + 1))
    BY <1>7, Zenon DEF NextRule
  <2>2. x' \in DOMAIN Rules
    BY <1>1, <2>1, RulesAssumption
  <2>3. Len(stack') <= Len(Src') /\ stack' \in Seq(Ops(sub'))
    <3>1. WellFormedRule(Rules[x'])
      BY <2>2, RulesAssumption, Zenon
    <3>2. Src' \in Seq(RuleOp)
      BY <3>1, Zenon DEF WellFormedRule, Src
    <3>3. Len(Src') \in Nat
      BY <3>2
    <3> QED BY <2>1, <3>3
  <2> QED BY <2>1, <2>2, <2>3 DEF TypeInv
<1>8. CASE Rewrite
  <2>1. /\ stack # <<>> /\ unmatch("run") /\ UNCHANGED <<best, counter, sub, x>>
        /\ \/ cands' = cands \cup {create_new_graph} /\ kind' = NewKind
           \/ UNCHANGED <<cands, kind>>
    BY <1>8, RewriteIs, Zenon
  <2>2. NewKind \in Seq(DOMAIN Arity) /\ DOMAIN kind \subseteq DOMAIN NewKind
    BY <1>1, KindIs, Zenon
  <2>3. Ops(create_new_graph) \subseteq DOMAIN NewKind
    BY NewGraphKnown, Zenon
  <2>4. /\ kind' \in Seq(DOMAIN Arity) /\ DOMAIN kind \subseteq DOMAIN kind'
        /\ \A g \in cands' \ cands : Ops(g) \subseteq DOMAIN kind'
    BY <1>1, <2>1, <2>2, <2>3, Zenon
  <2> QED BY <2>1, <2>4, UnmatchType, Zenon
<1>9. CASE NotImplemented
  BY <1>3, <1>9 DEF NotImplemented
<1>10. CASE UNCHANGED vars
  BY <1>10, <1>3 DEF vars, TypeInv
<1> QED BY <1>2, <1>4, <1>5, <1>6, <1>7, <1>8, <1>9, <1>10, Zenon DEF Next

\* TypeInv holds in every reachable state.
LEMMA TypeHolds == Spec => []TypeInv
BY InitType, TypeStep, PTL DEF Spec

\* The price of a graph whose operators are known is a number.
LEMMA CostIsNumber ==
  ASSUME TypeInv, NEW g \in cands \cup {best}
  PROVE  total_cost(g) \in Nat
<1>1. kind \in Seq(DOMAIN Arity) /\ Ops(g) \subseteq DOMAIN kind
  BY Zenon DEF TypeInv
<1>2. kind \in Seq(DOMAIN Arity)
  BY <1>1
<1>3. DOMAIN kind = 1 .. Len(kind) /\ Len(kind) \in Nat
  BY <1>2
<1>4. IsFiniteSet(1 .. Len(kind))
  BY <1>3, FS_Interval
<1>5. IsFiniteSet(Ops(g))
  BY <1>1, <1>3, <1>4, FS_Subset, Zenon
<1> QED BY <1>5, FS_CardinalityType, Zenon DEF total_cost

\* Whatever the budget, optimize returns a graph that is not dearer than any it
\* leaves in the heap, the one it popped last included.
THEOREM ReturnsCheapest == Spec => BestLeavesNoCheaper
<1> DEFINE Cheapest == phase' = "done" => \A g \in cands : total_cost(best') <= total_cost(g)
<1>1. TypeInv /\ [Next]_vars => [Cheapest]_vars
  <2> SUFFICES ASSUME TypeInv, Next, phase' = "done", NEW h \in cands
               PROVE  total_cost(best') <= total_cost(h)
    OBVIOUS
  <2>1. PICK g \in cands : BudgetSpent(g)
    <3>1. ~ Exhausted
      BY Zenon DEF Exhausted
    <3>2. ASSUME Descend PROVE FALSE
      <4>1. phase = "run" /\ phase' = phase
        BY <3>2, Zenon DEF Descend
      <4> QED BY <4>1
    <3>3. \A g \in cands : ~ Expand(g)
      BY DEF Expand
    <3>4. ~ Return /\ ~ Rewrite /\ ~ Discard
      BY DEF Return, Rewrite, Discard, unmatch
    <3>5. ~ NextRule /\ ~ NotImplemented
      BY DEF NextRule, NotImplemented
    <3> QED BY <3>1, <3>2, <3>3, <3>4, <3>5, Zenon DEF Next
  <2>2. /\ total_cost(g) <= total_cost(h)
        /\ best' = IF total_cost(g) < total_cost(best) THEN g ELSE best
    BY <2>1, Zenon DEF BudgetSpent, Pop
  <2>3. total_cost(g) \in Nat /\ total_cost(h) \in Nat /\ total_cost(best) \in Nat
    BY CostIsNumber, Zenon
  <2> QED BY <2>2, <2>3
<1> QED BY <1>1, TypeHolds, PTL DEF Spec, BestLeavesNoCheaper

----------------------------------------------------------------------------
(* mappedInputs *)

\* No two source operators of a rule share a tensor from outside.  unmatch deletes
\* an entry with the last operator that uses it, and match does not count the uses.
Private ==
  \A r \in DOMAIN Rules : \A j, k \in DOMAIN Rules[r].src :
    j # k => ExternalIds(Rules[r].src[j]) \cap ExternalIds(Rules[r].src[k]) = {}

\* The matched operators are of the rule's kinds, and fed as the rule says.
FedAs(k) ==
  /\ kind[stack[k]] = Src[k].kind
  /\ \A i \in External(Src[k]) : has_edge(sub, mapped[Src[k].in[i]], stack[k], i)

\* MapsTheMatched, between two runs as well, with the kinds.
MapInv ==
  phase \in {"pop", "run"} =>
    /\ \A t : t \in DOMAIN mapped <=> \E k \in DOMAIN stack : t \in ExternalIds(Src[k])
    /\ \A k \in DOMAIN stack : FedAs(k)

\* An empty stack goes with an empty mappedInputs, for any rule and any graph.
LEMMA EmptyMaps ==
  ASSUME MapInv, phase \in {"pop", "run"}, stack = <<>>
  PROVE  \A t : t \notin DOMAIN mapped
<1>1. \A k : k \notin DOMAIN stack
  OBVIOUS
<1> QED BY <1>1, Zenon DEF MapInv

LEMMA NothingMapped ==
  ASSUME stack' = <<>>, \A t : t \notin DOMAIN mapped'
  PROVE  MapInv'
<1>1. \A k : k \notin DOMAIN stack'
  OBVIOUS
<1> QED BY <1>1, Zenon DEF MapInv

\* match keeps MapInv.
LEMMA DescendMaps ==
  ASSUME TypeInv, MapInv, Descend
  PROVE  MapInv'
<1>n. PICK n : n = Len(stack) + 1
  BY Zenon
<1> DEFINE srcOp == Src[n]
<1>1. phase = "run" /\ Len(stack) < Len(Src) /\ UNCHANGED <<kind, sub, x, phase>>
  BY Zenon DEF Descend
<1>2. PICK op \in Ops(sub) :
        /\ can_match(srcOp, op)
        /\ stack' = Append(stack, op)
        /\ mapped' = [t \in DOMAIN mapped \cup ExternalIds(srcOp) |-> Tensor(srcOp, op, t)]
  BY <1>n, DescendIs, Zenon
<1>3. x \in DOMAIN Rules /\ stack \in Seq(Ops(sub))
  BY Zenon DEF TypeInv
<1>4. /\ \A k : k \in DOMAIN stack' <=> k \in DOMAIN stack \/ k = n
      /\ \A k \in DOMAIN stack : stack'[k] = stack[k] /\ k # n
      /\ stack'[n] = op
  BY <1>n, <1>2, <1>3, AppendIs, Zenon
<1>5. /\ \A t : t \in DOMAIN mapped <=> \E k \in DOMAIN stack : t \in ExternalIds(Src[k])
      /\ \A k \in DOMAIN stack : FedAs(k)
  BY <1>1 DEF MapInv
<1>6. \A k \in DOMAIN stack : k \in DOMAIN Src
  <2>1. stack \in Seq(Ops(sub))
    BY <1>3
  <2>2. Len(stack) \in Nat /\ DOMAIN stack = 1 .. Len(stack)
    BY <2>1
  <2>3. Len(Src) \in Nat /\ DOMAIN Src = 1 .. Len(Src)
    BY <1>3, RuleIs
  <2> QED BY <1>1, <2>2, <2>3
<1>7. \A t \in DOMAIN mapped : t \in DOMAIN mapped' /\ mapped'[t] = mapped[t]
  <2> SUFFICES ASSUME NEW t \in DOMAIN mapped PROVE t \in DOMAIN mapped' /\ mapped'[t] = mapped[t]
    OBVIOUS
  <2>1. PICK k \in DOMAIN stack : t \in ExternalIds(Src[k])
    BY <1>5, Zenon
  <2>2. Src[k] \in RuleOp
    BY <1>3, <1>6, RuleIs, Zenon
  <2>3. ~ (t > 0)
    BY <2>1, <2>2, ExternalNegative, Zenon
  <2>4. Tensor(srcOp, op, t) = mapped[t]
    BY <2>3, Zenon DEF Tensor
  <2> HIDE DEF srcOp
  <2> QED BY <1>2, <2>4, Zenon
<1>8. Src' = Src
  BY <1>1, Zenon DEF Src
<1>9. \A t : t \in DOMAIN mapped' <=> \E k \in DOMAIN stack' : t \in ExternalIds(Src'[k])
  <2>1. \A t : t \in DOMAIN mapped' <=> t \in DOMAIN mapped \/ t \in ExternalIds(Src[n])
    BY <1>2, Zenon
  <2> QED BY <1>4, <1>5, <1>8, <2>1, Zenon
<1>10. ASSUME NEW k \in DOMAIN stack PROVE FedAs(k)'
  <2>1. kind[stack[k]] = Src[k].kind
    BY <1>5, Zenon DEF FedAs
  <2>2. ASSUME NEW i \in External(Src[k])
        PROVE  has_edge(sub, mapped'[Src[k].in[i]], stack[k], i)
    <3>1. Src[k].in[i] \in ExternalIds(Src[k])
      BY Zenon DEF ExternalIds
    <3>2. mapped'[Src[k].in[i]] = mapped[Src[k].in[i]]
      BY <1>5, <1>7, <3>1, Zenon
    <3>3. has_edge(sub, mapped[Src[k].in[i]], stack[k], i)
      BY <1>5, Zenon DEF FedAs
    <3> QED BY <3>2, <3>3, Zenon
  <2>3. stack'[k] = stack[k] /\ kind' = kind /\ sub' = sub
    BY <1>1, <1>4, Zenon
  <2> QED BY <1>8, <2>1, <2>2, <2>3, Zenon DEF FedAs, has_edge
<1>11. FedAs(n)'
  <2>1. /\ srcOp.kind = kind[op]
        /\ \A i \in DOMAIN srcOp.in : has_edge(sub, Tensor(srcOp, op, srcOp.in[i]), op, i)
    BY <1>2, Zenon DEF can_match
  <2>2. ASSUME NEW i \in External(srcOp)
        PROVE  has_edge(sub, mapped'[srcOp.in[i]], op, i)
    <3>1. srcOp.in[i] \in ExternalIds(srcOp) /\ i \in DOMAIN srcOp.in
      BY Zenon DEF ExternalIds, External
    <3> HIDE DEF srcOp
    <3>2. mapped'[srcOp.in[i]] = Tensor(srcOp, op, srcOp.in[i])
      BY <1>2, <3>1, Zenon
    <3> QED BY <2>1, <3>1, <3>2, Zenon
  <2>3. stack'[n] = op /\ kind' = kind /\ sub' = sub
    BY <1>1, <1>4, Zenon
  <2> QED BY <1>8, <2>1, <2>2, <2>3, Zenon DEF FedAs, has_edge
<1> QED BY <1>4, <1>9, <1>10, <1>11, Zenon DEF MapInv

\* unmatch keeps MapInv, when it deletes no entry of another operator.
LEMMA UnmatchMaps ==
  ASSUME Private, TypeInv, MapInv, phase = "run", stack # <<>>, unmatch("run"),
         UNCHANGED <<sub, x>>, \A op \in DOMAIN kind : kind'[op] = kind[op]
  PROVE  MapInv'
<1> DEFINE n == Len(stack)
<1>1. x \in DOMAIN Rules /\ stack \in Seq(Ops(sub)) /\ Ops(sub) \subseteq DOMAIN kind
  BY Zenon DEF TypeInv
<1>2. /\ stack' = Front(stack)
      /\ mapped' = [t \in DOMAIN mapped \ ExternalIds(Src[n]) |-> mapped[t]]
  BY Zenon DEF unmatch
<1>3. /\ \A k : k \in DOMAIN stack' <=> k \in DOMAIN stack /\ k # n
      /\ \A k \in DOMAIN stack' : stack'[k] = stack[k]
      /\ n \in DOMAIN stack
  BY <1>1, <1>2, FrontIs, Zenon
<1>4. /\ \A t : t \in DOMAIN mapped <=> \E k \in DOMAIN stack : t \in ExternalIds(Src[k])
      /\ \A k \in DOMAIN stack : FedAs(k)
  BY Zenon DEF MapInv
<1>5. Src' = Src
  BY Zenon DEF Src
<1> HIDE DEF n
<1>6. /\ \A t : t \in DOMAIN mapped' <=> t \in DOMAIN mapped /\ t \notin ExternalIds(Src[n])
      /\ \A t \in DOMAIN mapped' : mapped'[t] = mapped[t]
  BY <1>2, Zenon
<1>7. \A k \in DOMAIN stack : k \in DOMAIN Src
  <2>1. stack \in Seq(Ops(sub))
    BY <1>1
  <2>2. Len(stack) \in Nat /\ DOMAIN stack = 1 .. Len(stack)
    BY <2>1
  <2>3. Len(Src) \in Nat /\ DOMAIN Src = 1 .. Len(Src)
    BY <1>1, RuleIs
  <2>4. Len(stack) <= Len(Src)
    BY Zenon DEF TypeInv
  <2> QED BY <2>2, <2>3, <2>4
<1>8. \A k \in DOMAIN stack' : \A t \in ExternalIds(Src[k]) : t \notin ExternalIds(Src[n])
  <2>1. \A j, k \in DOMAIN Src : j # k => ExternalIds(Src[j]) \cap ExternalIds(Src[k]) = {}
    BY <1>1, Zenon DEF Private, Src
  <2> QED BY <1>3, <1>7, <2>1, Zenon
<1>9. \A t : t \in DOMAIN mapped' <=> \E k \in DOMAIN stack' : t \in ExternalIds(Src'[k])
  BY <1>3, <1>4, <1>5, <1>6, <1>8, Zenon
<1>10. ASSUME NEW k \in DOMAIN stack' PROVE FedAs(k)'
  <2>1. k \in DOMAIN stack /\ stack'[k] = stack[k] /\ sub' = sub
    BY <1>3, Zenon
  <2>2. kind'[stack[k]] = kind[stack[k]]
    <3>1. stack \in Seq(Ops(sub))
      BY <1>1
    <3>2. stack[k] \in Ops(sub)
      BY <2>1, <3>1
    <3> QED BY <1>1, <3>2, Zenon
  <2>3. kind[stack[k]] = Src[k].kind
    BY <1>4, <2>1, Zenon DEF FedAs
  <2>4. ASSUME NEW i \in External(Src[k])
        PROVE  has_edge(sub, mapped'[Src[k].in[i]], stack[k], i)
    <3>1. Src[k].in[i] \in ExternalIds(Src[k])
      BY Zenon DEF ExternalIds
    <3>2. mapped'[Src[k].in[i]] = mapped[Src[k].in[i]]
      BY <1>5, <1>6, <1>9, <3>1, Zenon
    <3>3. has_edge(sub, mapped[Src[k].in[i]], stack[k], i)
      BY <1>4, <2>1, Zenon DEF FedAs
    <3> QED BY <3>2, <3>3, Zenon
  <2> QED BY <1>5, <2>1, <2>2, <2>3, <2>4, Zenon DEF FedAs, has_edge
<1> QED BY <1>9, <1>10, Zenon DEF MapInv

\* Every step keeps MapInv.
LEMMA MapStep ==
  ASSUME Private, TypeInv, MapInv, [Next]_vars
  PROVE  MapInv'
<1>1. ASSUME NEW g \in cands, Expand(g) \/ BudgetSpent(g) PROVE MapInv'
  <2>1. phase = "pop" /\ stack' = stack /\ mapped' = mapped
    BY <1>1, Zenon DEF Expand, BudgetSpent, Pop
  <2>2. stack = <<>>
    BY <2>1, Zenon DEF TypeInv
  <2>3. \A t : t \notin DOMAIN mapped
    BY <2>1, <2>2, EmptyMaps, Zenon
  <2> QED BY <2>1, <2>2, <2>3, NothingMapped, Zenon
<1>2. CASE Exhausted \/ NotImplemented
  <2>1. phase' \notin {"pop", "run"}
    BY <1>2 DEF Exhausted, NotImplemented
  <2> QED BY <2>1, Zenon DEF MapInv
<1>3. CASE Descend
  BY <1>3, DescendMaps, Zenon
<1>4. CASE Return \/ Discard
  <2>1. phase = "run" /\ stack # <<>> /\ unmatch("run") /\ UNCHANGED <<kind, sub, x>>
    BY <1>4, FullStack, Zenon DEF Return, Discard
  <2> QED BY <2>1, UnmatchMaps, Zenon
<1>5. CASE NextRule
  <2>1. phase = "run" /\ stack = <<>> /\ stack' = stack /\ mapped' = mapped
    BY <1>5, Zenon DEF NextRule
  <2>2. \A t : t \notin DOMAIN mapped
    BY <2>1, EmptyMaps, Zenon
  <2> QED BY <2>1, <2>2, NothingMapped, Zenon
<1>6. CASE Rewrite
  <2>1. /\ stack # <<>> /\ unmatch("run") /\ UNCHANGED <<sub, x>>
        /\ kind' = NewKind \/ kind' = kind
    BY <1>6, RewriteIs, Zenon
  <2>2. phase = "run"
    BY <1>6, Zenon DEF Rewrite
  <2>3. x \in DOMAIN Rules /\ kind \in Seq(DOMAIN Arity)
    BY Zenon DEF TypeInv
  <2>4. \A op \in DOMAIN kind : kind'[op] = kind[op]
    BY <2>1, <2>3, KindIs, Zenon
  <2> QED BY <2>1, <2>2, <2>4, UnmatchMaps, Zenon
<1>7. CASE UNCHANGED vars
  BY <1>7, Zenon DEF vars, MapInv, FedAs, has_edge, Src
<1> QED BY <1>1, <1>2, <1>3, <1>4, <1>5, <1>6, <1>7, Zenon DEF Next

\* MapInv holds in every reachable state.
LEMMA MapHolds == ASSUME Private PROVE Spec => []MapInv
<1>1. Init => MapInv
  <2> SUFFICES ASSUME Init PROVE MapInv
    OBVIOUS
  <2>1. stack = <<>> /\ mapped = <<>>
    BY Zenon DEF Init
  <2>2. (\A k : k \notin DOMAIN stack) /\ (\A t : t \notin DOMAIN mapped)
    BY <2>1
  <2> QED BY <2>2, Zenon DEF MapInv
<1>2. TypeInv /\ MapInv /\ [Next]_vars => MapInv'
  BY MapStep, Zenon
<1> QED BY <1>1, <1>2, TypeHolds, PTL DEF Spec

\* Under rules without a shared outside tensor, however run backtracks,
\* mappedInputs maps the outside tensors of the operators that are matched, and
\* only those, to what feeds them.
THEOREM MappingKept == ASSUME Private PROVE Spec => []MapsTheMatched
<1>1. MapInv => MapsTheMatched
  <2> SUFFICES ASSUME MapInv, phase = "run"
               PROVE  /\ DOMAIN mapped = UNION {ExternalIds(Src[k]) : k \in DOMAIN stack}
                      /\ \A k \in DOMAIN stack : \A i \in External(Src[k]) :
                           has_edge(sub, mapped[Src[k].in[i]], stack[k], i)
    BY Zenon DEF MapsTheMatched
  <2>1. /\ \A t : t \in DOMAIN mapped <=> \E k \in DOMAIN stack : t \in ExternalIds(Src[k])
        /\ \A k \in DOMAIN stack : FedAs(k)
    BY Zenon DEF MapInv
  <2>2. DOMAIN mapped = UNION {ExternalIds(Src[k]) : k \in DOMAIN stack}
    BY <2>1, Zenon
  <2> QED BY <2>1, <2>2, Zenon DEF FedAs
<1> QED BY <1>1, MapHolds, PTL

----------------------------------------------------------------------------
(* The graphs in the heap *)

\* The graphs of the search are well formed.
GraphInv == \A g \in cands \cup {sub, best} : WellFormed(g, kind)

\* The operators in use keep their kinds, and so the graphs stay well formed.
LEMMA KindsGrow ==
  ASSUME NEW g, NEW kd, NEW new, Ops(g) \subseteq DOMAIN kd, WellFormed(g, kd),
         \A op \in DOMAIN kd : new[op] = kd[op]
  PROVE  WellFormed(g, new)
<1>1. \A op \in Ops(g) : new[op] = kd[op]
  BY Zenon
<1>2. \A e \in g : e[2] \in Ops(g)
  BY Zenon DEF Ops
<1>3. /\ \A op \in Ops(g) : {e[3] : e \in {f \in g : f[2] = op}} = 1 .. Arity[kd[op]]
      /\ \A e, f \in g : e[2] = f[2] /\ e[3] = f[3] => e = f
      /\ \A e \in g : e[1] \in Ops(g) \/ (e[1] = 0 /\ kd[e[2]] = "input")
      /\ ~ has_loop(g)
  BY Zenon DEF WellFormed
<1>4. \A e \in g : e[1] \in Ops(g) \/ (e[1] = 0 /\ new[e[2]] = "input")
  BY <1>1, <1>2, <1>3, Zenon
<1>5. \A op \in Ops(g) : {e[3] : e \in {f \in g : f[2] = op}} = 1 .. Arity[new[op]]
  BY <1>1, <1>3, Zenon
<1> QED BY <1>3, <1>4, <1>5, Zenon DEF WellFormed

\* has_loop is also true of a graph with an edge from an operator it has not got.
LEMMA SourcesThere ==
  ASSUME NEW g, ~ has_loop(g), NEW e \in g, e[1] # 0
  PROVE  e[1] \in Ops(g)
<1> SUFFICES ASSUME e[1] \notin Ops(g) PROVE has_loop(g)
  OBVIOUS
<1>1. {e[2]} \in (SUBSET Ops(g)) \ {{}}
  <2>1. e[2] \in Ops(g)
    BY Zenon DEF Ops
  <2> QED BY <2>1
<1>2. \A op \in {e[2]} : \E f \in g : f[2] = op /\ f[1] # 0 /\ f[1] \notin Ops(g) \ {e[2]}
  BY Zenon
<1> QED BY <1>1, <1>2, Zenon DEF has_loop

\* The slots of an operator.
Slots(g, op) == {e[3] : e \in {f \in g : f[2] = op}}

\* An operator that stays keeps its slots.
LEMMA StayingSlots ==
  ASSUME TypeInv, NEW op \in Ops(sub), op \notin Matched
  PROVE  Slots(create_new_graph, op) = Slots(sub, op)
<1>1. op \in DOMAIN kind /\ x \in DOMAIN Rules /\ kind \in Seq(DOMAIN Arity)
  BY Zenon DEF TypeInv
<1>2. \A k \in DOMAIN Dst : NewOp(k) # op
  BY <1>1, KindIs, Zenon
<1>3. ASSUME NEW i \in Slots(sub, op) PROVE i \in Slots(create_new_graph, op)
  <2>1. PICK f \in sub : f[2] = op /\ f[3] = i
    BY Zenon DEF Slots
  <2>2. PICK e : e = <<NewSource(f[1]), f[2], f[3]>>
    BY Zenon
  <2>3. Stays(e, f)
    BY <2>1, <2>2, Zenon DEF Stays
  <2>4. e \in create_new_graph
    BY <2>3, NewEdges, Zenon
  <2>5. e[2] = op /\ e[3] = i
    <3>1. e[2] = f[2] /\ e[3] = f[3]
      BY <2>3, NewTargets
    <3> QED BY <2>1, <3>1, Zenon
  <2> QED BY <2>4, <2>5, Zenon DEF Slots
<1>4. ASSUME NEW i \in Slots(create_new_graph, op) PROVE i \in Slots(sub, op)
  <2>1. PICK e \in create_new_graph : e[2] = op /\ e[3] = i
    BY Zenon DEF Slots
  <2>2. ASSUME NEW k, NEW j, Made(e, k, j) PROVE FALSE
    <3>1. e[2] = NewOp(k)
      BY <2>2, NewTargets, Zenon
    <3>2. k \in DOMAIN Dst
      BY <2>2, Zenon DEF Made
    <3> QED BY <1>2, <2>1, <3>1, <3>2, Zenon
  <2>3. PICK f : Stays(e, f)
    BY <2>1, <2>2, NewEdges, Zenon
  <2>4. f \in sub /\ f[2] = op /\ f[3] = i
    BY <2>1, <2>3, NewTargets, Zenon DEF Stays
  <2> QED BY <2>4, Zenon DEF Slots
<1> QED BY <1>3, <1>4, Zenon

\* A new operator has the slots of its pattern.
LEMMA MadeSlots ==
  ASSUME TypeInv, NEW k \in DOMAIN Dst
  PROVE  Slots(create_new_graph, NewOp(k)) = DOMAIN Dst[k].in
<1>1. x \in DOMAIN Rules /\ kind \in Seq(DOMAIN Arity) /\ Ops(sub) \subseteq DOMAIN kind
  BY Zenon DEF TypeInv
<1>2. NewOp(k) \notin DOMAIN kind /\ \A j \in DOMAIN Dst : NewOp(j) = NewOp(k) => j = k
  BY <1>1, KindIs, Zenon
<1>3. ASSUME NEW i \in DOMAIN Dst[k].in PROVE i \in Slots(create_new_graph, NewOp(k))
  <2>1. PICK e : e = <<Fed(k, i), NewOp(k), i>>
    BY Zenon
  <2>2. Made(e, k, i)
    BY <2>1, Zenon DEF Made
  <2>3. e \in create_new_graph
    BY <2>2, NewEdges, Zenon
  <2>4. e[2] = NewOp(k) /\ e[3] = i
    BY <2>2, NewTargets, Zenon
  <2> QED BY <2>3, <2>4, Zenon DEF Slots
<1>4. ASSUME NEW i \in Slots(create_new_graph, NewOp(k)) PROVE i \in DOMAIN Dst[k].in
  <2>1. PICK e \in create_new_graph : e[2] = NewOp(k) /\ e[3] = i
    BY Zenon DEF Slots
  <2>2. ASSUME NEW f, Stays(e, f) PROVE FALSE
    <3>1. e[2] \in Ops(sub)
      BY <2>2, NewTargets, Zenon
    <3> QED BY <1>1, <1>2, <2>1, <3>1, Zenon
  <2>3. PICK j, h : Made(e, j, h)
    BY <2>1, <2>2, NewEdges, Zenon
  <2>4. e[2] = NewOp(j) /\ e[3] = h
    BY <2>3, NewTargets, Zenon
  <2>5. j \in DOMAIN Dst /\ h \in DOMAIN Dst[j].in
    BY <2>3, Zenon DEF Made
  <2> QED BY <1>2, <2>1, <2>4, <2>5, Zenon
<1> QED BY <1>3, <1>4, Zenon

\* An operator of the new graph stays or is new.
LEMMA NewOps ==
  ASSUME NEW op \in Ops(create_new_graph)
  PROVE  (op \in Ops(sub) /\ op \notin Matched) \/ \E k \in DOMAIN Dst : op = NewOp(k)
<1>1. PICK e \in create_new_graph : op = e[2]
  BY Zenon DEF Ops
<1>2. CASE \E f : Stays(e, f)
  <2>1. PICK f : Stays(e, f)
    BY <1>2, Zenon
  <2> QED BY <1>1, <2>1, NewTargets, Zenon DEF Stays
<1>3. CASE \E k, i : Made(e, k, i)
  <2>1. PICK k, i : Made(e, k, i)
    BY <1>3, Zenon
  <2>2. e[2] = NewOp(k)
    BY <2>1, NewTargets, Zenon
  <2>3. k \in DOMAIN Dst
    BY <2>1, Zenon DEF Made
  <2> QED BY <1>1, <2>2, <2>3, Zenon
<1> QED BY <1>2, <1>3, NewEdges, Zenon

\* One edge for a slot.
LEMMA NewEdgesDiffer ==
  ASSUME TypeInv, WellFormed(sub, kind), NEW e \in create_new_graph, NEW f \in create_new_graph,
         e[2] = f[2], e[3] = f[3]
  PROVE  e = f
<1>1. x \in DOMAIN Rules /\ kind \in Seq(DOMAIN Arity) /\ Ops(sub) \subseteq DOMAIN kind
  BY Zenon DEF TypeInv
<1>2. /\ \A k \in DOMAIN Dst : NewOp(k) \notin DOMAIN kind
      /\ \A j, k \in DOMAIN Dst : NewOp(j) = NewOp(k) => j = k
  BY <1>1, KindIs, Zenon
<1>3. \A d, k, i : Made(d, k, i) => d[2] = NewOp(k) /\ d[3] = i /\ d[2] \notin Ops(sub)
  <2> SUFFICES ASSUME NEW d, NEW k, NEW i, Made(d, k, i)
               PROVE  d[2] = NewOp(k) /\ d[3] = i /\ d[2] \notin Ops(sub)
    OBVIOUS
  <2>1. k \in DOMAIN Dst
    BY Zenon DEF Made
  <2>2. d[2] = NewOp(k) /\ d[3] = i
    BY NewTargets, Zenon
  <2>3. NewOp(k) \notin Ops(sub)
    BY <1>1, <1>2, <2>1, Zenon
  <2> QED BY <2>2, <2>3, Zenon
<1>4. \A d, h : Stays(d, h) => d[2] \in Ops(sub)
  BY NewTargets, Zenon
<1>5. CASE \E k, i : Made(e, k, i)
  <2>1. PICK k, i : Made(e, k, i)
    BY <1>5, Zenon
  <2>2. \E j, h : Made(f, j, h)
    BY <1>3, <1>4, <2>1, NewEdges, Zenon
  <2>3. PICK j, h : Made(f, j, h)
    BY <2>2, Zenon
  <2>4. k \in DOMAIN Dst /\ j \in DOMAIN Dst
    BY <2>1, <2>3, Zenon DEF Made
  <2>5. j = k /\ h = i
    <3>1. e[2] = NewOp(k) /\ e[3] = i /\ f[2] = NewOp(j) /\ f[3] = h
      BY <1>3, <2>1, <2>3, Zenon
    <3>2. NewOp(j) = NewOp(k) /\ h = i
      BY <3>1, Zenon
    <3> QED BY <1>2, <2>4, <3>2, Zenon
  <2> QED BY <2>1, <2>3, <2>5, Zenon DEF Made
<1>6. CASE \E h : Stays(e, h)
  <2>1. PICK h : Stays(e, h)
    BY <1>6, Zenon
  <2>2. \E d : Stays(f, d)
    BY <1>3, <1>4, <2>1, NewEdges, Zenon
  <2>3. PICK d : Stays(f, d)
    BY <2>2, Zenon
  <2>4. d[2] = h[2] /\ d[3] = h[3]
    BY <2>1, <2>3, NewTargets, Zenon
  <2>5. d = h
    BY <2>1, <2>3, <2>4, Zenon DEF Stays, WellFormed
  <2> QED BY <2>1, <2>3, <2>5, Zenon DEF Stays
<1> QED BY <1>5, <1>6, NewEdges, Zenon

\* What feeds the operators that stay, from outside.
LEMMA StayingSource ==
  ASSUME TypeInv, OutputsMapped, WellFormed(sub, kind), NEW e, NEW f, Stays(e, f), e[1] = 0
  PROVE  kind[f[2]] = "input"
<1>1. x \in DOMAIN Rules /\ kind \in Seq(DOMAIN Arity) /\ Ops(sub) \subseteq DOMAIN kind
  BY Zenon DEF TypeInv
<1>2. f \in sub /\ f[2] \notin Matched /\ NewSource(f[1]) = 0
  <2>1. e[1] = NewSource(f[1])
    BY NewTargets, Zenon
  <2> QED BY <2>1, Zenon DEF Stays
<1>3. f[1] \notin Matched
  <2> SUFFICES ASSUME f[1] \in Matched PROVE FALSE
    OBVIOUS
  <2> DEFINE k == CHOOSE k \in DOMAIN stack : stack[k] = f[1]
  <2>1. k \in DOMAIN stack /\ stack[k] = f[1]
    BY Zenon DEF Matched
  <2>2. NewSource(f[1]) = NewOp(Outs[k])
    BY Zenon DEF NewSource
  <2> HIDE DEF k
  <2>3. k \in DOMAIN Outs
    BY <1>2, <2>1, Zenon DEF OutputsMapped
  <2>4. WellFormedRule(Rules[x])
    BY <1>1, RuleIs, Zenon
  <2>5. Outs[k] \in DOMAIN Dst
    BY <2>3, <2>4, Zenon DEF WellFormedRule, Outs, Dst
  <2>6. NewOp(Outs[k]) # 0
    BY <1>1, <2>5, KindIs, Zenon
  <2> QED BY <1>2, <2>2, <2>6, Zenon
<1>4. f[1] = 0
  BY <1>2, <1>3, Zenon DEF NewSource
<1>5. 0 \notin Ops(sub)
  <2>1. DOMAIN kind = 1 .. Len(kind)
    BY <1>1, KindIs, Zenon
  <2>2. 0 \notin 1 .. Len(kind)
    OBVIOUS
  <2> QED BY <1>1, <2>1, <2>2, Zenon
<1>6. f[1] \in Ops(sub) \/ (f[1] = 0 /\ kind[f[2]] = "input")
  BY <1>2, Zenon DEF WellFormed
<1> QED BY <1>4, <1>5, <1>6, Zenon

\* What feeds the new operators is an operator.
LEMMA MadeSource ==
  ASSUME TypeInv, MapInv, phase = "run", Len(stack) = Len(Src), WellFormed(sub, kind),
         NEW k \in DOMAIN Dst, NEW i \in DOMAIN Dst[k].in
  PROVE  Fed(k, i) # 0
<1>1. x \in DOMAIN Rules /\ kind \in Seq(DOMAIN Arity) /\ Ops(sub) \subseteq DOMAIN kind
  BY Zenon DEF TypeInv
<1> DEFINE t == Dst[k].in[i]
<1>2. IF t > 0 THEN t \in DOMAIN Dst ELSE \E j \in DOMAIN Src : t \in ExternalIds(Src[j])
  <2>1. WellFormedRule(Rules[x])
    BY <1>1, RuleIs, Zenon
  <2> QED BY <2>1, Zenon DEF WellFormedRule, Src, Dst
<1>3. CASE t > 0
  <2>1. Fed(k, i) = NewOp(t) /\ t \in DOMAIN Dst
    BY <1>2, <1>3, Zenon DEF Fed
  <2> HIDE DEF t
  <2> QED BY <1>1, <2>1, KindIs, Zenon
<1>4. CASE ~ (t > 0)
  <2>1. Fed(k, i) = mapped[t]
    BY <1>4, Zenon DEF Fed
  <2>2. PICK j \in DOMAIN Src : t \in ExternalIds(Src[j])
    BY <1>2, <1>4, Zenon
  <2>3. PICK h \in External(Src[j]) : t = Src[j].in[h]
    BY <2>2, Zenon DEF ExternalIds
  <2>4. j \in DOMAIN stack
    BY FullStack, Zenon
  <2>5. FedAs(j)
    BY <2>4, Zenon DEF MapInv
  <2> HIDE DEF t
  <2>6. has_edge(sub, mapped[t], stack[j], h) /\ kind[stack[j]] = Src[j].kind
    BY <2>3, <2>5, Zenon DEF FedAs
  <2>7. PICK e \in sub : e = <<mapped[t], stack[j], h>>
    BY <2>6, Zenon DEF has_edge
  <2>8. e[1] = mapped[t] /\ e[2] = stack[j]
    BY <2>7
  <2>9. kind[e[2]] # "input"
    BY <1>1, <2>6, <2>8, RuleIs, Zenon
  <2>10. e[1] \in Ops(sub)
    BY <2>9, Zenon DEF WellFormed
  <2>11. 0 \notin Ops(sub)
    <3>1. DOMAIN kind = 1 .. Len(kind)
      BY <1>1, KindIs, Zenon
    <3>2. 0 \notin 1 .. Len(kind)
      OBVIOUS
    <3> QED BY <1>1, <3>1, <3>2, Zenon
  <2> QED BY <2>1, <2>8, <2>10, <2>11, Zenon
<1> QED BY <1>3, <1>4, Zenon

\* The graph that create_new_graph makes is well formed, if it passes has_loop.
LEMMA NewGraphFormed ==
  ASSUME TypeInv, MapInv, WellFormed(sub, kind), phase = "run", Len(stack) = Len(Src),
         OutputsMapped, ~ has_loop(create_new_graph)
  PROVE  WellFormed(create_new_graph, NewKind)
<1> DEFINE g == create_new_graph
<1>1. x \in DOMAIN Rules /\ kind \in Seq(DOMAIN Arity) /\ Ops(sub) \subseteq DOMAIN kind
  BY Zenon DEF TypeInv
<1>2. /\ \A op \in DOMAIN kind : NewKind[op] = kind[op]
      /\ \A k \in DOMAIN Dst : NewKind[NewOp(k)] = Dst[k].kind
  BY <1>1, KindIs, Zenon
<1>3. ASSUME NEW op \in Ops(g) PROVE Slots(g, op) = 1 .. Arity[NewKind[op]]
  <2>1. CASE op \in Ops(sub) /\ op \notin Matched
    <3>1. Slots(sub, op) = 1 .. Arity[kind[op]]
      BY <2>1, Zenon DEF WellFormed, Slots
    <3>2. Slots(g, op) = Slots(sub, op)
      BY <2>1, StayingSlots, Zenon
    <3>3. NewKind[op] = kind[op]
      BY <1>1, <1>2, <2>1, Zenon
    <3> QED BY <3>1, <3>2, <3>3, Zenon
  <2>2. CASE \E k \in DOMAIN Dst : op = NewOp(k)
    <3>1. PICK k \in DOMAIN Dst : op = NewOp(k)
      BY <2>2, Zenon
    <3>2. Slots(g, op) = DOMAIN Dst[k].in
      BY <3>1, MadeSlots, Zenon
    <3>3. DOMAIN Dst[k].in = 1 .. Len(Dst[k].in)
      BY <1>1, RuleIs, InputsAre, Zenon
    <3>4. WellFormedRule(Rules[x])
      BY <1>1, RuleIs, Zenon
    <3>5. Len(Dst[k].in) = Arity[Dst[k].kind]
      BY <3>4, Zenon DEF WellFormedRule, Dst
    <3>6. NewKind[op] = Dst[k].kind
      BY <1>2, <3>1, Zenon
    <3> QED BY <3>2, <3>3, <3>5, <3>6, Zenon
  <2> QED BY <2>1, <2>2, NewOps, Zenon
<1>4. \A e, f \in g : e[2] = f[2] /\ e[3] = f[3] => e = f
  BY NewEdgesDiffer, Zenon
<1>5. ASSUME NEW e \in g PROVE e[1] \in Ops(g) \/ (e[1] = 0 /\ NewKind[e[2]] = "input")
  <2>1. CASE e[1] # 0
    BY <2>1, SourcesThere, Zenon
  <2>2. CASE e[1] = 0
    <3>1. ASSUME NEW k, NEW i, Made(e, k, i) PROVE FALSE
      <4>1. k \in DOMAIN Dst /\ i \in DOMAIN Dst[k].in
        BY <3>1, Zenon DEF Made
      <4>2. e[1] = Fed(k, i)
        BY <3>1, NewTargets, Zenon
      <4>3. Fed(k, i) # 0
        BY <4>1, MadeSource, Zenon
      <4> QED BY <2>2, <4>2, <4>3, Zenon
    <3>2. PICK f : Stays(e, f)
      BY <3>1, NewEdges, Zenon
    <3>3. kind[f[2]] = "input"
      BY <2>2, <3>2, StayingSource, Zenon
    <3>4. e[2] = f[2] /\ f[2] \in Ops(sub)
      BY <3>2, NewTargets
    <3>5. NewKind[f[2]] = kind[f[2]]
      BY <1>1, <1>2, <3>4, Zenon
    <3> QED BY <2>2, <3>3, <3>4, <3>5, Zenon
  <2> QED BY <2>1, <2>2, Zenon
<1> HIDE DEF g
<1>6. \A op \in Ops(g) : {e[3] : e \in {f \in g : f[2] = op}} = 1 .. Arity[NewKind[op]]
  BY <1>3, Zenon DEF Slots
<1>7. ~ has_loop(g)
  BY Zenon DEF g
<1>8. WellFormed(g, NewKind)
  BY <1>4, <1>5, <1>6, <1>7, Zenon DEF WellFormed
<1> QED BY <1>8, Zenon DEF g

\* Every step keeps GraphInv.
LEMMA GraphStep ==
  ASSUME TypeInv, MapInv, GraphInv, [Next]_vars
  PROVE  GraphInv'
<1>1. ASSUME NEW g \in cands, Expand(g) \/ BudgetSpent(g) PROVE GraphInv'
  <2>1. /\ cands' = cands \ {g} /\ kind' = kind /\ sub' \in {sub, g} /\ best' \in {best, g}
    BY <1>1, Zenon DEF Expand, BudgetSpent, Pop
  <2> QED BY <2>1, Zenon DEF GraphInv
<1>2. ASSUME UNCHANGED <<kind, cands, best, sub>> PROVE GraphInv'
  BY <1>2, Zenon DEF GraphInv
<1>3. CASE Exhausted \/ Descend \/ NextRule \/ NotImplemented \/ UNCHANGED vars
  BY <1>2, <1>3, Zenon DEF Exhausted, Descend, NextRule, NotImplemented, vars
<1>4. CASE Return \/ Discard
  BY <1>2, <1>4, Zenon DEF Return, Discard
<1>5. CASE Rewrite
  <2>1. phase = "run" /\ Len(stack) = Len(Src) /\ OutputsMapped
    BY <1>5, Zenon DEF Rewrite
  <2>2. /\ UNCHANGED <<best, sub>>
        /\ \/ /\ ~ has_loop(create_new_graph)
              /\ cands' = cands \cup {create_new_graph} /\ kind' = NewKind
           \/ UNCHANGED <<cands, kind>>
    BY <1>5, RewriteIs, Zenon
  <2>3. CASE UNCHANGED <<cands, kind>>
    BY <1>2, <2>2, <2>3, Zenon
  <2>4. CASE /\ ~ has_loop(create_new_graph)
             /\ cands' = cands \cup {create_new_graph} /\ kind' = NewKind
    <3>1. WellFormed(sub, kind)
      BY Zenon DEF GraphInv
    <3>2. WellFormed(create_new_graph, NewKind)
      BY <2>1, <2>4, <3>1, NewGraphFormed, Zenon
    <3>3. x \in DOMAIN Rules /\ kind \in Seq(DOMAIN Arity)
      BY Zenon DEF TypeInv
    <3>4. \A op \in DOMAIN kind : NewKind[op] = kind[op]
      BY <3>3, KindIs, Zenon
    <3>5. ASSUME NEW g \in cands \cup {sub, best} PROVE WellFormed(g, NewKind)
      <4>1. WellFormed(g, kind) /\ Ops(g) \subseteq DOMAIN kind
        BY Zenon DEF GraphInv, TypeInv
      <4> QED BY <3>4, <4>1, KindsGrow, Zenon
    <3> QED BY <2>2, <2>4, <3>2, <3>5, Zenon DEF GraphInv
  <2> QED BY <2>2, <2>3, <2>4, Zenon
<1> QED BY <1>1, <1>3, <1>4, <1>5, Zenon DEF Next

\* Under rules without a shared outside tensor, every graph that enters the heap
\* has all its operators wired, and none of them to an operator that was replaced:
\* has_loop finds the graphs in which create_new_graph leaves such an edge.
THEOREM HeapWellFormed == ASSUME Private PROVE Spec => []CandidatesWellFormed
<1>1. Init => GraphInv
  <2> SUFFICES ASSUME Init PROVE GraphInv
    OBVIOUS
  <2>1. PICK g \in Graphs : origin = g.edges /\ kind = g.kind
    BY Zenon DEF Init
  <2>2. WellFormed(origin, kind)
    BY <2>1, GraphsAssumption, Zenon
  <2>3. cands = {origin} /\ sub = origin /\ best = origin
    BY Zenon DEF Init
  <2> QED BY <2>2, <2>3, Zenon DEF GraphInv
<1>2. TypeInv /\ MapInv /\ GraphInv /\ [Next]_vars => GraphInv'
  BY GraphStep, Zenon
<1>3. TypeInv => TypeOK
  <2> SUFFICES ASSUME TypeInv PROVE TypeOK
    OBVIOUS
  <2>1. stack \in Seq(Ops(sub))
    BY Zenon DEF TypeInv
  <2>2. \A k \in DOMAIN stack : stack[k] \in Ops(sub)
    BY <2>1
  <2>3. Matched \subseteq Ops(sub)
    BY <2>2, Zenon DEF Matched
  <2> QED BY <2>3, Zenon DEF TypeInv, TypeOK
<1>4. TypeOK /\ GraphInv => CandidatesWellFormed
  BY Zenon DEF GraphInv, CandidatesWellFormed
<1> QED BY <1>1, <1>2, <1>3, <1>4, TypeHolds, MapHolds, PTL DEF Spec

----------------------------------------------------------------------------
(* What a graph computes *)

\* Every operator but an input has its sources in the graph, and no operator waits
\* for itself.
Evaluable(g, kd) ==
  /\ ~ has_loop(g) /\ 0 \notin Ops(g)
  /\ \A op \in Ops(g) : kd[op] # "input" =>
       \A i \in 1 .. Arity[kd[op]] :
         Feed(g, op, i) \in Ops(g) /\ \E e \in g : e[1] = Feed(g, op, i) /\ e[2] = op

\* The body of the function in Value.
Eval(g, kd, leaf, f, op) ==
  IF kd[op] = "input" THEN leaf[op]
  ELSE Apply(kd[op], [i \in 1 .. Arity[kd[op]] |-> f[Feed(g, op, i)]])

\* In every set of operators there is one that waits for none of them.
Waits(g, kd, S, op) ==
  kd[op] # "input" => \A i \in 1 .. Arity[kd[op]] : Feed(g, op, i) \in Ops(g) \ S

LEMMA NextToRun ==
  ASSUME NEW g, NEW kd, Evaluable(g, kd), NEW S, S \subseteq Ops(g), S # {}
  PROVE  \E op \in S : Waits(g, kd, S, op)
<1>1. PICK op \in S : \A e \in g : ~ (e[2] = op /\ e[1] # 0 /\ e[1] \notin Ops(g) \ S)
  <2>1. S \in (SUBSET Ops(g)) \ {{}}
    OBVIOUS
  <2> QED BY <2>1, Zenon DEF Evaluable, has_loop
<1>2. ASSUME kd[op] # "input", NEW i \in 1 .. Arity[kd[op]]
      PROVE  Feed(g, op, i) \in Ops(g) \ S
  <2>1. PICK e \in g : e[1] = Feed(g, op, i) /\ e[2] = op
    BY <1>2, Zenon DEF Evaluable
  <2>2. Feed(g, op, i) # 0
    BY <1>2, Zenon DEF Evaluable
  <2> QED BY <1>1, <2>1, <2>2, Zenon
<1> QED BY <1>2, Zenon DEF Waits

\* An operator's value depends on those of its sources only.
SameFeeds(g, kd, op, f, h) ==
  kd[op] # "input" => \A i \in 1 .. Arity[kd[op]] : f[Feed(g, op, i)] = h[Feed(g, op, i)]

LEMMA EvalReads ==
  ASSUME NEW g, NEW kd, NEW leaf, NEW op, NEW f, NEW h,
         SameFeeds(g, kd, op, f, h)
  PROVE  Eval(g, kd, leaf, f, op) = Eval(g, kd, leaf, h, op)
<1>1. CASE kd[op] = "input"
  BY <1>1, Zenon DEF Eval
<1>2. CASE kd[op] # "input"
  <2>1. [i \in 1 .. Arity[kd[op]] |-> f[Feed(g, op, i)]]
        = [i \in 1 .. Arity[kd[op]] |-> h[Feed(g, op, i)]]
    BY <1>2 DEF SameFeeds
  <2> QED BY <1>2, <2>1, Zenon DEF Eval
<1> QED BY <1>1, <1>2, Zenon

\* f evaluates the operators of P, a set that has the sources of its operators.
Evaluates(g, kd, leaf, P, f) ==
  /\ P \subseteq Ops(g)
  /\ \A op \in P : f[op] = Eval(g, kd, leaf, f, op)
  /\ \A op \in P : kd[op] # "input" =>
       \A i \in 1 .. Arity[kd[op]] : Feed(g, op, i) \in P

\* There is one way to do so.
LEMMA OneValue ==
  ASSUME NEW g, NEW kd, NEW leaf, Evaluable(g, kd), NEW P, NEW f, NEW Q, NEW h,
         Evaluates(g, kd, leaf, P, f), Evaluates(g, kd, leaf, Q, h),
         NEW op \in P, op \in Q
  PROVE  f[op] = h[op]
<1> DEFINE D == {q \in P \cap Q : f[q] # h[q]}
<1> SUFFICES ASSUME D # {} PROVE FALSE
  BY Zenon
<1>1. D \subseteq Ops(g)
  BY Zenon DEF Evaluates
<1>2. PICK q \in D : Waits(g, kd, D, q)
  BY <1>1, NextToRun, Zenon
<1>3. q \in P /\ q \in Q /\ f[q] # h[q]
  BY <1>2, Zenon
<1>4. kd[q] # "input" =>
        \A i \in 1 .. Arity[kd[q]] : f[Feed(g, q, i)] = h[Feed(g, q, i)]
  <2> SUFFICES ASSUME kd[q] # "input", NEW i \in 1 .. Arity[kd[q]]
               PROVE  f[Feed(g, q, i)] = h[Feed(g, q, i)]
    BY Zenon
  <2>1. Feed(g, q, i) \in P /\ Feed(g, q, i) \in Q
    BY <1>3, Zenon DEF Evaluates
  <2>2. Feed(g, q, i) \notin D
    BY <1>2, Zenon DEF Waits
  <2> QED BY <2>1, <2>2, Zenon
<1>5. Eval(g, kd, leaf, f, q) = Eval(g, kd, leaf, h, q)
  BY <1>4, EvalReads, Zenon DEF SameFeeds
<1>6. f[q] = Eval(g, kd, leaf, f, q) /\ h[q] = Eval(g, kd, leaf, h, q)
  BY <1>3, Zenon DEF Evaluates
<1> QED BY <1>3, <1>5, <1>6, Zenon

\* An operator gets value v.
Gets(g, kd, leaf, op, v) ==
  \E P, f : Evaluates(g, kd, leaf, P, f) /\ op \in P /\ f[op] = v

\* There is a way to do so.
LEMMA AllValues ==
  ASSUME NEW g, NEW kd, NEW leaf, Evaluable(g, kd)
  PROVE  \E f : f = [op \in Ops(g) |-> f[op]] /\ Evaluates(g, kd, leaf, Ops(g), f)
<1> DEFINE G == {op \in Ops(g) : \E v : Gets(g, kd, leaf, op, v)}
           F == [op \in Ops(g) |-> CHOOSE v : Gets(g, kd, leaf, op, v)]
<1>1. ASSUME NEW P, NEW f, Evaluates(g, kd, leaf, P, f), NEW op \in P
      PROVE  op \in G /\ F[op] = f[op]
  <2>1. op \in Ops(g) /\ Gets(g, kd, leaf, op, f[op])
    BY <1>1, Zenon DEF Evaluates, Gets
  <2>2. Gets(g, kd, leaf, op, F[op])
    BY <2>1, Zenon
  <2>3. PICK Q, h : Evaluates(g, kd, leaf, Q, h) /\ op \in Q /\ h[op] = F[op]
    BY <2>2, Zenon DEF Gets
  <2>4. f[op] = h[op]
    BY <1>1, <2>3, OneValue
  <2> QED BY <2>1, <2>3, <2>4, Zenon
<1>2. ASSUME NEW op \in G
      PROVE  /\ F[op] = Eval(g, kd, leaf, F, op)
             /\ kd[op] # "input" => \A i \in 1 .. Arity[kd[op]] : Feed(g, op, i) \in G
  <2>1. PICK P, f : Evaluates(g, kd, leaf, P, f) /\ op \in P
    BY <1>2, Zenon DEF Gets
  <2>2. \A q \in P : q \in G /\ F[q] = f[q]
    BY <1>1, <2>1, Zenon
  <2>3. kd[op] # "input" => \A i \in 1 .. Arity[kd[op]] : Feed(g, op, i) \in P
    BY <2>1, Zenon DEF Evaluates
  <2> HIDE DEF F, G
  <2>4. Eval(g, kd, leaf, F, op) = Eval(g, kd, leaf, f, op)
    <3>1. kd[op] # "input" =>
            \A i \in 1 .. Arity[kd[op]] : F[Feed(g, op, i)] = f[Feed(g, op, i)]
      BY <2>2, <2>3, Zenon
    <3> QED BY <3>1, EvalReads, Zenon DEF SameFeeds
  <2>5. f[op] = Eval(g, kd, leaf, f, op)
    BY <2>1, Zenon DEF Evaluates
  <2> QED BY <2>1, <2>2, <2>3, <2>4, <2>5, Zenon
<1>3. G \subseteq Ops(g)
  OBVIOUS
<1>4. F = [op \in Ops(g) |-> F[op]]
  OBVIOUS
<1> HIDE DEF F, G
<1>5. Ops(g) \ G = {}
  <2> SUFFICES ASSUME Ops(g) \ G # {} PROVE FALSE
    BY Zenon
  <2>1. PICK op \in Ops(g) \ G : Waits(g, kd, Ops(g) \ G, op)
    <3>1. Ops(g) \ G \subseteq Ops(g)
      BY Zenon
    <3> QED BY <3>1, NextToRun, Zenon
  <2>2. kd[op] # "input" => \A i \in 1 .. Arity[kd[op]] : Feed(g, op, i) \in G
    BY <2>1, Zenon DEF Waits
  <2> DEFINE h == [F EXCEPT ![op] = Eval(g, kd, leaf, F, op)]
  <2>3. \A q \in G : h[q] = F[q]
    BY <1>3, <1>4, <2>1
  <2>4. h[op] = Eval(g, kd, leaf, F, op)
    BY <1>4, <2>1
  <2> HIDE DEF h
  <2>5. ASSUME NEW q \in G \cup {op} PROVE Eval(g, kd, leaf, h, q) = Eval(g, kd, leaf, F, q)
    <3>1. kd[q] # "input" => \A i \in 1 .. Arity[kd[q]] : Feed(g, q, i) \in G
      BY <1>2, <2>2, <2>5, Zenon
    <3>2. kd[q] # "input" =>
            \A i \in 1 .. Arity[kd[q]] : h[Feed(g, q, i)] = F[Feed(g, q, i)]
      BY <2>3, <3>1, Zenon
    <3>3. SameFeeds(g, kd, q, h, F)
      BY <3>2, Zenon DEF SameFeeds
    <3> QED BY <3>3, EvalReads
  <2>6. Evaluates(g, kd, leaf, G \cup {op}, h)
    <3>1. \A q \in G \cup {op} : h[q] = Eval(g, kd, leaf, h, q)
      BY <1>2, <2>3, <2>4, <2>5, Zenon
    <3>2. \A q \in G \cup {op} : kd[q] # "input" =>
            \A i \in 1 .. Arity[kd[q]] : Feed(g, q, i) \in G \cup {op}
      BY <1>2, <2>2, Zenon
    <3>3. G \cup {op} \subseteq Ops(g)
      BY <1>3, <2>1, Zenon
    <3> QED BY <3>1, <3>2, <3>3, Zenon DEF Evaluates
  <2>7. op \in G
    BY <1>1, <2>6, Zenon
  <2> QED BY <2>1, <2>7, Zenon
<1>6. G = Ops(g)
  BY <1>3, <1>5, Zenon
<1>7. Evaluates(g, kd, leaf, Ops(g), F)
  BY <1>2, <1>6, Zenon DEF Evaluates
<1> QED BY <1>4, <1>7, Zenon

\* Value evaluates the graph, and it is the only function that does.
LEMMA ValueIs ==
  ASSUME NEW g, NEW kd, NEW leaf, Evaluable(g, kd)
  PROVE  /\ Evaluates(g, kd, leaf, Ops(g), Value(g, kd, leaf))
         /\ \A f : (\A op \in Ops(g) : f[op] = Eval(g, kd, leaf, f, op)) =>
                     \A op \in Ops(g) : Value(g, kd, leaf)[op] = f[op]
<1> DEFINE Is(f) == f = [op \in Ops(g) |-> Eval(g, kd, leaf, f, op)]
           V == CHOOSE f : Is(f)
<1>1. \E f : Is(f)
  <2>1. PICK f : f = [op \in Ops(g) |-> f[op]] /\ Evaluates(g, kd, leaf, Ops(g), f)
    BY AllValues, Zenon
  <2>2. \A op \in Ops(g) : f[op] = Eval(g, kd, leaf, f, op)
    BY <2>1, Zenon DEF Evaluates
  <2>3. [op \in Ops(g) |-> f[op]] = [op \in Ops(g) |-> Eval(g, kd, leaf, f, op)]
    BY <2>2
  <2> QED BY <2>1, <2>3
<1>2. Is(V)
  BY <1>1, Zenon
<1>3. V = Value(g, kd, leaf)
  BY Zenon DEF Value, Eval
<1> HIDE DEF V
<1>4. \A op \in Ops(g) : V[op] = Eval(g, kd, leaf, V, op)
  BY <1>2
<1>5. \A op \in Ops(g) : kd[op] # "input" =>
        \A i \in 1 .. Arity[kd[op]] : Feed(g, op, i) \in Ops(g)
  BY Zenon DEF Evaluable
<1>6. ASSUME NEW f, \A op \in Ops(g) : f[op] = Eval(g, kd, leaf, f, op)
      PROVE  Evaluates(g, kd, leaf, Ops(g), f)
  BY <1>5, <1>6, Zenon DEF Evaluates
<1>7. Evaluates(g, kd, leaf, Ops(g), V)
  BY <1>4, <1>6, Zenon
<1>8. ASSUME NEW f, \A op \in Ops(g) : f[op] = Eval(g, kd, leaf, f, op), NEW op \in Ops(g)
      PROVE  V[op] = f[op]
  <2>1. Evaluates(g, kd, leaf, Ops(g), f)
    BY <1>6, <1>8, Zenon
  <2> QED BY <1>7, <1>8, <2>1, OneValue
<1> QED BY <1>3, <1>7, <1>8, Zenon

\* The graphs of the search can be evaluated.
LEMMA FormedEvaluable ==
  ASSUME NEW g, NEW kd, WellFormed(g, kd), 0 \notin Ops(g)
  PROVE  /\ Evaluable(g, kd)
         /\ \A e \in g : Feed(g, e[2], e[3]) = e[1]
<1>1. /\ \A op \in Ops(g) : {e[3] : e \in {f \in g : f[2] = op}} = 1 .. Arity[kd[op]]
      /\ \A e, f \in g : e[2] = f[2] /\ e[3] = f[3] => e = f
      /\ \A e \in g : e[1] \in Ops(g) \/ (e[1] = 0 /\ kd[e[2]] = "input")
      /\ ~ has_loop(g)
  BY Zenon DEF WellFormed
<1>2. ASSUME NEW e \in g PROVE Feed(g, e[2], e[3]) = e[1]
  <2> DEFINE f == CHOOSE f \in g : f[2] = e[2] /\ f[3] = e[3]
  <2>1. f \in g /\ f[2] = e[2] /\ f[3] = e[3]
    BY Zenon
  <2>2. f = e
    BY <1>1, <2>1, Zenon
  <2> QED BY <2>2, Zenon DEF Feed
<1>3. ASSUME NEW op \in Ops(g), kd[op] # "input", NEW i \in 1 .. Arity[kd[op]]
      PROVE  Feed(g, op, i) \in Ops(g) /\ \E e \in g : e[1] = Feed(g, op, i) /\ e[2] = op
  <2>1. PICK e \in g : e[2] = op /\ e[3] = i
    BY <1>1, <1>3
  <2>2. Feed(g, op, i) = e[1] /\ e[1] \in Ops(g)
    BY <1>1, <1>2, <1>3, <2>1
  <2> QED BY <2>1, <2>2, Zenon
<1> QED BY <1>1, <1>2, <1>3, Zenon DEF Evaluable

----------------------------------------------------------------------------
(* The rules *)

\* Number k names no input of the operators.
Unread(ops, k) == \A j \in DOMAIN ops : \A i \in DOMAIN ops[j].in : ops[j].in[i] # k

\* A rule names its source operators in order.  It maps the outputs that nothing in
\* it reads to such outputs, one to one, and uses all the tensors from outside.
Shaped(r) ==
  /\ \A k \in DOMAIN r.src : \A i \in DOMAIN r.src[k].in : r.src[k].in[i] < k
  /\ \A k \in DOMAIN r.outs : k \in DOMAIN r.src
  /\ \A j, k \in DOMAIN r.outs : r.outs[j] = r.outs[k] => j = k
  /\ \A k \in DOMAIN r.src : Unread(r.src, k) => k \in DOMAIN r.outs /\ Unread(r.dst, r.outs[k])
  /\ \A k \in DOMAIN r.dst : Unread(r.dst, k) =>
       \E j \in DOMAIN r.outs : r.outs[j] = k /\ Unread(r.src, j)
  /\ \A k \in DOMAIN r.src : \A t \in ExternalIds(r.src[k]) : ~ Unread(r.dst, t)

\* v gives the values of a rule's operators for the values ext of its outside
\* tensors.
Arguments(op, ext, v) ==
  [i \in DOMAIN op.in |-> IF op.in[i] > 0 THEN v[op.in[i]] ELSE ext[op.in[i]]]
Computes(ops, ext, v) ==
  \A k \in DOMAIN ops : v[k] \in Int /\ v[k] = Apply(ops[k].kind, Arguments(ops[k], ext, v))

\* The two sides of a rule agree on its outputs.
Sound(r) ==
  \A ext \in [Int -> Int] : \A s, d :
    Computes(r.src, ext, s) /\ Computes(r.dst, ext, d)
    => \A k \in DOMAIN r.outs : d[r.outs[k]] = s[k]

RulesMeant == \A r \in DOMAIN Rules : Shaped(Rules[r]) /\ Sound(Rules[r])

\* Operators have inputs and compute numbers from numbers, and the inputs of the graphs have some.
Numbers ==
  /\ \A kd \in DOMAIN Arity : kd # "input" =>
       /\ Arity[kd] \in Nat \ {0}
       /\ \A a \in [1 .. Arity[kd] -> Int] : Apply(kd, a) \in Int
  /\ \A g \in Graphs : \A leaf \in Samples : \A op \in Ops(g.edges) :
       g.kind[op] = "input" => leaf[op] \in Int

\* The rule that is being run.
LEMMA RuleMeant ==
  ASSUME RulesMeant, x \in DOMAIN Rules
  PROVE  /\ \A k \in DOMAIN Src : \A i \in DOMAIN Src[k].in : Src[k].in[i] < k
         /\ \A k \in DOMAIN Outs : k \in DOMAIN Src /\ Outs[k] \in DOMAIN Dst
         /\ \A j, k \in DOMAIN Outs : Outs[j] = Outs[k] => j = k
         /\ \A k \in DOMAIN Src : Unread(Src, k) => k \in DOMAIN Outs /\ Unread(Dst, Outs[k])
         /\ \A k \in DOMAIN Dst : Unread(Dst, k) =>
              \E j \in DOMAIN Outs : Outs[j] = k /\ Unread(Src, j)
         /\ \A k \in DOMAIN Src : \A t \in ExternalIds(Src[k]) : ~ Unread(Dst, t)
         /\ Sound(Rules[x])
<1>1. Shaped(Rules[x]) /\ Sound(Rules[x]) /\ WellFormedRule(Rules[x])
  BY RuleIs, Zenon DEF RulesMeant
<1>2. \A k \in DOMAIN Outs : Outs[k] \in DOMAIN Dst
  BY <1>1, Zenon DEF WellFormedRule, Outs, Dst
<1> QED BY <1>1, <1>2, Zenon DEF Shaped, Src, Dst, Outs

----------------------------------------------------------------------------
(* The matched operators *)

\* A matched operator reads what its pattern does.
Linked(k) ==
  /\ Len(Src[k].in) = Arity[kind[stack[k]]]
  /\ \A i \in DOMAIN Src[k].in : Src[k].in[i] > 0 =>
       Src[k].in[i] \in DOMAIN stack /\ has_edge(sub, stack[Src[k].in[i]], stack[k], i)

MatchInv ==
  phase \in {"pop", "run"} =>
    /\ \A j, k \in DOMAIN stack : stack[j] = stack[k] => j = k
    /\ \A k \in DOMAIN stack : Linked(k)

\* A number of the stack is one of the rule.
LEMMA StackIs ==
  ASSUME TypeInv
  PROVE  /\ x \in DOMAIN Rules /\ kind \in Seq(DOMAIN Arity) /\ stack \in Seq(Ops(sub))
         /\ Ops(sub) \subseteq DOMAIN kind
         /\ Len(stack) \in Nat /\ DOMAIN stack = 1 .. Len(stack)
         /\ \A k \in DOMAIN stack : k \in DOMAIN Src /\ stack[k] \in Ops(sub) /\ stack[k] \in Matched
<1>1. /\ x \in DOMAIN Rules /\ kind \in Seq(DOMAIN Arity) /\ stack \in Seq(Ops(sub))
      /\ Ops(sub) \subseteq DOMAIN kind /\ Len(stack) <= Len(Src)
  BY Zenon DEF TypeInv
<1>2. stack \in Seq(Ops(sub))
  BY <1>1
<1>3. Len(stack) \in Nat /\ DOMAIN stack = 1 .. Len(stack) /\ \A k \in DOMAIN stack : stack[k] \in Ops(sub)
  BY <1>2
<1>4. Len(Src) \in Nat /\ DOMAIN Src = 1 .. Len(Src)
  BY <1>1, RuleIs
<1>5. \A k \in DOMAIN stack : k \in DOMAIN Src
  BY <1>1, <1>3, <1>4
<1>6. \A k \in DOMAIN stack : stack[k] \in Matched
  BY Zenon DEF Matched
<1> QED BY <1>1, <1>3, <1>5, <1>6, Zenon

\* A source operator reads operators before it.
LEMMA ReadsBefore ==
  ASSUME RulesMeant, x \in DOMAIN Rules, NEW k \in DOMAIN Src, NEW i \in DOMAIN Src[k].in,
         Src[k].in[i] > 0
  PROVE  Src[k].in[i] \in 1 .. (k - 1) /\ k \in Nat
<1>1. Src[k].in[i] < k
  BY RuleMeant, Zenon
<1>2. Src[k] \in RuleOp /\ Len(Src) \in Nat /\ DOMAIN Src = 1 .. Len(Src)
  BY RuleIs, Zenon
<1>3. Src[k].in[i] \in Int
  BY <1>2, InputsAre, Zenon
<1> QED BY <1>1, <1>2, <1>3

\* match keeps MatchInv.
LEMMA DescendLinks ==
  ASSUME RulesMeant, TypeInv, MatchInv, Descend
  PROVE  MatchInv'
<1>n. PICK n : n = Len(stack) + 1
  BY Zenon
<1> DEFINE srcOp == Src[n]
<1>1. phase = "run" /\ Len(stack) < Len(Src) /\ UNCHANGED <<kind, sub, x, phase>>
  BY Zenon DEF Descend
<1>2. PICK op \in Ops(sub) :
        op \notin Matched /\ can_match(srcOp, op) /\ stack' = Append(stack, op)
  BY <1>n, DescendIs, Zenon
<1>3. /\ x \in DOMAIN Rules /\ stack \in Seq(Ops(sub))
      /\ Len(stack) \in Nat /\ DOMAIN stack = 1 .. Len(stack)
      /\ \A k \in DOMAIN stack : stack[k] \in Matched
  BY StackIs, Zenon
<1>4. /\ \A k : k \in DOMAIN stack' <=> k \in DOMAIN stack \/ k = n
      /\ \A k \in DOMAIN stack : stack'[k] = stack[k] /\ k # n
      /\ stack'[n] = op
  BY <1>n, <1>2, <1>3, AppendIs, Zenon
<1>5. Src' = Src
  BY <1>1, Zenon DEF Src
<1>6. /\ \A j, k \in DOMAIN stack : stack[j] = stack[k] => j = k
      /\ \A k \in DOMAIN stack : Linked(k)
  BY <1>1 DEF MatchInv
<1>7. ASSUME NEW j \in DOMAIN stack', NEW k \in DOMAIN stack', stack'[j] = stack'[k]
      PROVE  j = k
  BY <1>2, <1>3, <1>4, <1>6, <1>7
<1>8. ASSUME NEW k \in DOMAIN stack PROVE Linked(k)'
  <2>1. /\ Len(Src[k].in) = Arity[kind[stack[k]]]
        /\ \A i \in DOMAIN Src[k].in : Src[k].in[i] > 0 =>
             Src[k].in[i] \in DOMAIN stack /\ has_edge(sub, stack[Src[k].in[i]], stack[k], i)
    BY <1>6, Zenon DEF Linked
  <2>2. stack'[k] = stack[k] /\ kind' = kind /\ sub' = sub
    BY <1>1, <1>4, Zenon
  <2> QED BY <1>4, <1>5, <2>1, <2>2, Zenon DEF Linked, has_edge
<1>9. Linked(n)'
  <2>1. /\ Len(srcOp.in) = Arity[kind[op]]
        /\ \A i \in DOMAIN srcOp.in : has_edge(sub, Tensor(srcOp, op, srcOp.in[i]), op, i)
    BY <1>2, Zenon DEF can_match
  <2>2. n \in DOMAIN Src
    <3>1. Len(Src) \in Nat /\ DOMAIN Src = 1 .. Len(Src)
      BY <1>3, RuleIs
    <3> QED BY <1>n, <1>1, <1>3, <3>1
  <2>3. ASSUME NEW i \in DOMAIN srcOp.in, srcOp.in[i] > 0
        PROVE  /\ srcOp.in[i] \in DOMAIN stack'
               /\ has_edge(sub, stack'[srcOp.in[i]], op, i)
    <3>1. srcOp.in[i] \in 1 .. (n - 1)
      BY <1>3, <2>2, <2>3, ReadsBefore, Zenon
    <3>2. srcOp.in[i] \in DOMAIN stack
      BY <1>n, <1>3, <3>1
    <3>3. Tensor(srcOp, op, srcOp.in[i]) = stack[srcOp.in[i]]
      BY <2>3, Zenon DEF Tensor
    <3> QED BY <1>4, <2>1, <2>3, <3>2, <3>3
  <2>4. stack'[n] = op /\ kind' = kind /\ sub' = sub
    BY <1>1, <1>4, Zenon
  <2> QED BY <1>5, <2>1, <2>3, <2>4, Zenon DEF Linked, has_edge
<1> QED BY <1>4, <1>7, <1>8, <1>9, Zenon DEF MatchInv

\* unmatch keeps MatchInv.
LEMMA UnmatchLinks ==
  ASSUME RulesMeant, TypeInv, MatchInv, phase = "run", stack # <<>>, unmatch("run"),
         UNCHANGED <<sub, x>>, \A op \in DOMAIN kind : kind'[op] = kind[op]
  PROVE  MatchInv'
<1> DEFINE n == Len(stack)
<1>1. /\ x \in DOMAIN Rules /\ stack \in Seq(Ops(sub)) /\ Ops(sub) \subseteq DOMAIN kind
      /\ Len(stack) \in Nat /\ DOMAIN stack = 1 .. Len(stack)
      /\ \A k \in DOMAIN stack : k \in DOMAIN Src /\ stack[k] \in Ops(sub)
  BY StackIs, Zenon
<1>2. stack' = Front(stack)
  BY Zenon DEF unmatch
<1>3. /\ \A k : k \in DOMAIN stack' <=> k \in DOMAIN stack /\ k # n
      /\ \A k \in DOMAIN stack' : stack'[k] = stack[k]
  BY <1>1, <1>2, FrontIs, Zenon
<1>4. /\ \A j, k \in DOMAIN stack : stack[j] = stack[k] => j = k
      /\ \A k \in DOMAIN stack : Linked(k)
  BY Zenon DEF MatchInv
<1>5. Src' = Src
  BY Zenon DEF Src
<1>6. ASSUME NEW k \in DOMAIN stack' PROVE Linked(k)'
  <2>1. k \in DOMAIN stack /\ k # n /\ stack'[k] = stack[k] /\ sub' = sub
    BY <1>3, Zenon
  <2>2. /\ Len(Src[k].in) = Arity[kind[stack[k]]]
        /\ \A i \in DOMAIN Src[k].in : Src[k].in[i] > 0 =>
             Src[k].in[i] \in DOMAIN stack /\ has_edge(sub, stack[Src[k].in[i]], stack[k], i)
    BY <1>4, <2>1, Zenon DEF Linked
  <2>3. kind'[stack[k]] = kind[stack[k]]
    BY <1>1, <2>1, Zenon
  <2>4. ASSUME NEW i \in DOMAIN Src[k].in, Src[k].in[i] > 0
        PROVE  Src[k].in[i] \in DOMAIN stack'
    <3>1. Src[k].in[i] \in 1 .. (k - 1)
      BY <1>1, <2>1, <2>4, ReadsBefore, Zenon
    <3>2. Src[k].in[i] \in DOMAIN stack /\ Src[k].in[i] # n
      BY <1>1, <2>1, <3>1
    <3> QED BY <1>3, <3>2, Zenon
  <2> QED BY <1>3, <1>5, <2>1, <2>2, <2>3, <2>4 DEF Linked, has_edge
<1>7. \A j, k \in DOMAIN stack' : stack'[j] = stack'[k] => j = k
  BY <1>3, <1>4, Zenon
<1> QED BY <1>6, <1>7, Zenon DEF MatchInv

LEMMA NothingLinked ==
  ASSUME stack' = <<>>
  PROVE  MatchInv'
<1>1. \A k : k \notin DOMAIN stack'
  OBVIOUS
<1> QED BY <1>1, Zenon DEF MatchInv

\* Every step keeps MatchInv.
LEMMA MatchStep ==
  ASSUME RulesMeant, TypeInv, MatchInv, [Next]_vars
  PROVE  MatchInv'
<1>1. ASSUME NEW g \in cands, Expand(g) \/ BudgetSpent(g) PROVE MatchInv'
  <2>1. phase = "pop" /\ stack' = stack
    BY <1>1, Zenon DEF Expand, BudgetSpent, Pop
  <2>2. stack = <<>>
    BY <2>1, Zenon DEF TypeInv
  <2> QED BY <2>1, <2>2, NothingLinked, Zenon
<1>2. CASE Exhausted \/ NotImplemented
  <2>1. phase' \notin {"pop", "run"}
    BY <1>2 DEF Exhausted, NotImplemented
  <2> QED BY <2>1, Zenon DEF MatchInv
<1>3. CASE Descend
  BY <1>3, DescendLinks, Zenon
<1>4. CASE Return \/ Discard
  <2>1. phase = "run" /\ stack # <<>> /\ unmatch("run") /\ UNCHANGED <<kind, sub, x>>
    BY <1>4, FullStack, Zenon DEF Return, Discard
  <2> QED BY <2>1, UnmatchLinks, Zenon
<1>5. CASE NextRule
  <2>1. stack = <<>> /\ stack' = stack
    BY <1>5, Zenon DEF NextRule
  <2> QED BY <2>1, NothingLinked, Zenon
<1>6. CASE Rewrite
  <2>1. /\ stack # <<>> /\ unmatch("run") /\ UNCHANGED <<sub, x>>
        /\ kind' = NewKind \/ kind' = kind
    BY <1>6, RewriteIs, Zenon
  <2>2. phase = "run"
    BY <1>6, Zenon DEF Rewrite
  <2>3. x \in DOMAIN Rules /\ kind \in Seq(DOMAIN Arity)
    BY Zenon DEF TypeInv
  <2>4. \A op \in DOMAIN kind : kind'[op] = kind[op]
    BY <2>1, <2>3, KindIs, Zenon
  <2> QED BY <2>1, <2>2, <2>4, UnmatchLinks, Zenon
<1>7. CASE UNCHANGED vars
  BY <1>7, Zenon DEF vars, MatchInv, Linked, has_edge, Src
<1> QED BY <1>1, <1>2, <1>3, <1>4, <1>5, <1>6, <1>7, Zenon DEF Next


----------------------------------------------------------------------------
(* What graphs compute are numbers, and depends on the kinds of their operators *)

\* The inputs of a graph have numbers, and its operators are of known kinds.
Given(g, kd, leaf) ==
  \A op \in Ops(g) :
    /\ kd[op] = "input" => leaf[op] \in Int
    /\ kd[op] # "input" => kd[op] \in DOMAIN Arity

LEMMA ValuesAreNumbers ==
  ASSUME Numbers, NEW g, NEW kd, NEW leaf, Evaluable(g, kd), Given(g, kd, leaf),
         NEW q \in Ops(g)
  PROVE  Value(g, kd, leaf)[q] \in Int
<1> DEFINE v == Value(g, kd, leaf)
           D == {op \in Ops(g) : v[op] \notin Int}
<1> SUFFICES ASSUME D # {} PROVE FALSE
  BY Zenon
<1>1. D \subseteq Ops(g)
  BY Zenon
<1>2. PICK op \in D : Waits(g, kd, D, op)
  BY <1>1, NextToRun, Zenon
<1>3. op \in Ops(g) /\ v[op] \notin Int
  BY <1>2, Zenon
<1>4. v[op] = Eval(g, kd, leaf, v, op)
  <2>1. Evaluates(g, kd, leaf, Ops(g), v)
    BY ValueIs
  <2> QED BY <1>3, <2>1, Zenon DEF Evaluates
<1>5. kd[op] # "input" => \A i \in 1 .. Arity[kd[op]] : v[Feed(g, op, i)] \in Int
  BY <1>2, Zenon DEF Waits
<1> HIDE DEF v, D
<1>6. CASE kd[op] = "input"
  BY <1>3, <1>4, <1>6, Zenon DEF Eval, Given
<1>7. CASE kd[op] # "input"
  <2>1. kd[op] \in DOMAIN Arity
    BY <1>3, <1>7, Zenon DEF Given
  <2> DEFINE a == [i \in 1 .. Arity[kd[op]] |-> v[Feed(g, op, i)]]
  <2>2. a \in [1 .. Arity[kd[op]] -> Int]
    BY <1>5, <1>7
  <2>3. v[op] = Apply(kd[op], a)
    BY <1>4, <1>7, Zenon DEF Eval
  <2> HIDE DEF a
  <2>4. Apply(kd[op], a) \in Int
    BY <1>7, <2>1, <2>2, Zenon DEF Numbers
  <2> QED BY <1>3, <2>3, <2>4, Zenon
<1> QED BY <1>6, <1>7, Zenon

\* The kinds of the operators of a graph decide what it computes.
SameKinds(g, kd, new) == \A op \in Ops(g) : new[op] = kd[op]

LEMMA SameKindsMean ==
  ASSUME NEW g, NEW kd, NEW new, NEW leaf, Evaluable(g, kd), Evaluable(g, new),
         SameKinds(g, kd, new)
  PROVE  Meaning(g, new, leaf) = Meaning(g, kd, leaf)
<1> DEFINE v == Value(g, kd, leaf)
           w == Value(g, new, leaf)
<1>1. ASSUME NEW op \in Ops(g) PROVE v[op] = Eval(g, new, leaf, v, op)
  <2>1. v[op] = Eval(g, kd, leaf, v, op)
    <3>1. Evaluates(g, kd, leaf, Ops(g), v)
      BY ValueIs
    <3> QED BY <3>1, Zenon DEF Evaluates
  <2>2. new[op] = kd[op]
    BY Zenon DEF SameKinds
  <2> HIDE DEF v
  <2> QED BY <2>1, <2>2, Zenon DEF Eval
<1>2. \A op \in Ops(g) : w[op] = v[op]
  BY <1>1, ValueIs
<1>3. Sinks(g, new) = Sinks(g, kd)
  BY Zenon DEF SameKinds, Sinks
<1>4. \A op \in Sinks(g, kd) : op \in Ops(g)
  BY Zenon DEF Sinks
<1> HIDE DEF v, w
<1>5. {w[op] : op \in Sinks(g, kd)} = {v[op] : op \in Sinks(g, kd)}
  BY <1>2, <1>4
<1> QED BY <1>3, <1>5, Zenon DEF Meaning, v, w

----------------------------------------------------------------------------
(* A rewriting *)

\* run has matched a whole rule, and has_loop lets the new graph pass.
Rewriting ==
  /\ TypeInv /\ MapInv /\ MatchInv /\ WellFormed(sub, kind)
  /\ phase = "run" /\ Len(stack) = Len(Src)
  /\ Creates /\ OutputsMapped
  /\ ~ has_loop(create_new_graph)

\* What feeds the operators of the match.
SrcFed(k, i) == IF Src[k].in[i] > 0 THEN stack[Src[k].in[i]] ELSE mapped[Src[k].in[i]]

LEMMA RewritingIs ==
  ASSUME Rewriting
  PROVE  /\ x \in DOMAIN Rules /\ kind \in Seq(DOMAIN Arity)
         /\ Ops(sub) \subseteq DOMAIN kind /\ 0 \notin Ops(sub)
         /\ DOMAIN stack = DOMAIN Src
         /\ \A k \in DOMAIN Src : /\ stack[k] \in Ops(sub) /\ stack[k] \in Matched
                                  /\ kind[stack[k]] = Src[k].kind
                                  /\ kind[stack[k]] # "input"
         /\ \A op \in Matched : \E k \in DOMAIN Src : op = stack[k]
         /\ \A j, k \in DOMAIN Src : stack[j] = stack[k] => j = k
         /\ \A e \in sub : Feed(sub, e[2], e[3]) = e[1]
         /\ Evaluable(sub, kind)
<1>1. TypeInv /\ MapInv /\ MatchInv /\ WellFormed(sub, kind) /\ phase = "run" /\ Len(stack) = Len(Src)
  BY Zenon DEF Rewriting
<1>2. /\ x \in DOMAIN Rules /\ kind \in Seq(DOMAIN Arity) /\ Ops(sub) \subseteq DOMAIN kind
      /\ \A k \in DOMAIN stack : stack[k] \in Ops(sub) /\ stack[k] \in Matched
  BY <1>1, StackIs, Zenon
<1>3. DOMAIN stack = DOMAIN Src
  BY <1>1, FullStack, Zenon
<1>4. 0 \notin Ops(sub)
  <2>1. DOMAIN kind = 1 .. Len(kind)
    BY <1>2, KindIs, Zenon
  <2>2. 0 \notin 1 .. Len(kind)
    OBVIOUS
  <2> QED BY <1>2, <2>1, <2>2, Zenon
<1>5. \A k \in DOMAIN Src : kind[stack[k]] = Src[k].kind
  BY <1>1, <1>3 DEF MapInv, FedAs
<1>6. \A k \in DOMAIN Src : kind[stack[k]] # "input"
  BY <1>2, <1>5, RuleIs, Zenon
<1>7. \A op \in Matched : \E k \in DOMAIN Src : op = stack[k]
  BY <1>3, Zenon DEF Matched
<1>8. \A j, k \in DOMAIN Src : stack[j] = stack[k] => j = k
  BY <1>1, <1>3 DEF MatchInv
<1>9. Evaluable(sub, kind) /\ \A e \in sub : Feed(sub, e[2], e[3]) = e[1]
  BY <1>1, <1>4, FormedEvaluable, Zenon
<1> QED BY <1>2, <1>3, <1>4, <1>5, <1>6, <1>7, <1>8, <1>9, Zenon

\* A matched operator has the inputs of its pattern.
LEMMA SrcFeeds ==
  ASSUME Rewriting, NEW k \in DOMAIN Src
  PROVE  /\ DOMAIN Src[k].in = 1 .. Arity[kind[stack[k]]]
         /\ \A i \in DOMAIN Src[k].in :
              /\ Src[k].in[i] > 0 => Src[k].in[i] \in DOMAIN Src
              /\ ~ (Src[k].in[i] > 0) =>
                   Src[k].in[i] \in ExternalIds(Src[k]) /\ Src[k].in[i] \in DOMAIN mapped
              /\ SrcFed(k, i) \in Ops(sub)
              /\ <<SrcFed(k, i), stack[k], i>> \in sub
              /\ Feed(sub, stack[k], i) = SrcFed(k, i)
         /\ \A f \in sub : f[2] = stack[k] =>
              f[3] \in DOMAIN Src[k].in /\ f[1] = SrcFed(k, f[3])
<1>1. /\ x \in DOMAIN Rules /\ DOMAIN stack = DOMAIN Src
      /\ stack[k] \in Ops(sub) /\ kind[stack[k]] # "input"
      /\ \A e \in sub : Feed(sub, e[2], e[3]) = e[1]
  BY RewritingIs, Zenon
<1>2. MapInv /\ MatchInv /\ WellFormed(sub, kind) /\ phase = "run"
  BY Zenon DEF Rewriting
<1>3. Linked(k) /\ FedAs(k) /\ \A t \in ExternalIds(Src[k]) : t \in DOMAIN mapped
  BY <1>1, <1>2 DEF MatchInv, MapInv
<1>4. Src[k] \in RuleOp
  BY <1>1, RuleIs, Zenon
<1>5. DOMAIN Src[k].in = 1 .. Arity[kind[stack[k]]]
  BY <1>3, <1>4, InputsAre, Zenon DEF Linked
<1>6. ASSUME NEW i \in DOMAIN Src[k].in
      PROVE  /\ Src[k].in[i] > 0 => Src[k].in[i] \in DOMAIN Src
             /\ ~ (Src[k].in[i] > 0) =>
                  Src[k].in[i] \in ExternalIds(Src[k]) /\ Src[k].in[i] \in DOMAIN mapped
             /\ <<SrcFed(k, i), stack[k], i>> \in sub
  <2>1. CASE Src[k].in[i] > 0
    <3>1. Src[k].in[i] \in DOMAIN stack /\ has_edge(sub, stack[Src[k].in[i]], stack[k], i)
      BY <1>3, <2>1, Zenon DEF Linked
    <3> QED BY <1>1, <2>1, <3>1, Zenon DEF has_edge, SrcFed
  <2>2. CASE ~ (Src[k].in[i] > 0)
    <3>1. Src[k].in[i] \in Int /\ Src[k].in[i] # 0
      BY <1>4, InputsAre, Zenon
    <3>2. Src[k].in[i] < 0
      BY <2>2, <3>1
    <3>3. i \in External(Src[k]) /\ Src[k].in[i] \in ExternalIds(Src[k])
      BY <3>2, Zenon DEF External, ExternalIds
    <3>4. has_edge(sub, mapped[Src[k].in[i]], stack[k], i)
      BY <1>3, <3>3, Zenon DEF FedAs
    <3> QED BY <1>3, <2>2, <3>3, <3>4, Zenon DEF has_edge, SrcFed
  <2> QED BY <2>1, <2>2, Zenon
<1>7. ASSUME NEW i \in DOMAIN Src[k].in
      PROVE  Feed(sub, stack[k], i) = SrcFed(k, i) /\ SrcFed(k, i) \in Ops(sub)
  <2>1. PICK e \in sub : e = <<SrcFed(k, i), stack[k], i>>
    BY <1>6, Zenon
  <2>2. e[1] = SrcFed(k, i) /\ e[2] = stack[k] /\ e[3] = i
    BY <2>1
  <2>3. e[1] \in Ops(sub)
    BY <1>1, <1>2, <2>2, Zenon DEF WellFormed
  <2> QED BY <1>1, <2>2, <2>3
<1>8. ASSUME NEW f \in sub, f[2] = stack[k]
      PROVE  f[3] \in DOMAIN Src[k].in /\ f[1] = SrcFed(k, f[3])
  <2>1. Slots(sub, stack[k]) = 1 .. Arity[kind[stack[k]]]
    BY <1>1, <1>2, Zenon DEF WellFormed, Slots
  <2>2. f[3] \in Slots(sub, stack[k])
    BY <1>8, Zenon DEF Slots
  <2>3. f[3] \in DOMAIN Src[k].in
    BY <1>5, <2>1, <2>2, Zenon
  <2>4. Feed(sub, f[2], f[3]) = f[1]
    BY <1>1, Zenon
  <2> QED BY <1>7, <1>8, <2>3, <2>4
<1> QED BY <1>5, <1>6, <1>7, <1>8, Zenon

\* The new graph, its new operators and those that stay.
LEMMA NewGraphIs ==
  ASSUME Rewriting, Numbers
  PROVE  /\ WellFormed(create_new_graph, NewKind) /\ Evaluable(create_new_graph, NewKind)
         /\ \A e \in create_new_graph : Feed(create_new_graph, e[2], e[3]) = e[1]
         /\ \A op \in Ops(sub) : op \notin Matched =>
              op \in Ops(create_new_graph) /\ NewKind[op] = kind[op]
         /\ \A op \in Matched : op \notin Ops(create_new_graph)
         /\ \A k \in DOMAIN Dst : /\ NewOp(k) \in Ops(create_new_graph)
                                  /\ NewOp(k) \notin Ops(sub) /\ NewOp(k) # 0
                                  /\ NewKind[NewOp(k)] = Dst[k].kind /\ Dst[k].kind # "input"
                                  /\ Dst[k].kind \in DOMAIN Arity
         /\ \A j, k \in DOMAIN Dst : NewOp(j) = NewOp(k) => j = k
<1> DEFINE g == create_new_graph
<1>1. TypeInv /\ WellFormed(g, NewKind)
  BY NewGraphFormed, Zenon DEF Rewriting
<1>2. /\ x \in DOMAIN Rules /\ kind \in Seq(DOMAIN Arity) /\ Ops(sub) \subseteq DOMAIN kind
  BY RewritingIs, Zenon
<1>m. \A op \in Matched : op \in Ops(sub)
  <2>1. /\ \A k \in DOMAIN Src : stack[k] \in Ops(sub)
        /\ \A op \in Matched : \E k \in DOMAIN Src : op = stack[k]
    BY RewritingIs, Zenon
  <2> QED BY <2>1, Zenon
<1>3. /\ \A op \in DOMAIN kind : NewKind[op] = kind[op]
      /\ \A k \in DOMAIN Dst : /\ NewOp(k) \notin DOMAIN kind
                               /\ NewKind[NewOp(k)] = Dst[k].kind /\ NewOp(k) # 0
      /\ \A j, k \in DOMAIN Dst : NewOp(j) = NewOp(k) => j = k
      /\ DOMAIN kind = 1 .. Len(kind) /\ Len(kind) \in Nat
  BY <1>2, KindIs, Zenon
<1>4. \A op \in Ops(g) : (op \in Ops(sub) /\ op \notin Matched) \/ \E k \in DOMAIN Dst : op = NewOp(k)
  BY NewOps, Zenon
<1>5. 0 \notin Ops(g)
  <2>1. 0 \notin 1 .. Len(kind)
    OBVIOUS
  <2> HIDE DEF g
  <2> QED BY <1>2, <1>3, <1>4, <2>1, Zenon
<1>6. ASSUME NEW op \in Ops(sub), op \notin Matched
      PROVE  op \in Ops(g) /\ NewKind[op] = kind[op]
  <2>1. PICK f \in sub : f[2] = op
    BY Zenon DEF Ops
  <2>2. PICK e : e = <<NewSource(f[1]), f[2], f[3]>>
    BY Zenon
  <2>3. Stays(e, f)
    BY <1>6, <2>1, <2>2, Zenon DEF Stays
  <2>4. e \in g /\ e[2] = f[2]
    BY <2>3, NewEdges, NewTargets
  <2>5. op \in Ops(g)
    BY <2>1, <2>4, Zenon DEF Ops
  <2> QED BY <1>2, <1>3, <2>5, Zenon
<1>7. \A op \in Matched : op \notin Ops(g)
  <2> HIDE DEF g
  <2> QED BY <1>2, <1>m, <1>3, <1>4, Zenon
<1>8. ASSUME NEW k \in DOMAIN Dst
      PROVE  NewOp(k) \in Ops(g) /\ Dst[k].kind # "input" /\ Dst[k].kind \in DOMAIN Arity
  <2>1. Dst[k].kind \in {"conv", "conv_relu", "add", "mul"}
    BY Zenon DEF Rewriting, Creates, Uncreated
  <2>2. Dst[k].kind # "input"
    BY <2>1
  <2>3. Dst[k] \in RuleOp /\ WellFormedRule(Rules[x])
    BY <1>2, RuleIs, Zenon
  <2>4. Dst[k].kind \in DOMAIN Arity /\ DOMAIN Dst[k].in = 1 .. Len(Dst[k].in)
    BY <2>3, InputsAre, Zenon
  <2>5. Len(Dst[k].in) = Arity[Dst[k].kind]
    BY <2>3, Zenon DEF WellFormedRule, Dst
  <2>6. 1 \in 1 .. Arity[Dst[k].kind]
    BY <2>2, <2>4 DEF Numbers
  <2>7. 1 \in DOMAIN Dst[k].in
    BY <2>4, <2>5, <2>6, Zenon
  <2>8. PICK e : e = <<Fed(k, 1), NewOp(k), 1>>
    BY Zenon
  <2>9. Made(e, k, 1)
    BY <2>7, <2>8, Zenon DEF Made
  <2>10. e \in g /\ e[2] = NewOp(k)
    BY <2>9, NewEdges, NewTargets, Zenon
  <2>11. NewOp(k) \in Ops(g)
    BY <2>10, Zenon DEF Ops
  <2> QED BY <2>2, <2>4, <2>11, Zenon
<1>9. Evaluable(g, NewKind) /\ \A e \in g : Feed(g, e[2], e[3]) = e[1]
  BY <1>1, <1>5, FormedEvaluable, Zenon
<1> HIDE DEF g
<1>10. \A k \in DOMAIN Dst : NewOp(k) \notin Ops(sub)
  BY <1>2, <1>3, Zenon
<1>11. WellFormed(g, NewKind)
  BY <1>1, Zenon
<1>12. /\ \A op \in Ops(sub) : op \notin Matched => op \in Ops(g) /\ NewKind[op] = kind[op]
       /\ \A k \in DOMAIN Dst : /\ NewOp(k) \in Ops(g) /\ Dst[k].kind # "input"
                                /\ Dst[k].kind \in DOMAIN Arity
  BY <1>6, <1>8, Zenon
<1> QED BY <1>3, <1>7, <1>9, <1>10, <1>11, <1>12, Zenon DEF g


\* What feeds the new operators.
LEMMA DstFeeds ==
  ASSUME Rewriting, Numbers, NEW k \in DOMAIN Dst
  PROVE  /\ DOMAIN Dst[k].in = 1 .. Arity[Dst[k].kind]
         /\ \A i \in DOMAIN Dst[k].in :
              /\ <<Fed(k, i), NewOp(k), i>> \in create_new_graph
              /\ Feed(create_new_graph, NewOp(k), i) = Fed(k, i)
              /\ Dst[k].in[i] > 0 => Dst[k].in[i] \in DOMAIN Dst /\ Fed(k, i) = NewOp(Dst[k].in[i])
              /\ ~ (Dst[k].in[i] > 0) =>
                   /\ Dst[k].in[i] \in Int /\ Dst[k].in[i] \in DOMAIN mapped
                   /\ Fed(k, i) = mapped[Dst[k].in[i]]
                   /\ \E j \in DOMAIN Src : Dst[k].in[i] \in ExternalIds(Src[j])
<1>1. x \in DOMAIN Rules /\ DOMAIN stack = DOMAIN Src
  BY RewritingIs, Zenon
<1>2. Dst[k] \in RuleOp /\ WellFormedRule(Rules[x])
  BY <1>1, RuleIs, Zenon
<1>3. DOMAIN Dst[k].in = 1 .. Len(Dst[k].in) /\ \A i \in DOMAIN Dst[k].in : Dst[k].in[i] \in Int
  BY <1>2, InputsAre, Zenon
<1>4. /\ Len(Dst[k].in) = Arity[Dst[k].kind]
      /\ \A i \in DOMAIN Dst[k].in :
           IF Dst[k].in[i] > 0 THEN Dst[k].in[i] \in DOMAIN Dst
           ELSE \E j \in DOMAIN Src : Dst[k].in[i] \in ExternalIds(Src[j])
  BY <1>2, Zenon DEF WellFormedRule, Src, Dst
<1>5. \A t : t \in DOMAIN mapped <=> \E j \in DOMAIN Src : t \in ExternalIds(Src[j])
  <2>1. MapInv /\ phase = "run"
    BY Zenon DEF Rewriting
  <2> QED BY <1>1, <2>1 DEF MapInv
<1>6. ASSUME NEW i \in DOMAIN Dst[k].in
      PROVE  /\ <<Fed(k, i), NewOp(k), i>> \in create_new_graph
             /\ Feed(create_new_graph, NewOp(k), i) = Fed(k, i)
  <2>1. PICK e : e = <<Fed(k, i), NewOp(k), i>>
    BY Zenon
  <2>2. Made(e, k, i)
    BY <2>1, Zenon DEF Made
  <2>3. e \in create_new_graph
    BY <2>2, NewEdges, Zenon
  <2>4. e[1] = Fed(k, i) /\ e[2] = NewOp(k) /\ e[3] = i
    BY <2>1
  <2>5. Feed(create_new_graph, e[2], e[3]) = e[1]
    BY <2>3, NewGraphIs, Zenon
  <2> QED BY <2>1, <2>3, <2>4, <2>5
<1>7. ASSUME NEW i \in DOMAIN Dst[k].in
      PROVE  /\ Dst[k].in[i] > 0 => Dst[k].in[i] \in DOMAIN Dst /\ Fed(k, i) = NewOp(Dst[k].in[i])
             /\ ~ (Dst[k].in[i] > 0) =>
                  /\ Dst[k].in[i] \in Int /\ Dst[k].in[i] \in DOMAIN mapped
                  /\ Fed(k, i) = mapped[Dst[k].in[i]]
                  /\ \E j \in DOMAIN Src : Dst[k].in[i] \in ExternalIds(Src[j])
  BY <1>3, <1>4, <1>5, Zenon DEF Fed
<1> QED BY <1>3, <1>4, <1>6, <1>7, Zenon

\* A tensor from outside comes from an operator of the graph; one that the new
\* operators use, from an operator that stays.
LEMMA OutsideIs ==
  ASSUME Rewriting, Numbers, NEW t \in DOMAIN mapped
  PROVE  /\ mapped[t] \in Ops(sub)
         /\ \E k \in DOMAIN Src : \E i \in DOMAIN Src[k].in :
              Src[k].in[i] = t /\ ~ (Src[k].in[i] > 0) /\ SrcFed(k, i) = mapped[t]
         /\ ~ Unread(Dst, t) => mapped[t] \notin Matched
<1>1. x \in DOMAIN Rules /\ DOMAIN stack = DOMAIN Src /\ 0 \notin Ops(sub)
  BY RewritingIs, Zenon
<1>2. PICK k \in DOMAIN Src : t \in ExternalIds(Src[k])
  <2>1. MapInv /\ phase = "run"
    BY Zenon DEF Rewriting
  <2> QED BY <1>1, <2>1 DEF MapInv
<1>3. PICK i \in DOMAIN Src[k].in : t = Src[k].in[i]
  BY <1>2, Zenon DEF ExternalIds, External
<1>4. ~ (t > 0)
  <2>1. Src[k] \in RuleOp
    BY <1>1, RuleIs, Zenon
  <2> QED BY <1>2, <2>1, ExternalNegative, Zenon
<1>5. SrcFed(k, i) = mapped[t]
  BY <1>3, <1>4, Zenon DEF SrcFed
<1>6. SrcFed(k, i) \in Ops(sub)
  BY SrcFeeds, Zenon
<1>7. ASSUME ~ Unread(Dst, t), mapped[t] \in Matched PROVE FALSE
  <2>1. PICK j \in DOMAIN Dst : \E h \in DOMAIN Dst[j].in : Dst[j].in[h] = t
    BY <1>7, Zenon DEF Unread
  <2>2. PICK h \in DOMAIN Dst[j].in : Dst[j].in[h] = t
    BY <2>1, Zenon
  <2>3. PICK e \in create_new_graph : e = <<Fed(j, h), NewOp(j), h>>
    BY DstFeeds, Zenon
  <2>4. e[1] = Fed(j, h)
    BY <2>3
  <2>5. Fed(j, h) = mapped[t]
    BY <1>4, <2>2, Zenon DEF Fed
  <2>6. e[1] # 0
    BY <1>1, <1>5, <1>6, <2>4, <2>5, Zenon
  <2>7. e[1] \in Ops(create_new_graph)
    BY <2>6, SourcesThere, Zenon DEF Rewriting
  <2>8. \A op \in Matched : op \notin Ops(create_new_graph)
    BY NewGraphIs, Zenon
  <2> QED BY <1>7, <2>4, <2>5, <2>7, <2>8, Zenon
<1>8. mapped[t] \in Ops(sub)
  BY <1>5, <1>6, Zenon
<1> QED BY <1>3, <1>4, <1>5, <1>7, <1>8, Zenon

\* The source that create_new_graph gives to the edges of the operators that stay.
LEMMA SourceIs ==
  ASSUME Rewriting, NEW f \in sub, f[2] \notin Matched
  PROVE  /\ f[1] \notin Matched => NewSource(f[1]) = f[1]
         /\ f[1] \in Matched => \E k \in DOMAIN Src :
              f[1] = stack[k] /\ k \in DOMAIN Outs /\ NewSource(f[1]) = NewOp(Outs[k])
<1>1. DOMAIN stack = DOMAIN Src
  BY RewritingIs, Zenon
<1>2. ASSUME f[1] \in Matched
      PROVE  \E k \in DOMAIN Src :
               f[1] = stack[k] /\ k \in DOMAIN Outs /\ NewSource(f[1]) = NewOp(Outs[k])
  <2> DEFINE k == CHOOSE k \in DOMAIN stack : stack[k] = f[1]
  <2>1. k \in DOMAIN stack /\ stack[k] = f[1]
    BY <1>2, Zenon DEF Matched
  <2>2. NewSource(f[1]) = NewOp(Outs[k])
    BY <1>2, Zenon DEF NewSource
  <2> HIDE DEF k
  <2>3. k \in DOMAIN Outs
    BY <2>1, Zenon DEF OutputsMapped, Rewriting
  <2> QED BY <1>1, <2>1, <2>2, <2>3, Zenon
<1> QED BY <1>2, Zenon DEF NewSource

----------------------------------------------------------------------------
(* What the new graph computes *)

\* In the values of a graph, those of its matched operators are what the rule's
\* source computes from the tensors that are mapped.
Outside(v) == [t \in Int |-> IF t \in DOMAIN mapped THEN v[mapped[t]] ELSE 0]

LEMMA SourceComputes ==
  ASSUME Rewriting, Numbers, NEW leaf, Given(sub, kind, leaf),
         NEW v, v = Value(sub, kind, leaf)
  PROVE  /\ Outside(v) \in [Int -> Int]
         /\ Computes(Src, Outside(v), [k \in DOMAIN Src |-> v[stack[k]]])
<1>1. /\ x \in DOMAIN Rules /\ Evaluable(sub, kind)
      /\ \A k \in DOMAIN Src : /\ stack[k] \in Ops(sub) /\ kind[stack[k]] = Src[k].kind
                               /\ kind[stack[k]] # "input"
  BY RewritingIs, Zenon
<1>2. \A op \in Ops(sub) : v[op] \in Int
  BY <1>1, ValuesAreNumbers, Zenon
<1>3. \A op \in Ops(sub) : v[op] = Eval(sub, kind, leaf, v, op)
  <2>1. Evaluates(sub, kind, leaf, Ops(sub), v)
    BY <1>1, ValueIs
  <2> QED BY <2>1, Zenon DEF Evaluates
<1>4. \A t \in DOMAIN mapped : v[mapped[t]] \in Int
  BY <1>2, OutsideIs, Zenon
<1>5. Outside(v) \in [Int -> Int]
  BY <1>4 DEF Outside
<1> DEFINE s == [k \in DOMAIN Src |-> v[stack[k]]]
<1>6. \A k \in DOMAIN Src : s[k] = v[stack[k]]
  OBVIOUS
<1> HIDE DEF s
<1>7. ASSUME NEW k \in DOMAIN Src
      PROVE  s[k] \in Int /\ s[k] = Apply(Src[k].kind, Arguments(Src[k], Outside(v), s))
  <2>1. v[stack[k]] = Apply(Src[k].kind,
                            [i \in 1 .. Arity[kind[stack[k]]] |-> v[Feed(sub, stack[k], i)]])
    BY <1>1, <1>3, Zenon DEF Eval
  <2>2. ASSUME NEW i \in DOMAIN Src[k].in
        PROVE  v[Feed(sub, stack[k], i)]
               = IF Src[k].in[i] > 0 THEN s[Src[k].in[i]] ELSE Outside(v)[Src[k].in[i]]
    <3>1. /\ Src[k].in[i] > 0 => Src[k].in[i] \in DOMAIN Src
          /\ ~ (Src[k].in[i] > 0) => Src[k].in[i] \in DOMAIN mapped
          /\ Feed(sub, stack[k], i) = SrcFed(k, i)
      BY SrcFeeds, Zenon
    <3>2. CASE Src[k].in[i] > 0
      BY <1>6, <3>1, <3>2, Zenon DEF SrcFed
    <3>3. CASE ~ (Src[k].in[i] > 0)
      <4>1. Src[k] \in RuleOp
        BY <1>1, RuleIs, Zenon
      <4>2. Src[k].in[i] \in Int
        BY <4>1, InputsAre, Zenon
      <4>3. Outside(v)[Src[k].in[i]] = v[mapped[Src[k].in[i]]]
        BY <3>1, <3>3, <4>2, Zenon DEF Outside
      <4> QED BY <3>1, <3>3, <4>3, Zenon DEF SrcFed
    <3> QED BY <3>2, <3>3, Zenon
  <2>3. DOMAIN Src[k].in = 1 .. Arity[kind[stack[k]]]
    BY SrcFeeds, Zenon
  <2>4. [i \in 1 .. Arity[kind[stack[k]]] |-> v[Feed(sub, stack[k], i)]]
        = Arguments(Src[k], Outside(v), s)
    BY <2>2, <2>3 DEF Arguments
  <2> QED BY <1>1, <1>2, <1>6, <2>1, <2>4, Zenon
<1>8. Computes(Src, Outside(v), s)
  BY <1>7, Zenon DEF Computes
<1> QED BY <1>5, <1>8, Zenon DEF s


\* The kinds of the new graph, with the operators that stay for inputs.
PartKind == [op \in Ops(create_new_graph) |-> IF op \in Ops(sub) THEN "input" ELSE NewKind[op]]

\* The operators that stay keep their values v, and the new ones compute theirs.
LEMMA PartIs ==
  ASSUME Rewriting, Numbers, NEW v, \A op \in Ops(sub) : v[op] \in Int
  PROVE  /\ Evaluable(create_new_graph, PartKind) /\ Given(create_new_graph, PartKind, v)
         /\ \A op \in Ops(sub) : op \notin Matched =>
              PartKind[op] = "input" /\ op \in Ops(create_new_graph)
         /\ \A k \in DOMAIN Dst : PartKind[NewOp(k)] = Dst[k].kind
<1> DEFINE g == create_new_graph
<1>1. /\ Evaluable(g, NewKind)
      /\ \A op \in Ops(sub) : op \notin Matched => op \in Ops(g)
      /\ \A k \in DOMAIN Dst : /\ NewOp(k) \in Ops(g) /\ NewOp(k) \notin Ops(sub)
                               /\ NewKind[NewOp(k)] = Dst[k].kind /\ Dst[k].kind # "input"
                               /\ Dst[k].kind \in DOMAIN Arity
  BY NewGraphIs, Zenon
<1>2. \A op \in Ops(g) : (op \in Ops(sub) /\ op \notin Matched) \/ \E k \in DOMAIN Dst : op = NewOp(k)
  BY NewOps, Zenon
<1>3. \A op \in Ops(g) : PartKind[op] = IF op \in Ops(sub) THEN "input" ELSE NewKind[op]
  BY Zenon DEF PartKind
<1> HIDE DEF g
<1>4. \A op \in Ops(g) : PartKind[op] # "input" =>
        /\ PartKind[op] = NewKind[op] /\ NewKind[op] # "input" /\ NewKind[op] \in DOMAIN Arity
  BY <1>1, <1>2, <1>3
<1>5. Evaluable(g, PartKind)
  BY <1>1, <1>4, Zenon DEF Evaluable
<1>6. \A op \in Ops(g) : PartKind[op] = "input" => v[op] \in Int
  <2> SUFFICES ASSUME NEW op \in Ops(g), PartKind[op] = "input" PROVE op \in Ops(sub)
    BY Zenon
  <2>1. ASSUME NEW k \in DOMAIN Dst, op = NewOp(k) PROVE FALSE
    BY <1>1, <1>3, <2>1, Zenon
  <2> QED BY <1>2, <2>1, Zenon
<1>7. Given(g, PartKind, v)
  BY <1>4, <1>6, Zenon DEF Given
<1>8. /\ \A op \in Ops(sub) : op \notin Matched => PartKind[op] = "input" /\ op \in Ops(g)
      /\ \A k \in DOMAIN Dst : PartKind[NewOp(k)] = Dst[k].kind
  BY <1>1, <1>3, Zenon
<1> QED BY <1>5, <1>7, <1>8, Zenon DEF g

\* The new operators compute what the rule's target does.
LEMMA TargetComputes ==
  ASSUME Rewriting, Numbers, NEW v, \A op \in Ops(sub) : v[op] \in Int,
         NEW d, d = Value(create_new_graph, PartKind, v)
  PROVE  /\ \A op \in Ops(sub) : op \notin Matched => d[op] = v[op]
         /\ \A k \in DOMAIN Dst :
              d[NewOp(k)] = Apply(Dst[k].kind,
                [i \in 1 .. Arity[Dst[k].kind] |-> d[Feed(create_new_graph, NewOp(k), i)]])
         /\ Computes(Dst, Outside(v), [k \in DOMAIN Dst |-> d[NewOp(k)]])
<1> DEFINE g == create_new_graph
<1>1. /\ Evaluable(g, PartKind) /\ Given(g, PartKind, v)
      /\ \A op \in Ops(sub) : op \notin Matched => PartKind[op] = "input" /\ op \in Ops(g)
      /\ \A k \in DOMAIN Dst : PartKind[NewOp(k)] = Dst[k].kind
  BY PartIs, Zenon
<1>2. \A op \in Ops(g) : d[op] = Eval(g, PartKind, v, d, op)
  <2>1. Evaluates(g, PartKind, v, Ops(g), d)
    BY <1>1, ValueIs
  <2> QED BY <2>1, Zenon DEF Evaluates
<1>3. \A op \in Ops(g) : d[op] \in Int
  BY <1>1, ValuesAreNumbers, Zenon
<1>4. \A k \in DOMAIN Dst : NewOp(k) \in Ops(g) /\ Dst[k].kind # "input"
  BY NewGraphIs, Zenon
<1> HIDE DEF g
<1>5. \A op \in Ops(sub) : op \notin Matched => d[op] = v[op]
  BY <1>1, <1>2, Zenon DEF Eval
<1>6. ASSUME NEW k \in DOMAIN Dst
      PROVE  d[NewOp(k)] = Apply(Dst[k].kind,
               [i \in 1 .. Arity[Dst[k].kind] |-> d[Feed(g, NewOp(k), i)]])
  <2>1. PartKind[NewOp(k)] = Dst[k].kind /\ Dst[k].kind # "input" /\ NewOp(k) \in Ops(g)
    BY <1>1, <1>4, Zenon
  <2> QED BY <1>2, <2>1, Zenon DEF Eval
<1> DEFINE w == [k \in DOMAIN Dst |-> d[NewOp(k)]]
<1>7. \A k \in DOMAIN Dst : w[k] = d[NewOp(k)]
  OBVIOUS
<1> HIDE DEF w
<1>8. ASSUME NEW k \in DOMAIN Dst
      PROVE  w[k] \in Int /\ w[k] = Apply(Dst[k].kind, Arguments(Dst[k], Outside(v), w))
  <2>1. ASSUME NEW i \in DOMAIN Dst[k].in
        PROVE  d[Feed(g, NewOp(k), i)]
               = IF Dst[k].in[i] > 0 THEN w[Dst[k].in[i]] ELSE Outside(v)[Dst[k].in[i]]
    <3>1. /\ Feed(g, NewOp(k), i) = Fed(k, i)
          /\ Dst[k].in[i] > 0 => Dst[k].in[i] \in DOMAIN Dst /\ Fed(k, i) = NewOp(Dst[k].in[i])
          /\ ~ (Dst[k].in[i] > 0) =>
               /\ Dst[k].in[i] \in Int /\ Dst[k].in[i] \in DOMAIN mapped
               /\ Fed(k, i) = mapped[Dst[k].in[i]]
      BY DstFeeds, Zenon DEF g
    <3>2. CASE Dst[k].in[i] > 0
      BY <1>7, <3>1, <3>2, Zenon
    <3>3. CASE ~ (Dst[k].in[i] > 0)
      <4> DEFINE t == Dst[k].in[i]
      <4>1. t \in DOMAIN mapped /\ t \in Int /\ ~ Unread(Dst, t)
        BY <3>1, <3>3, Zenon DEF Unread
      <4>2. Outside(v)[t] = v[mapped[t]]
        BY <4>1, Zenon DEF Outside
      <4>3. mapped[t] \in Ops(sub) /\ mapped[t] \notin Matched
        <5> HIDE DEF t
        <5> QED BY <4>1, OutsideIs, Zenon
      <4> QED BY <1>5, <3>1, <3>3, <4>2, <4>3
    <3> QED BY <3>2, <3>3, Zenon
  <2>2. DOMAIN Dst[k].in = 1 .. Arity[Dst[k].kind]
    BY DstFeeds, Zenon
  <2>3. [i \in 1 .. Arity[Dst[k].kind] |-> d[Feed(g, NewOp(k), i)]]
        = Arguments(Dst[k], Outside(v), w)
    BY <2>1, <2>2 DEF Arguments
  <2> QED BY <1>3, <1>4, <1>6, <1>7, <2>3, Zenon
<1>9. Computes(Dst, Outside(v), w)
  BY <1>8, Zenon DEF Computes
<1>10. \A k \in DOMAIN Dst :
         d[NewOp(k)] = Apply(Dst[k].kind, [i \in 1 .. Arity[Dst[k].kind] |-> d[Feed(g, NewOp(k), i)]])
  BY <1>6, Zenon
<1> QED BY <1>5, <1>9, <1>10, Zenon DEF g, w

\* The operators that stay keep the values they have in the graph that is
\* rewritten, and the outputs of the rule those of the operators they replace.
LEMMA ValuesKept ==
  ASSUME RulesMeant, Rewriting, Numbers, NEW leaf, Given(sub, kind, leaf)
  PROVE  /\ \A op \in Ops(sub) : op \notin Matched =>
              Value(create_new_graph, NewKind, leaf)[op] = Value(sub, kind, leaf)[op]
         /\ \A k \in DOMAIN Outs :
              Value(create_new_graph, NewKind, leaf)[NewOp(Outs[k])]
              = Value(sub, kind, leaf)[stack[k]]
<1>v. PICK v : v = Value(sub, kind, leaf)
  BY Zenon
<1>d. PICK d : d = Value(create_new_graph, PartKind, v)
  BY Zenon
<1> DEFINE g == create_new_graph
<1>1. /\ x \in DOMAIN Rules /\ Evaluable(sub, kind)
      /\ \A e \in sub : Feed(sub, e[2], e[3]) = e[1]
      /\ DOMAIN stack = DOMAIN Src
  BY RewritingIs, Zenon
<1>2. \A op \in Ops(sub) : v[op] \in Int
  BY <1>v, <1>1, ValuesAreNumbers, Zenon
<1>3. \A op \in Ops(sub) : v[op] = Eval(sub, kind, leaf, v, op)
  <2>1. Evaluates(sub, kind, leaf, Ops(sub), v)
    BY <1>v, <1>1, ValueIs
  <2> QED BY <2>1, Zenon DEF Evaluates
<1>4. /\ \A op \in Ops(sub) : op \notin Matched => d[op] = v[op]
      /\ \A k \in DOMAIN Dst :
           d[NewOp(k)] = Apply(Dst[k].kind,
             [i \in 1 .. Arity[Dst[k].kind] |-> d[Feed(g, NewOp(k), i)]])
      /\ Computes(Dst, Outside(v), [k \in DOMAIN Dst |-> d[NewOp(k)]])
  BY <1>d, <1>2, TargetComputes, Zenon
<1>5. /\ Outside(v) \in [Int -> Int]
      /\ Computes(Src, Outside(v), [k \in DOMAIN Src |-> v[stack[k]]])
  BY <1>v, SourceComputes, Zenon
<1>6. ASSUME NEW k \in DOMAIN Outs PROVE d[NewOp(Outs[k])] = v[stack[k]]
  <2> DEFINE s == [j \in DOMAIN Src |-> v[stack[j]]]
             w == [j \in DOMAIN Dst |-> d[NewOp(j)]]
  <2>1. k \in DOMAIN Src /\ Outs[k] \in DOMAIN Dst /\ Sound(Rules[x])
    BY <1>1, RuleMeant, Zenon
  <2>2. s[k] = v[stack[k]] /\ w[Outs[k]] = d[NewOp(Outs[k])]
    BY <2>1, Zenon
  <2>3. Computes(Src, Outside(v), s) /\ Computes(Dst, Outside(v), w)
    BY <1>4, <1>5, Zenon
  <2> HIDE DEF s, w
  <2>4. w[Outs[k]] = s[k]
    <3>1. Computes(Rules[x].src, Outside(v), s) /\ Computes(Rules[x].dst, Outside(v), w)
      BY <2>3, Zenon DEF Src, Dst
    <3>2. \A j \in DOMAIN Rules[x].outs : w[Rules[x].outs[j]] = s[j]
      BY <1>5, <2>1, <3>1 DEF Sound
    <3> QED BY <3>2, Zenon DEF Outs
  <2> QED BY <2>2, <2>4, Zenon
<1>7. /\ WellFormed(g, NewKind) /\ Evaluable(g, NewKind)
      /\ \A e \in g : Feed(g, e[2], e[3]) = e[1]
      /\ \A op \in Ops(sub) : op \notin Matched => op \in Ops(g) /\ NewKind[op] = kind[op]
      /\ \A k \in DOMAIN Dst : NewKind[NewOp(k)] = Dst[k].kind /\ Dst[k].kind # "input"
  BY NewGraphIs, Zenon
<1>8. ASSUME NEW k \in DOMAIN Dst PROVE d[NewOp(k)] = Eval(g, NewKind, leaf, d, NewOp(k))
  <2> HIDE DEF g
  <2>1. d[NewOp(k)] = Apply(Dst[k].kind, [i \in 1 .. Arity[Dst[k].kind] |-> d[Feed(g, NewOp(k), i)]])
    BY <1>4, Zenon
  <2>2. NewKind[NewOp(k)] = Dst[k].kind /\ Dst[k].kind # "input"
    BY <1>7, Zenon
  <2> QED BY <2>1, <2>2, Zenon DEF Eval
<1>9. ASSUME NEW op \in Ops(sub), op \notin Matched PROVE d[op] = Eval(g, NewKind, leaf, d, op)
  <2>1. d[op] = v[op] /\ NewKind[op] = kind[op] /\ v[op] = Eval(sub, kind, leaf, v, op)
    BY <1>3, <1>4, <1>7, <1>9, Zenon
  <2>2. CASE kind[op] = "input"
    BY <2>1, <2>2, Zenon DEF Eval
  <2>3. CASE kind[op] # "input"
    <3>1. ASSUME NEW i \in 1 .. Arity[kind[op]]
          PROVE  v[Feed(sub, op, i)] = d[Feed(g, op, i)]
      <4>1. Slots(sub, op) = 1 .. Arity[kind[op]]
        BY Zenon DEF Rewriting, WellFormed, Slots
      <4>2. PICK f \in sub : f[2] = op /\ f[3] = i
        BY <4>1 DEF Slots
      <4>3. Feed(sub, op, i) = f[1] /\ f[1] \in Ops(sub)
        <5>1. f[1] \in Ops(sub)
          BY <2>3, <4>2, Zenon DEF Rewriting, WellFormed
        <5>2. Feed(sub, f[2], f[3]) = f[1]
          BY <1>1, Zenon
        <5> QED BY <4>2, <5>1, <5>2
      <4>4. PICK e : e = <<NewSource(f[1]), f[2], f[3]>>
        BY Zenon
      <4>5. Stays(e, f)
        BY <1>9, <4>2, <4>4, Zenon DEF Stays
      <4>6. e \in g
        BY <4>5, NewEdges, Zenon
      <4>7. e[1] = NewSource(f[1]) /\ e[2] = op /\ e[3] = i
        BY <4>2, <4>4
      <4>8. Feed(g, op, i) = NewSource(f[1])
        <5>1. Feed(g, e[2], e[3]) = e[1]
          BY <1>7, <4>6, Zenon
        <5> QED BY <4>7, <5>1
      <4>9. CASE f[1] \notin Matched
        <5>1. NewSource(f[1]) = f[1]
          BY <1>9, <4>2, <4>9, SourceIs, Zenon
        <5>2. d[f[1]] = v[f[1]]
          BY <1>4, <4>3, <4>9, Zenon
        <5> QED BY <4>3, <4>8, <5>1, <5>2
      <4>10. CASE f[1] \in Matched
        <5>1. PICK k \in DOMAIN Src :
                f[1] = stack[k] /\ k \in DOMAIN Outs /\ NewSource(f[1]) = NewOp(Outs[k])
          BY <1>9, <4>2, <4>10, SourceIs, Zenon
        <5>2. d[NewOp(Outs[k])] = v[stack[k]]
          BY <1>6, <5>1, Zenon
        <5> QED BY <4>3, <4>8, <5>1, <5>2
      <4> QED BY <4>9, <4>10, Zenon
    <3> HIDE DEF g
    <3>2. [i \in 1 .. Arity[kind[op]] |-> v[Feed(sub, op, i)]]
          = [i \in 1 .. Arity[kind[op]] |-> d[Feed(g, op, i)]]
      BY <3>1
    <3>3. v[op] = Apply(kind[op], [i \in 1 .. Arity[kind[op]] |-> v[Feed(sub, op, i)]])
      BY <2>1, <2>3, Zenon DEF Eval
    <3>4. Eval(g, NewKind, leaf, d, op)
          = Apply(kind[op], [i \in 1 .. Arity[kind[op]] |-> d[Feed(g, op, i)]])
      BY <2>1, <2>3, Zenon DEF Eval
    <3> QED BY <2>1, <3>2, <3>3, <3>4, Zenon
  <2> QED BY <2>2, <2>3, Zenon
<1>10. \A op \in Ops(g) : d[op] = Eval(g, NewKind, leaf, d, op)
  BY <1>8, <1>9, NewOps, Zenon
<1>11. \A op \in Ops(g) : Value(g, NewKind, leaf)[op] = d[op]
  BY <1>7, <1>10, ValueIs
<1>12. \A k \in DOMAIN Dst : NewOp(k) \in Ops(g)
  BY NewGraphIs, Zenon
<1>13. \A k \in DOMAIN Outs : NewOp(Outs[k]) \in Ops(g)
  BY <1>1, <1>12, RuleMeant, Zenon
<1> HIDE DEF g
<1>14. \A op \in Ops(sub) : op \notin Matched => Value(g, NewKind, leaf)[op] = v[op]
  BY <1>4, <1>7, <1>11, Zenon
<1>15. \A k \in DOMAIN Outs : Value(g, NewKind, leaf)[NewOp(Outs[k])] = v[stack[k]]
  BY <1>6, <1>11, <1>13, Zenon
<1> QED BY <1>v, <1>14, <1>15, Zenon DEF g


----------------------------------------------------------------------------
(* The outputs of the new graph *)

\* An operator that stays is an output of the new graph if it was one of the old.
LEMMA StayingSinks ==
  ASSUME RulesMeant, Rewriting, Numbers, NEW op \in Ops(sub), op \notin Matched
  PROVE  op \in Sinks(create_new_graph, NewKind) <=> op \in Sinks(sub, kind)
<1> DEFINE g == create_new_graph
<1>1. op \in Ops(g) /\ NewKind[op] = kind[op] /\ \A k \in DOMAIN Dst : NewOp(k) # op
  BY NewGraphIs, Zenon
<1>2. x \in DOMAIN Rules /\ \A q \in Matched : \E k \in DOMAIN Src : q = stack[k]
  BY RewritingIs, Zenon
<1>3. \A k \in DOMAIN Src : stack[k] \in Matched
  BY RewritingIs, Zenon
<1>4. ASSUME NEW f \in sub, f[1] = op, \A e \in g : e[1] # op PROVE FALSE
  <2>1. CASE f[2] \notin Matched
    <3>1. PICK e : e = <<NewSource(f[1]), f[2], f[3]>>
      BY Zenon
    <3>2. Stays(e, f)
      BY <2>1, <3>1, Zenon DEF Stays
    <3>3. e \in g /\ e[1] = NewSource(f[1])
      BY <3>2, NewEdges, NewTargets
    <3>4. NewSource(f[1]) = op
      BY <1>4, <2>1, SourceIs
    <3> QED BY <1>4, <3>3, <3>4, Zenon
  <2>2. CASE f[2] \in Matched
    <3>1. PICK k \in DOMAIN Src : f[2] = stack[k]
      BY <1>2, <2>2, Zenon
    <3>2. PICK i : i = f[3]
      BY Zenon
    <3>3. i \in DOMAIN Src[k].in /\ SrcFed(k, i) = op
      BY <1>4, <3>1, <3>2, SrcFeeds, Zenon
    <3>4. /\ Src[k].in[i] > 0 => Src[k].in[i] \in DOMAIN Src
          /\ ~ (Src[k].in[i] > 0) => Src[k].in[i] \in ExternalIds(Src[k])
      BY <3>3, SrcFeeds, Zenon
    <3>5. CASE Src[k].in[i] > 0
      BY <1>3, <3>3, <3>4, <3>5, Zenon DEF SrcFed
    <3>6. CASE ~ (Src[k].in[i] > 0)
      <4>1. ~ Unread(Dst, Src[k].in[i]) /\ mapped[Src[k].in[i]] = op
        BY <1>2, <3>3, <3>4, <3>6, RuleMeant, Zenon DEF SrcFed
      <4>2. PICK j \in DOMAIN Dst : \E h \in DOMAIN Dst[j].in : Dst[j].in[h] = Src[k].in[i]
        BY <4>1, Zenon DEF Unread
      <4>3. PICK h \in DOMAIN Dst[j].in : Dst[j].in[h] = Src[k].in[i]
        BY <4>2, Zenon
      <4>4. PICK e \in g : e = <<Fed(j, h), NewOp(j), h>>
        BY DstFeeds, Zenon
      <4>5. Fed(j, h) = op
        BY <3>6, <4>1, <4>3, Zenon DEF Fed
      <4>6. e[1] = op
        BY <4>4, <4>5
      <4> QED BY <1>4, <4>6, Zenon
    <3> QED BY <3>5, <3>6, Zenon
  <2> QED BY <2>1, <2>2, Zenon
<1>5. ASSUME NEW e \in g, e[1] = op, \A f \in sub : f[1] # op PROVE FALSE
  <2>1. CASE \E f : Stays(e, f)
    <3>1. PICK f : Stays(e, f)
      BY <2>1, Zenon
    <3>2. f \in sub /\ f[2] \notin Matched /\ NewSource(f[1]) = op
      BY <1>5, <3>1, NewTargets, Zenon DEF Stays
    <3>3. CASE f[1] \in Matched
      <4>1. PICK k \in DOMAIN Outs : NewSource(f[1]) = NewOp(Outs[k])
        BY <3>2, <3>3, SourceIs, Zenon
      <4>2. Outs[k] \in DOMAIN Dst
        BY <1>2, RuleMeant, Zenon
      <4> QED BY <1>1, <3>2, <4>1, <4>2, Zenon
    <3>4. CASE f[1] \notin Matched
      <4>1. NewSource(f[1]) = f[1]
        BY <3>2, <3>4, SourceIs, Zenon
      <4> QED BY <1>5, <3>2, <4>1, Zenon
    <3> QED BY <3>3, <3>4, Zenon
  <2>2. CASE \E k, i : Made(e, k, i)
    <3>1. PICK k, i : Made(e, k, i)
      BY <2>2, Zenon
    <3>2. k \in DOMAIN Dst /\ i \in DOMAIN Dst[k].in /\ Fed(k, i) = op
      BY <1>5, <3>1, NewTargets, Zenon DEF Made
    <3>3. /\ Dst[k].in[i] > 0 => Dst[k].in[i] \in DOMAIN Dst /\ Fed(k, i) = NewOp(Dst[k].in[i])
          /\ ~ (Dst[k].in[i] > 0) => Dst[k].in[i] \in DOMAIN mapped /\ Fed(k, i) = mapped[Dst[k].in[i]]
      BY <3>2, DstFeeds, Zenon
    <3>4. PICK t \in DOMAIN mapped : mapped[t] = op
      BY <1>1, <3>2, <3>3, Zenon
    <3>5. PICK j \in DOMAIN Src : \E h \in DOMAIN Src[j].in : SrcFed(j, h) = op
      BY <3>4, OutsideIs, Zenon
    <3>6. PICK h \in DOMAIN Src[j].in : SrcFed(j, h) = op
      BY <3>5, Zenon
    <3>7. PICK f \in sub : f = <<SrcFed(j, h), stack[j], h>>
      BY SrcFeeds, Zenon
    <3>8. f[1] = op
      BY <3>6, <3>7
    <3> QED BY <1>5, <3>8, Zenon
  <2> QED BY <2>1, <2>2, NewEdges, Zenon
<1> HIDE DEF g
<1>6. op \in Sinks(g, NewKind) => op \in Sinks(sub, kind)
  BY <1>1, <1>4, Zenon DEF Sinks
<1>7. op \in Sinks(sub, kind) => op \in Sinks(g, NewKind)
  BY <1>1, <1>5, Zenon DEF Sinks
<1> QED BY <1>6, <1>7, Zenon DEF g

\* An output that is replaced is one that the rule maps, to an output.
LEMMA ReplacedSinks ==
  ASSUME RulesMeant, Rewriting, Numbers, NEW j \in DOMAIN Src, stack[j] \in Sinks(sub, kind)
  PROVE  j \in DOMAIN Outs /\ NewOp(Outs[j]) \in Sinks(create_new_graph, NewKind)
<1> DEFINE g == create_new_graph
<1>1. \A f \in sub : f[1] # stack[j]
  BY Zenon DEF Sinks
<1>2. /\ x \in DOMAIN Rules
      /\ \A f \in sub : f[1] \in Ops(sub) \/ f[1] = 0
  <2>1. \A f \in sub : f[1] \in Ops(sub) \/ f[1] = 0
    BY Zenon DEF Rewriting, WellFormed
  <2> QED BY <2>1, RewritingIs, Zenon
<1>3. Unread(Src, j)
  <2> SUFFICES ASSUME NEW k \in DOMAIN Src, NEW i \in DOMAIN Src[k].in, Src[k].in[i] = j
               PROVE  FALSE
    BY Zenon DEF Unread
  <2>1. j > 0
    <3>1. DOMAIN Src = 1 .. Len(Src) /\ Len(Src) \in Nat
      BY <1>2, RuleIs
    <3> QED BY <3>1
  <2>2. SrcFed(k, i) = stack[j]
    BY <2>1, Zenon DEF SrcFed
  <2>3. PICK f \in sub : f = <<SrcFed(k, i), stack[k], i>>
    BY SrcFeeds, Zenon
  <2>4. f[1] = stack[j]
    BY <2>2, <2>3
  <2> QED BY <1>1, <2>4, Zenon
<1>4. /\ j \in DOMAIN Outs /\ Unread(Dst, Outs[j]) /\ Outs[j] \in DOMAIN Dst
      /\ \A k \in DOMAIN Outs : Outs[k] = Outs[j] => k = j
  BY <1>2, <1>3, RuleMeant, Zenon
<1>5. /\ \A k \in DOMAIN Dst : /\ NewOp(k) \in Ops(g) /\ NewOp(k) \notin Ops(sub) /\ NewOp(k) # 0
                               /\ NewKind[NewOp(k)] = Dst[k].kind /\ Dst[k].kind # "input"
      /\ \A i, k \in DOMAIN Dst : NewOp(i) = NewOp(k) => i = k
  BY NewGraphIs, Zenon
<1>6. ASSUME NEW e \in g, e[1] = NewOp(Outs[j]) PROVE FALSE
  <2>1. CASE \E f : Stays(e, f)
    <3>1. PICK f : Stays(e, f)
      BY <2>1, Zenon
    <3>2. f \in sub /\ f[2] \notin Matched /\ NewSource(f[1]) = NewOp(Outs[j])
      BY <1>6, <3>1, NewTargets, Zenon DEF Stays
    <3>3. CASE f[1] \in Matched
      <4>1. PICK k \in DOMAIN Src :
              f[1] = stack[k] /\ k \in DOMAIN Outs /\ NewSource(f[1]) = NewOp(Outs[k])
        BY <3>2, <3>3, SourceIs, Zenon
      <4>2. Outs[k] \in DOMAIN Dst
        BY <1>2, <4>1, RuleMeant, Zenon
      <4>3. k = j
        BY <1>4, <1>5, <3>2, <4>1, <4>2, Zenon
      <4> QED BY <1>1, <3>2, <4>1, <4>3, Zenon
    <3>4. CASE f[1] \notin Matched
      <4>1. NewSource(f[1]) = f[1]
        BY <3>2, <3>4, SourceIs, Zenon
      <4>2. f[1] = NewOp(Outs[j])
        BY <3>2, <4>1, Zenon
      <4>3. NewOp(Outs[j]) \notin Ops(sub) /\ NewOp(Outs[j]) # 0
        BY <1>4, <1>5, Zenon
      <4> QED BY <1>2, <3>2, <4>2, <4>3
    <3> QED BY <3>3, <3>4, Zenon
  <2>2. CASE \E k, i : Made(e, k, i)
    <3>1. PICK k, i : Made(e, k, i)
      BY <2>2, Zenon
    <3>2. k \in DOMAIN Dst /\ i \in DOMAIN Dst[k].in /\ Fed(k, i) = NewOp(Outs[j])
      BY <1>6, <3>1, NewTargets, Zenon DEF Made
    <3>3. /\ Dst[k].in[i] > 0 => Dst[k].in[i] \in DOMAIN Dst /\ Fed(k, i) = NewOp(Dst[k].in[i])
          /\ ~ (Dst[k].in[i] > 0) => Dst[k].in[i] \in DOMAIN mapped /\ Fed(k, i) = mapped[Dst[k].in[i]]
      BY <3>2, DstFeeds, Zenon
    <3>4. CASE Dst[k].in[i] > 0
      <4>1. Dst[k].in[i] = Outs[j]
        BY <1>4, <1>5, <3>2, <3>3, <3>4, Zenon
      <4> QED BY <1>4, <3>2, <4>1, Zenon DEF Unread
    <3>5. CASE ~ (Dst[k].in[i] > 0)
      <4>1. PICK t \in DOMAIN mapped : mapped[t] = NewOp(Outs[j])
        BY <3>2, <3>3, <3>5, Zenon
      <4>2. mapped[t] \in Ops(sub)
        BY OutsideIs, Zenon
      <4> QED BY <1>4, <1>5, <4>1, <4>2, Zenon
    <3> QED BY <3>4, <3>5, Zenon
  <2> QED BY <2>1, <2>2, NewEdges, Zenon
<1> HIDE DEF g
<1>7. NewOp(Outs[j]) \in Sinks(g, NewKind)
  BY <1>4, <1>5, <1>6, Zenon DEF Sinks
<1> QED BY <1>4, <1>7, Zenon DEF g

\* A new output replaces one.
LEMMA MadeSinks ==
  ASSUME RulesMeant, Rewriting, Numbers, NEW k \in DOMAIN Dst,
         NewOp(k) \in Sinks(create_new_graph, NewKind)
  PROVE  \E j \in DOMAIN Outs :
           j \in DOMAIN Src /\ Outs[j] = k /\ stack[j] \in Sinks(sub, kind)
<1> DEFINE g == create_new_graph
<1>1. \A e \in g : e[1] # NewOp(k)
  BY Zenon DEF Sinks
<1>2. /\ x \in DOMAIN Rules /\ \A q \in Matched : \E i \in DOMAIN Src : q = stack[i]
      /\ \A i \in DOMAIN Src : /\ stack[i] \in Matched /\ stack[i] \in Ops(sub)
                               /\ kind[stack[i]] # "input"
      /\ \A h, i \in DOMAIN Src : stack[h] = stack[i] => h = i
  BY RewritingIs, Zenon
<1>3. Unread(Dst, k)
  <2> SUFFICES ASSUME NEW j \in DOMAIN Dst, NEW i \in DOMAIN Dst[j].in, Dst[j].in[i] = k
               PROVE  FALSE
    BY Zenon DEF Unread
  <2>1. k > 0
    <3>1. DOMAIN Dst = 1 .. Len(Dst) /\ Len(Dst) \in Nat
      BY <1>2, RuleIs, Zenon
    <3> QED BY <3>1
  <2>2. Fed(j, i) = NewOp(k)
    BY <2>1, Zenon DEF Fed
  <2>3. PICK e \in g : e = <<Fed(j, i), NewOp(j), i>>
    BY DstFeeds, Zenon
  <2>4. e[1] = NewOp(k)
    BY <2>2, <2>3
  <2> QED BY <1>1, <2>4, Zenon
<1>4. PICK j \in DOMAIN Outs : Outs[j] = k /\ Unread(Src, j)
  BY <1>2, <1>3, RuleMeant, Zenon
<1>5. j \in DOMAIN Src
  BY <1>2, RuleMeant, Zenon
<1>6. ASSUME NEW f \in sub, f[1] = stack[j] PROVE FALSE
  <2>1. CASE f[2] \notin Matched
    <3>1. f[1] \in Matched
      BY <1>2, <1>5, <1>6
    <3>2. PICK i \in DOMAIN Src :
            f[1] = stack[i] /\ i \in DOMAIN Outs /\ NewSource(f[1]) = NewOp(Outs[i])
      BY <2>1, <3>1, SourceIs, Zenon
    <3>3. i = j
      BY <1>2, <1>5, <1>6, <3>2, Zenon
    <3>4. PICK e : e = <<NewSource(f[1]), f[2], f[3]>>
      BY Zenon
    <3>5. Stays(e, f)
      BY <2>1, <3>4, Zenon DEF Stays
    <3>6. e \in g /\ e[1] = NewSource(f[1])
      BY <3>5, NewEdges, NewTargets
    <3> QED BY <1>1, <1>4, <3>2, <3>3, <3>6
  <2>2. CASE f[2] \in Matched
    <3>1. PICK h \in DOMAIN Src : f[2] = stack[h]
      BY <1>2, <2>2, Zenon
    <3>2. PICK i : i = f[3]
      BY Zenon
    <3>3. i \in DOMAIN Src[h].in /\ SrcFed(h, i) = stack[j]
      BY <1>6, <3>1, <3>2, SrcFeeds
    <3>4. /\ Src[h].in[i] > 0 => Src[h].in[i] \in DOMAIN Src
          /\ ~ (Src[h].in[i] > 0) =>
               Src[h].in[i] \in ExternalIds(Src[h]) /\ Src[h].in[i] \in DOMAIN mapped
      BY <3>3, SrcFeeds, Zenon
    <3>5. CASE Src[h].in[i] > 0
      <4>1. Src[h].in[i] = j
        BY <1>2, <1>5, <3>3, <3>4, <3>5, Zenon DEF SrcFed
      <4> QED BY <1>4, <3>3, <4>1, Zenon DEF Unread
    <3>6. CASE ~ (Src[h].in[i] > 0)
      <4>1. ~ Unread(Dst, Src[h].in[i]) /\ mapped[Src[h].in[i]] = stack[j]
        BY <1>2, <3>3, <3>4, <3>6, RuleMeant, Zenon DEF SrcFed
      <4>2. mapped[Src[h].in[i]] \notin Matched
        BY <3>4, <3>6, <4>1, OutsideIs, Zenon
      <4> QED BY <1>2, <1>5, <4>1, <4>2, Zenon
    <3> QED BY <3>5, <3>6, Zenon
  <2> QED BY <2>1, <2>2, Zenon
<1>7. stack[j] \in Sinks(sub, kind)
  BY <1>2, <1>5, <1>6, Zenon DEF Sinks
<1> QED BY <1>4, <1>5, <1>7, Zenon

\* A rewriting keeps the meaning.
LEMMA RewritingKeeps ==
  ASSUME RulesMeant, Rewriting, Numbers, NEW leaf, Given(sub, kind, leaf)
  PROVE  Meaning(create_new_graph, NewKind, leaf) = Meaning(sub, kind, leaf)
<1>g. PICK g : g = create_new_graph
  BY Zenon
<1>v. PICK v : v = Value(sub, kind, leaf)
  BY Zenon
<1>w. PICK w : w = Value(g, NewKind, leaf)
  BY Zenon
<1>1. /\ \A op \in Ops(sub) : op \notin Matched => w[op] = v[op]
      /\ \A k \in DOMAIN Outs : w[NewOp(Outs[k])] = v[stack[k]]
  BY <1>g, <1>v, <1>w, ValuesKept
<1>2. \A op \in Matched : \E k \in DOMAIN Src : op = stack[k]
  BY RewritingIs, Zenon
<1>3. ASSUME NEW op \in Sinks(g, NewKind) PROVE \E q \in Sinks(sub, kind) : v[q] = w[op]
  <2>1. op \in Ops(g)
    BY Zenon DEF Sinks
  <2>2. CASE op \in Ops(sub) /\ op \notin Matched
    BY <1>g, <1>1, <1>3, <2>2, StayingSinks, Zenon
  <2>3. ASSUME NEW k \in DOMAIN Dst, op = NewOp(k) PROVE \E q \in Sinks(sub, kind) : v[q] = w[op]
    <3>1. PICK j \in DOMAIN Outs : Outs[j] = k /\ stack[j] \in Sinks(sub, kind)
      BY <1>g, <1>3, <2>3, MadeSinks, Zenon
    <3>2. w[NewOp(Outs[j])] = v[stack[j]]
      BY <1>1, Zenon
    <3> QED BY <2>3, <3>1, <3>2
  <2> QED BY <1>g, <2>1, <2>2, <2>3, NewOps, Zenon
<1>4. ASSUME NEW op \in Sinks(sub, kind) PROVE \E q \in Sinks(g, NewKind) : w[q] = v[op]
  <2>1. op \in Ops(sub)
    BY Zenon DEF Sinks
  <2>2. CASE op \notin Matched
    BY <1>g, <1>1, <1>4, <2>1, <2>2, StayingSinks, Zenon
  <2>3. CASE op \in Matched
    <3>1. PICK k \in DOMAIN Src : op = stack[k]
      BY <1>2, <2>3, Zenon
    <3>2. k \in DOMAIN Outs /\ NewOp(Outs[k]) \in Sinks(g, NewKind)
      BY <1>g, <1>4, <3>1, ReplacedSinks, Zenon
    <3> QED BY <1>1, <3>1, <3>2, Zenon
  <2> QED BY <2>2, <2>3, Zenon
<1>5. {w[op] : op \in Sinks(g, NewKind)} = {v[op] : op \in Sinks(sub, kind)}
  BY <1>3, <1>4
<1> QED BY <1>g, <1>v, <1>w, <1>5 DEF Meaning


----------------------------------------------------------------------------
(* The search *)

\* The operators that a rewriting makes change no graph there is.
LEMMA OldGraphs ==
  ASSUME TypeInv, NEW g, Ops(g) \subseteq DOMAIN kind, WellFormed(g, kind), NEW leaf
  PROVE  /\ WellFormed(g, NewKind) /\ Ops(g) \subseteq DOMAIN NewKind
         /\ Meaning(g, NewKind, leaf) = Meaning(g, kind, leaf)
         /\ Given(g, kind, leaf) => Given(g, NewKind, leaf)
<1>1. x \in DOMAIN Rules /\ kind \in Seq(DOMAIN Arity)
  BY Zenon DEF TypeInv
<1>2. /\ \A op \in DOMAIN kind : op \in DOMAIN NewKind /\ NewKind[op] = kind[op]
      /\ DOMAIN kind = 1 .. Len(kind)
  BY <1>1, KindIs, Zenon
<1>3. 0 \notin Ops(g)
  <2>1. 0 \notin 1 .. Len(kind)
    OBVIOUS
  <2> QED BY <1>2, <2>1, Zenon
<1>4. WellFormed(g, NewKind)
  BY <1>2, KindsGrow, Zenon
<1>5. Evaluable(g, kind) /\ Evaluable(g, NewKind)
  BY <1>3, <1>4, FormedEvaluable, Zenon
<1>6. SameKinds(g, kind, NewKind)
  BY <1>2, Zenon DEF SameKinds
<1>7. Meaning(g, NewKind, leaf) = Meaning(g, kind, leaf)
  BY <1>5, <1>6, SameKindsMean, Zenon
<1>8. Given(g, kind, leaf) => Given(g, NewKind, leaf)
  BY <1>6 DEF Given, SameKinds
<1> QED BY <1>2, <1>4, <1>7, <1>8, Zenon

\* Every graph of the search means what the graph optimize was called on does.
MeaningInv ==
  /\ Ops(origin) \subseteq DOMAIN kind /\ WellFormed(origin, kind)
  /\ \A g \in cands \cup {sub, best} : \A leaf \in Samples :
       Given(g, kind, leaf) /\ Meaning(g, kind, leaf) = Meaning(origin, kind, leaf)

\* The search starts with MeaningInv.
LEMMA MeaningStarts ==
  ASSUME Numbers, Init
  PROVE  MeaningInv
<1>1. PICK g \in Graphs : origin = g.edges /\ kind = g.kind
  BY Zenon DEF Init
<1>2. kind \in Seq(DOMAIN Arity) /\ Ops(origin) \subseteq DOMAIN kind /\ WellFormed(origin, kind)
  BY <1>1, GraphsAssumption, Zenon
<1>3. \A op \in DOMAIN kind : kind[op] \in DOMAIN Arity
  BY <1>2
<1>4. ASSUME NEW leaf \in Samples PROVE Given(origin, kind, leaf)
  BY <1>1, <1>2, <1>3, Zenon DEF Given, Numbers
<1>5. cands = {origin} /\ sub = origin /\ best = origin
  BY Zenon DEF Init
<1> QED BY <1>2, <1>4, <1>5, Zenon DEF MeaningInv

\* Every step keeps MeaningInv.
LEMMA MeaningStep ==
  ASSUME RulesMeant, Numbers, TypeInv, MapInv, MatchInv, GraphInv, MeaningInv, [Next]_vars
  PROVE  MeaningInv'
<1>1. ASSUME NEW g \in cands, Expand(g) \/ BudgetSpent(g) PROVE MeaningInv'
  <2>1. /\ cands' = cands \ {g} /\ UNCHANGED <<kind, origin>>
        /\ sub' \in {sub, g} /\ best' \in {best, g}
    BY <1>1, Zenon DEF Expand, BudgetSpent, Pop
  <2> QED BY <2>1, Zenon DEF MeaningInv
<1>2. ASSUME UNCHANGED <<kind, origin, cands, best, sub>> PROVE MeaningInv'
  BY <1>2, Zenon DEF MeaningInv
<1>3. CASE Exhausted \/ Descend \/ NextRule \/ NotImplemented \/ UNCHANGED vars
  BY <1>2, <1>3, Zenon DEF Exhausted, Descend, NextRule, NotImplemented, vars
<1>4. CASE Return \/ Discard
  BY <1>2, <1>4, Zenon DEF Return, Discard
<1>5. CASE Rewrite
  <2>1. phase = "run" /\ Len(stack) = Len(Src) /\ Creates /\ OutputsMapped
    BY <1>5, Zenon DEF Rewrite
  <2>2. /\ UNCHANGED <<origin, best, sub>>
        /\ \/ /\ ~ has_loop(create_new_graph)
              /\ cands' = cands \cup {create_new_graph} /\ kind' = NewKind
           \/ UNCHANGED <<cands, kind>>
    BY <1>5, RewriteIs, Zenon
  <2>3. CASE UNCHANGED <<cands, kind>>
    BY <1>2, <2>2, <2>3, Zenon
  <2>4. CASE /\ ~ has_loop(create_new_graph)
             /\ cands' = cands \cup {create_new_graph} /\ kind' = NewKind
    <3>1. Rewriting
      BY <2>1, <2>4, Zenon DEF GraphInv, Rewriting
    <3>2. /\ Ops(origin) \subseteq DOMAIN kind /\ WellFormed(origin, kind)
          /\ \A g \in cands \cup {sub, best} : \A leaf \in Samples :
               Given(g, kind, leaf) /\ Meaning(g, kind, leaf) = Meaning(origin, kind, leaf)
      BY Zenon DEF MeaningInv
    <3>3. /\ WellFormed(origin, NewKind) /\ Ops(origin) \subseteq DOMAIN NewKind
          /\ \A leaf : Meaning(origin, NewKind, leaf) = Meaning(origin, kind, leaf)
      BY <3>2, OldGraphs, Zenon
    <3>4. ASSUME NEW g \in cands \cup {sub, best}, NEW leaf \in Samples
          PROVE  /\ Given(g, NewKind, leaf)
                 /\ Meaning(g, NewKind, leaf) = Meaning(origin, NewKind, leaf)
      <4>1. WellFormed(g, kind) /\ Ops(g) \subseteq DOMAIN kind
        BY Zenon DEF GraphInv, TypeInv
      <4>2. /\ Meaning(g, NewKind, leaf) = Meaning(g, kind, leaf)
            /\ Given(g, kind, leaf) => Given(g, NewKind, leaf)
        BY <4>1, OldGraphs, Zenon
      <4>3. Given(g, kind, leaf) /\ Meaning(g, kind, leaf) = Meaning(origin, kind, leaf)
        BY <3>2, Zenon
      <4> QED BY <3>3, <4>2, <4>3
    <3>5. ASSUME NEW leaf \in Samples
          PROVE  /\ Given(create_new_graph, NewKind, leaf)
                 /\ Meaning(create_new_graph, NewKind, leaf) = Meaning(origin, NewKind, leaf)
      <4>1. Given(sub, kind, leaf) /\ Meaning(sub, kind, leaf) = Meaning(origin, kind, leaf)
        BY <3>2, Zenon
      <4>2. Meaning(create_new_graph, NewKind, leaf) = Meaning(sub, kind, leaf)
        BY <3>1, <4>1, RewritingKeeps, Zenon
      <4>3. /\ \A op \in Ops(sub) : op \notin Matched => NewKind[op] = kind[op]
            /\ \A k \in DOMAIN Dst : /\ NewKind[NewOp(k)] = Dst[k].kind /\ Dst[k].kind # "input"
                                     /\ Dst[k].kind \in DOMAIN Arity
        BY <3>1, NewGraphIs, Zenon
      <4>4. ASSUME NEW op \in Ops(create_new_graph)
            PROVE  /\ NewKind[op] = "input" => leaf[op] \in Int
                   /\ NewKind[op] # "input" => NewKind[op] \in DOMAIN Arity
        <5>1. CASE op \in Ops(sub) /\ op \notin Matched
          <6>1. NewKind[op] = kind[op]
            BY <4>3, <5>1, Zenon
          <6> QED BY <4>1, <5>1, <6>1 DEF Given
        <5>2. ASSUME NEW k \in DOMAIN Dst, op = NewOp(k)
              PROVE  NewKind[op] # "input" /\ NewKind[op] \in DOMAIN Arity
          BY <4>3, <5>2
        <5> QED BY <5>1, <5>2, NewOps, Zenon
      <4>5. Given(create_new_graph, NewKind, leaf)
        BY <4>4, Zenon DEF Given
      <4> QED BY <3>3, <4>1, <4>2, <4>5
    <3>6. \A g \in cands' \cup {sub', best'} : \A leaf \in Samples :
            Given(g, NewKind, leaf) /\ Meaning(g, NewKind, leaf) = Meaning(origin, NewKind, leaf)
      BY <2>2, <2>4, <3>4, <3>5, Zenon
    <3> QED BY <2>2, <2>4, <3>3, <3>6, Zenon DEF MeaningInv
  <2> QED BY <2>2, <2>3, <2>4, Zenon
<1> QED BY <1>1, <1>3, <1>4, <1>5, Zenon DEF Next

\* However the search goes: when no two source operators of a rule share an outside
\* tensor and the two sides of every rule compute the same outputs, then all the
\* graphs that optimize puts into its heap, and the one it returns, compute what
\* the graph it was called on does.
THEOREM SearchKeepsMeaning ==
  ASSUME Private, RulesMeant, Numbers
  PROVE  Spec => []MeaningKept
<1>1. Init => GraphInv /\ MatchInv /\ MeaningInv
  <2> SUFFICES ASSUME Init PROVE GraphInv /\ MatchInv /\ MeaningInv
    OBVIOUS
  <2>1. MeaningInv
    BY MeaningStarts, Zenon
  <2>2. cands = {origin} /\ sub = origin /\ best = origin /\ stack = <<>>
    BY Zenon DEF Init
  <2>3. GraphInv
    BY <2>1, <2>2, Zenon DEF GraphInv, MeaningInv
  <2>4. \A k : k \notin DOMAIN stack
    BY <2>2
  <2> QED BY <2>1, <2>3, <2>4, Zenon DEF MatchInv
<1>2. TypeInv /\ MapInv /\ GraphInv /\ [Next]_vars => GraphInv'
  BY GraphStep, Zenon
<1>3. TypeInv /\ MatchInv /\ [Next]_vars => MatchInv'
  BY MatchStep, Zenon
<1>4. TypeInv /\ MapInv /\ MatchInv /\ GraphInv /\ MeaningInv /\ [Next]_vars => MeaningInv'
  BY MeaningStep, Zenon
<1>5. MeaningInv => MeaningKept
  BY Zenon DEF MeaningInv, MeaningKept
<1> QED BY <1>1, <1>2, <1>3, <1>4, <1>5, TypeHolds, MapHolds, PTL DEF Spec

\* relu (conv x w) -> conv_relu x w, the rule that create_conv_relu makes, is one
\* that SearchKeepsMeaning is about.
FuseConvRelu ==
  [src |-> <<[kind |-> "conv", in |-> <<-1, -2>>], [kind |-> "relu", in |-> <<1>>]>>,
   dst |-> <<[kind |-> "conv_relu", in |-> <<-1, -2>>]>>,
   outs |-> [k \in {2} |-> 1]]

LEMMA FuseIsMeant == Shaped(FuseConvRelu) /\ Sound(FuseConvRelu)
<1>r. PICK r : r = FuseConvRelu
  BY Zenon
<1>1. /\ DOMAIN r.src = {1, 2} /\ DOMAIN r.dst = {1} /\ DOMAIN r.outs = {2} /\ r.outs[2] = 1
      /\ r.src[1].kind = "conv" /\ DOMAIN r.src[1].in = {1, 2}
      /\ r.src[1].in[1] = -1 /\ r.src[1].in[2] = -2
      /\ r.src[2].kind = "relu" /\ DOMAIN r.src[2].in = {1} /\ r.src[2].in[1] = 1
      /\ r.dst[1].kind = "conv_relu" /\ DOMAIN r.dst[1].in = {1, 2}
      /\ r.dst[1].in[1] = -1 /\ r.dst[1].in[2] = -2
  BY <1>r DEF FuseConvRelu
<1>2. /\ \A t : Unread(r.src, t) <=> t # -1 /\ t # -2 /\ t # 1
      /\ \A t : Unread(r.dst, t) <=> t # -1 /\ t # -2
  BY <1>1 DEF Unread
<1>3. /\ \A k \in DOMAIN r.src : \A i \in DOMAIN r.src[k].in : r.src[k].in[i] < k
      /\ \A k \in DOMAIN r.src : \A t \in ExternalIds(r.src[k]) : t = -1 \/ t = -2
  BY <1>1 DEF ExternalIds, External
<1>4. Shaped(r)
  BY <1>1, <1>2, <1>3 DEF Shaped
<1>5. ASSUME NEW ext \in [Int -> Int], NEW s, NEW d,
             Computes(r.src, ext, s), Computes(r.dst, ext, d)
      PROVE  d[1] = s[2]
  <2>1. /\ s[1] = Apply("conv", Arguments(r.src[1], ext, s))
        /\ s[2] = Apply("relu", Arguments(r.src[2], ext, s))
        /\ d[1] = Apply("conv_relu", Arguments(r.dst[1], ext, d))
    BY <1>1, <1>5 DEF Computes
  <2>2. /\ Arguments(r.src[1], ext, s)[1] = ext[-1] /\ Arguments(r.src[1], ext, s)[2] = ext[-2]
        /\ Arguments(r.src[2], ext, s)[1] = s[1]
        /\ Arguments(r.dst[1], ext, d)[1] = ext[-1] /\ Arguments(r.dst[1], ext, d)[2] = ext[-2]
    <3>1. ASSUME NEW op, NEW v, NEW i \in DOMAIN op.in
          PROVE  Arguments(op, ext, v)[i] = IF op.in[i] > 0 THEN v[op.in[i]] ELSE ext[op.in[i]]
      BY DEF Arguments
    <3>2. Arguments(r.src[1], ext, s)[1] = ext[-1] /\ Arguments(r.src[1], ext, s)[2] = ext[-2]
      BY <1>1, <3>1
    <3>3. Arguments(r.src[2], ext, s)[1] = s[1]
      BY <1>1, <3>1
    <3>4. Arguments(r.dst[1], ext, d)[1] = ext[-1] /\ Arguments(r.dst[1], ext, d)[2] = ext[-2]
      BY <1>1, <3>1
    <3> QED BY <3>2, <3>3, <3>4, Zenon
  <2>3. s[1] = ext[-1] * ext[-2]
    BY <2>1, <2>2 DEF Apply
  <2>4. s[2] = Rectify(s[1]) /\ d[1] = Rectify(ext[-1] * ext[-2])
    BY <2>1, <2>2 DEF Apply
  <2> QED BY <2>3, <2>4, Zenon
<1>6. Sound(r)
  BY <1>1, <1>5 DEF Sound
<1> QED BY <1>r, <1>4, <1>6, Zenon

\* The operators that Apply knows make numbers of numbers, as Numbers asks.
LEMMA ApplyIsNumber ==
  /\ \A kd \in {"add", "mul", "conv", "conv_relu"} : \A a \in [1 .. 2 -> Int] : Apply(kd, a) \in Int
  /\ \A a \in [1 .. 1 -> Int] : Apply("relu", a) \in Int
<1>1. \A v \in Int : Rectify(v) \in Int
  BY DEF Rectify
<1>2. ASSUME NEW kd \in {"add", "mul", "conv", "conv_relu"}, NEW a \in [1 .. 2 -> Int]
      PROVE  Apply(kd, a) \in Int
  <2>1. a[1] \in Int /\ a[2] \in Int
    OBVIOUS
  <2>2. a[1] + a[2] \in Int /\ a[1] * a[2] \in Int
    BY <2>1
  <2>3. Rectify(a[1] * a[2]) \in Int
    BY <1>1, <2>2, Zenon
  <2> QED BY <2>2, <2>3 DEF Apply
<1>3. ASSUME NEW a \in [1 .. 1 -> Int]
      PROVE  Apply("relu", a) \in Int
  <2>1. a[1] \in Int
    OBVIOUS
  <2>2. Rectify(a[1]) \in Int
    BY <1>1, <2>1, Zenon
  <2> QED BY <2>2 DEF Apply
<1> QED BY <1>2, <1>3

=============================================================================
