------------------------------ MODULE GraphXfer ------------------------------
(***************************************************************************)
(* The query generator's search for a cheaper operator graph:              *)
(* Graph.optimize, and GraphXfer.run with the calls it makes.  optimize    *)
(* pops graphs from a heap; for each of them run tries a substitution rule *)
(* at every place, by backtracking: match one operator per source operator *)
(* of the rule, build the rewritten graph at full depth, unmatch.          *)
(*                                                                         *)
(* An operator is its guid.  A graph is its set of edges <<src, dst, i>>,  *)
(* src feeding input i of dst (operators have one output here, so the      *)
(* source index is left out); 0 stands for the operator of GUID_INPUT,     *)
(* which feeds the inputs and the weights.  An input of a rule's operator  *)
(* is k > 0, the output of the rule's k-th operator, or k < 0, a tensor    *)
(* from outside the rule.  An operator's kind is its type with the         *)
(* parameters that the rules constrain ("conv_relu" is a convolution with  *)
(* an activation); tensor shapes are left out.                             *)
(***************************************************************************)
EXTENDS Integers, Sequences, FiniteSetsExt

CONSTANTS
  Graphs,        \* the graphs optimize may be called on: [edges, kind]
  Samples,       \* values of the inputs on which graphs are compared
  Rules,         \* xfers, a sequence of [src, dst, outs]
  Budget,        \* of optimize
  AlphaPercent,  \* alpha of optimize, in percent
  Arity          \* numInputs of each kind of operator

VARIABLES
  kind,     \* of every operator, by guid
  origin,   \* the graph optimize was called on
  cands,    \* candidates, a heap by totalCost
  seen,     \* hashmap
  best,     \* bestGraph
  counter,
  sub,      \* subGraph, being expanded
  x,        \* the rule being run on it
  stack,    \* mapOp of the source operators matched so far
  at,       \* the loop of the current depth goes on from this operator
  mapped,   \* mappedInputs
  phase     \* "pop", "run", "done", or the exception that ended the search

vars == <<kind, origin, cands, seen, best, counter, sub, x, stack, at, mapped, phase>>

Ops(g) == {e[2] : e \in g}

Front(s) == [i \in 1 .. Len(s) - 1 |-> s[i]]
Last(s) == s[Len(s)]

----------------------------------------------------------------------------
(* Graph *)

\* total_cost: every operator costs the same 0.1.
total_cost(g) == Cardinality(Ops(g))

has_edge(g, src, dst, i) == <<src, dst, i>> \in g

\* has_loop counts down the inputs of an operator as their sources are done.
\* Some are never done when each waits for another of them, or for an operator
\* that is not in the graph; 0 is not waited for.
has_loop(g) ==
  \E S \in (SUBSET Ops(g)) \ {{}} : \A op \in S :
    \E e \in g : e[2] = op /\ e[1] # 0 /\ e[1] \notin Ops(g) \ S

\* One edge per input of every operator, all of them from operators of the graph,
\* and no cycle.
WellFormed(g, kd) ==
  /\ \A op \in Ops(g) :
       {e[3] : e \in {f \in g : f[2] = op}} = 1 .. Arity[kd[op]]
  /\ \A e, f \in g : e[2] = f[2] /\ e[3] = f[3] => e = f
  /\ \A e \in g : e[1] \in Ops(g) \/ (e[1] = 0 /\ kd[e[2]] = "input")
  /\ ~ has_loop(g)

ASSUME GraphsAssumption ==
  \A g \in Graphs :
    /\ g.kind \in Seq(DOMAIN Arity)
    /\ Ops(g.edges) \subseteq DOMAIN g.kind
    /\ WellFormed(g.edges, g.kind)

\* The memo of the model gives operators of one kind one ptr; inputs and weights
\* have their own.
Ptr(kd, op) == IF op = 0 THEN <<"none", 0>>
               ELSE IF kd[op] = "input" THEN <<"input", op>> ELSE <<kd[op], 0>>

EdgeBefore(e, f) == e[1] < f[1] \/ (e[1] = f[1] /\ e[3] < f[3])
InOrder(edges) ==
  [i \in 1 .. Cardinality(edges) |->
     CHOOSE e \in edges : Cardinality({f \in edges : EdgeBefore(f, e)}) = i - 1]

\* hash: a sum over the operators, so the operators with one signature are
\* counted.  The edges are taken in the order of their source's guid.
hash(g, kd) ==
  LET Signature(op) ==
        LET in == InOrder({e \in g : e[2] = op})
        IN  <<Ptr(kd, op), [i \in DOMAIN in |-> <<Ptr(kd, in[i][1]), in[i][3]>>]>>
  IN  [s \in {Signature(op) : op \in Ops(g)} |->
         Cardinality({op \in Ops(g) : Signature(op) = s})]

----------------------------------------------------------------------------
(* GraphXfer: matching *)

Src == Rules[x].src
Dst == Rules[x].dst
Outs == Rules[x].outs    \* mappedOutputs

External(srcOp) == {i \in DOMAIN srcOp.in : srcOp.in[i] < 0}
ExternalIds(srcOp) == {srcOp.in[i] : i \in External(srcOp)}

\* An operator of a rule, and what load_graph_xfer_from_pb_file makes of the rules
\* of its file: an operator made by a rule has all its inputs, from operators the
\* rule makes or from tensors that its source names.
RuleOp == [kind : DOMAIN Arity, in : Seq(Int \ {0})]

WellFormedRule(r) ==
  /\ r.src \in Seq(RuleOp) \ {<<>>}
  /\ r.dst \in Seq(RuleOp)
  /\ \A k \in DOMAIN r.src : r.src[k].kind # "input"
  /\ \A k \in DOMAIN r.dst :
       /\ Len(r.dst[k].in) = Arity[r.dst[k].kind]
       /\ \A i \in DOMAIN r.dst[k].in :
            IF r.dst[k].in[i] > 0 THEN r.dst[k].in[i] \in DOMAIN r.dst
            ELSE \E j \in DOMAIN r.src : r.dst[k].in[i] \in ExternalIds(r.src[j])
  /\ \A k \in DOMAIN r.outs : r.outs[k] \in DOMAIN r.dst

ASSUME RulesAssumption ==
  /\ Len(Rules) \in Nat \ {0} /\ DOMAIN Rules = 1 .. Len(Rules)
  /\ \A r \in DOMAIN Rules : WellFormedRule(Rules[r])
  /\ Budget \in Nat

\* The source of the first input of op that stands for the rule's tensor k.
FirstUse(srcOp, op, k) ==
  LET i == CHOOSE i \in DOMAIN srcOp.in :
             srcOp.in[i] = k /\ \A j \in 1 .. i - 1 : srcOp.in[j] # k
  IN  CHOOSE t \in {e[1] : e \in sub} : has_edge(sub, t, op, i)

\* A tensor from outside is what it is mapped to already, else what it is at its
\* first use in this operator.
Tensor(srcOp, op, k) ==
  IF k > 0 THEN stack[k]
  ELSE IF k \in DOMAIN mapped THEN mapped[k] ELSE FirstUse(srcOp, op, k)

can_match(srcOp, op) ==
  /\ srcOp.kind = kind[op]
  /\ Len(srcOp.in) = Arity[kind[op]]
  /\ \A i \in DOMAIN srcOp.in : has_edge(sub, Tensor(srcOp, op, srcOp.in[i]), op, i)

\* match appends to the entry of every tensor from outside; only the first
\* element of an entry is ever read, so an entry is its first element here.
match(srcOp, op) ==
  /\ stack' = Append(stack, op)
  /\ at' = 1
  /\ mapped' = [k \in DOMAIN mapped \cup ExternalIds(srcOp) |-> Tensor(srcOp, op, k)]

\* del self.mappedInputs[idx], once for every input from outside: KeyError when
\* the entry is gone already.
DeleteFails(srcOp) ==
  \/ ~ ExternalIds(srcOp) \subseteq DOMAIN mapped
  \/ Cardinality(ExternalIds(srcOp)) < Cardinality(External(srcOp))

\* Mutant: the loop goes on from the operator it has just unmatched.
unmatchStay(ok) ==
  LET srcOp == Src[Len(stack)]
  IN  /\ stack' = Front(stack)
      /\ at' = Last(stack)
      /\ mapped' = [k \in DOMAIN mapped \ ExternalIds(srcOp) |-> mapped[k]]
      /\ phase' = IF DeleteFails(srcOp) THEN "KeyError" ELSE ok

\* Mutant: mappedInputs keeps its entries.
unmatchOpOnly(ok) ==
  /\ stack' = Front(stack)
  /\ at' = Last(stack) + 1
  /\ mapped' = mapped
  /\ phase' = ok

\* unmatch, and the next turn of the loop of the depth it returns to.
unmatch(ok) ==
  LET srcOp == Src[Len(stack)]
  IN  /\ stack' = Front(stack)
      /\ at' = Last(stack) + 1
      /\ mapped' = [k \in DOMAIN mapped \ ExternalIds(srcOp) |-> mapped[k]]
      /\ phase' = IF DeleteFails(srcOp) THEN "KeyError" ELSE ok

----------------------------------------------------------------------------
(* GraphXfer: rewriting *)

\* The guids the new operators get, in the order of the rule's target operators.
NewOp(k) == Len(kind) + k
NewKind == kind \o [k \in DOMAIN Dst |-> Dst[k].kind]

Matched == {stack[k] : k \in DOMAIN stack}

\* Output tensors with external edges are mapped.
OutputsMapped ==
  \A k \in DOMAIN stack : \A e \in sub :
    e[1] = stack[k] /\ e[2] \notin Matched => k \in DOMAIN Outs

NewSource(op) ==
  IF op \in Matched THEN NewOp(Outs[CHOOSE k \in DOMAIN stack : stack[k] = op]) ELSE op

\* Mutant: every edge of a new operator goes to its first input.
create_new_graphSlot ==
  {<<NewSource(e[1]), e[2], e[3]>> : e \in {f \in sub : f[2] \notin Matched}}
  \cup UNION {{<<IF Dst[k].in[i] > 0 THEN NewOp(Dst[k].in[i]) ELSE mapped[Dst[k].in[i]],
                 NewOp(k), 1>> : i \in DOMAIN Dst[k].in} : k \in DOMAIN Dst}

\* Mutant: every outside tensor of a new operator is its first one.
create_new_graphFirst ==
  {<<NewSource(e[1]), e[2], e[3]>> : e \in {f \in sub : f[2] \notin Matched}}
  \cup UNION {{<<IF Dst[k].in[i] > 0 THEN NewOp(Dst[k].in[i])
                 ELSE mapped[CHOOSE j \in DOMAIN mapped : \A h \in DOMAIN mapped : h <= j],
                 NewOp(k), i>> : i \in DOMAIN Dst[k].in} : k \in DOMAIN Dst}

create_new_graph ==
  {<<NewSource(e[1]), e[2], e[3]>> : e \in {f \in sub : f[2] \notin Matched}}
  \cup UNION {{<<IF Dst[k].in[i] > 0 THEN NewOp(Dst[k].in[i]) ELSE mapped[Dst[k].in[i]],
                 NewOp(k), i>> : i \in DOMAIN Dst[k].in} : k \in DOMAIN Dst}

\* create_new_operator: it creates convolutions and elementwise operators, gives
\* up on concat, and raises NotImplementedError for the others.
Uncreated == {k \in DOMAIN Dst : Dst[k].kind \notin {"conv", "conv_relu", "add", "mul"}}
Raises == Uncreated # {} /\ Dst[Min(Uncreated)].kind # "concat"
Creates == Uncreated = {}

Accepts(g) ==
  /\ ~ has_loop(g)
  /\ total_cost(g) * 100 < total_cost(best) * AlphaPercent
  /\ total_cost(g) < 2 * total_cost(origin)
  /\ hash(g, NewKind) \notin seen

----------------------------------------------------------------------------

Init ==
  /\ \E g \in Graphs : origin = g.edges /\ kind = g.kind
  /\ cands = {origin}
  /\ seen = {hash(origin, kind)}
  /\ best = origin
  /\ counter = 0
  /\ sub = origin
  /\ x = 1
  /\ stack = <<>>
  /\ at = 1
  /\ mapped = <<>>
  /\ phase = "pop"

\* Mutant: a graph is compared with the best one only when it is expanded.
PopLate(g) ==
  /\ phase = "pop"
  /\ g \in cands /\ \A h \in cands : total_cost(g) <= total_cost(h)
  /\ cands' = cands \ {g}
  /\ best' = IF counter <= Budget /\ total_cost(g) < total_cost(best) THEN g ELSE best
  /\ UNCHANGED <<kind, origin, seen, stack, mapped>>

\* heappop: which of the cheapest graphs depends on the heap.
Pop(g) ==
  /\ phase = "pop"
  /\ g \in cands /\ \A h \in cands : total_cost(g) <= total_cost(h)
  /\ cands' = cands \ {g}
  /\ best' = IF total_cost(g) < total_cost(best) THEN g ELSE best
  /\ UNCHANGED <<kind, origin, seen, stack, mapped>>

Expand(g) ==
  /\ Pop(g)
  /\ counter <= Budget
  /\ counter' = counter + 1
  /\ sub' = g
  /\ x' = 1
  /\ at' = 1
  /\ phase' = "run"

BudgetSpent(g) ==
  /\ Pop(g)
  /\ counter > Budget
  /\ phase' = "done"
  /\ UNCHANGED <<counter, sub, x, at>>

Exhausted ==
  /\ phase = "pop"
  /\ cands = {}
  /\ phase' = "done"
  /\ UNCHANGED <<kind, origin, cands, seen, best, counter, sub, x, stack, at, mapped>>

Matches ==
  {op \in Ops(sub) :
     op >= at /\ op \notin Matched /\ can_match(Src[Len(stack) + 1], op)}

\* run, at a depth below the last: the next operator that matches.
Descend ==
  /\ phase = "run"
  /\ Len(stack) < Len(Src)
  /\ Matches # {}
  /\ match(Src[Len(stack) + 1], Min(Matches))
  /\ UNCHANGED <<kind, origin, cands, seen, best, counter, sub, x, phase>>

\* The loop of this depth has ended: run returns, and its caller unmatches.
Return ==
  /\ phase = "run"
  /\ Len(stack) < Len(Src)
  /\ Matches = {}
  /\ stack # <<>>
  /\ unmatch("run")
  /\ UNCHANGED <<kind, origin, cands, seen, best, counter, sub, x>>

\* The run of this rule has ended, and with the last rule this expansion.
NextRule ==
  /\ phase = "run"
  /\ Len(stack) < Len(Src)
  /\ Matches = {}
  /\ stack = <<>>
  /\ IF x < Len(Rules) THEN x' = x + 1 /\ phase' = "run" ELSE x' = x /\ phase' = "pop"
  /\ at' = 1
  /\ UNCHANGED <<kind, origin, cands, seen, best, counter, sub, stack, mapped>>

\* run, at full depth, and the unmatch of the deepest operator.  The operators
\* made for a graph that is not accepted are in no graph, and are left out.
Push(g) ==
  /\ Accepts(g)
  /\ seen' = seen \cup {hash(g, NewKind)}
  /\ cands' = cands \cup {g}
  /\ kind' = NewKind

Rewrite ==
  /\ phase = "run"
  /\ Len(stack) = Len(Src)
  /\ Creates /\ OutputsMapped
  /\ \E g \in {create_new_graph} :
       Push(g) \/ (~ Accepts(g) /\ UNCHANGED <<seen, cands, kind>>)
  /\ unmatch("run")
  /\ UNCHANGED <<origin, best, counter, sub, x>>

\* create_new_operator gives up, or a tensor used outside is not an output of the
\* rule.
Discard ==
  /\ phase = "run"
  /\ Len(stack) = Len(Src)
  /\ ~ Raises
  /\ ~ (Creates /\ OutputsMapped)
  /\ unmatch("run")
  /\ UNCHANGED <<kind, origin, cands, seen, best, counter, sub, x>>

NotImplemented ==
  /\ phase = "run"
  /\ Len(stack) = Len(Src)
  /\ Raises
  /\ phase' = "NotImplementedError"
  /\ UNCHANGED <<kind, origin, cands, seen, best, counter, sub, x, stack, at, mapped>>

Next ==
  \/ \E g \in cands : Expand(g) \/ BudgetSpent(g)
  \/ Exhausted
  \/ Descend \/ Return \/ NextRule
  \/ Rewrite \/ Discard \/ NotImplemented

Spec == Init /\ [][Next]_vars /\ WF_vars(Next)

----------------------------------------------------------------------------
(* Properties *)

Rectify(v) == IF v < 0 THEN 0 ELSE v

\* What an operator makes of its inputs, with the product of two numbers for a
\* convolution.
Apply(kd, a) ==
  CASE kd = "add" -> a[1] + a[2]
    [] kd \in {"mul", "conv"} -> a[1] * a[2]
    [] kd = "conv_relu" -> Rectify(a[1] * a[2])
    [] kd = "relu" -> Rectify(a[1])

\* What feeds input i of op.
Feed(g, op, i) == (CHOOSE e \in g : e[2] = op /\ e[3] = i)[1]

\* What the operators of a graph compute from the values of its inputs.
Value(g, kd, leaf) ==
  LET val[op \in Ops(g)] ==
        IF kd[op] = "input" THEN leaf[op]
        ELSE Apply(kd[op], [i \in 1 .. Arity[kd[op]] |-> val[Feed(g, op, i)]])
  IN  val

Sinks(g, kd) == {op \in Ops(g) : kd[op] # "input" /\ \A e \in g : e[1] # op}
Meaning(g, kd, leaf) == {Value(g, kd, leaf)[op] : op \in Sinks(g, kd)}

\* The search's variables have their types: operators are known by guid, and the
\* stack of run is never deeper than the rule.
TypeOK ==
  /\ \A g \in cands \cup {sub, best} : Ops(g) \subseteq DOMAIN kind
  /\ x \in DOMAIN Rules
  /\ Len(stack) <= Len(Src)
  /\ Matched \subseteq Ops(sub)
  /\ counter \in 0 .. Budget + 1
  /\ phase \in {"pop", "run", "done", "KeyError", "NotImplementedError"}

\* match updates mappedInputs and unmatch updates it back: at every depth it maps
\* exactly the outside tensors of the operators that are matched, each to the
\* tensor that feeds them.
MapsTheMatched ==
  phase = "run" =>
    /\ DOMAIN mapped = UNION {ExternalIds(Src[k]) : k \in DOMAIN stack}
    /\ \A k \in DOMAIN stack : \A i \in External(Src[k]) :
         has_edge(sub, mapped[Src[k].in[i]], stack[k], i)

\* create_new_graph and its tests: every graph that enters the heap has its
\* operators wired completely, with no edge to an operator that was replaced.
CandidatesWellFormed ==
  /\ TypeOK
  /\ phase \in {"pop", "done"} => \A g \in cands \cup {best} : WellFormed(g, kind)

\* A substitution keeps what the graph computes: every graph of the search gives
\* the outputs of the graph optimize was called on.
MeaningKept ==
  phase \in {"pop", "done"} =>
    \A leaf \in Samples :
      LET wanted == Meaning(origin, kind, leaf)
      IN  \A g \in cands \cup {best} : Meaning(g, kind, leaf) = wanted

\* optimize compares each graph it pops before it looks at the budget: when the
\* search ends, the graph it pops last and those it leaves in the heap are not
\* cheaper than the one it returns.
BestLeavesNoCheaper ==
  [][phase' = "done" => \A g \in cands : total_cost(best') <= total_cost(g)]_vars

\* The backtracking and the budget end: optimize returns or raises.
SearchEnds == <>(phase \notin {"pop", "run"})

=============================================================================
