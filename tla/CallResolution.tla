--------------------------- MODULE CallResolution ---------------------------
(***************************************************************************)
(* The static resolution of Python calls in one snapshot                   *)
(* (src/src/codekg/resolver.py).  A dotted name is the sequence of its     *)
(* parts, a symbol's key <<path, qname, line>>.  A file is a record        *)
(*   path, module, imports (sequence of [module, name, alias]), symbols    *)
(*   (set of [kind, qname, line, parent, returns]), bases (sequence of     *)
(*   [type, name, qname]), calls (set of [owner, raw, name, hint,          *)
(*   receiver, at]) and bindings (sequence of [owner, target, kind, name,  *)
(*   hint, annotation, at, guarded]);                                      *)
(* an index has the snapshot's files, the symbols' references (refs) and   *)
(* those that may own a call (owners).                                     *)
(***************************************************************************)
EXTENDS Integers, SequencesExt, TLC, Requests

CONSTANTS
  TypeGraphs,   \* snapshots whose types' linearizations are asked for
  MroCacheCap,  \* _mro_cache_limit
  MroLength     \* _mro_cache_max_length

Incomplete == None

Ref(f, y) == [key |-> <<f.path, y.qname, y.line>>, qname |-> y.qname, path |-> f.path,
              kind |-> y.kind, parent |-> y.parent, returns |-> y.returns]
Refs(s) == UNION {{Ref(f, y) : y \in f.symbols} : f \in ToSet(s)}
InitKey(f) == <<f.path, "module-init">>
InitOwner(f) == [key |-> InitKey(f), qname |-> Append(f.module, "__module__"),
                 path |-> f.path, kind |-> "init", parent |-> None, returns |-> None]

InMemoryIndex(s) ==
  [files |-> s, refs |-> Refs(s),
   owners |-> {r \in Refs(s) : r.kind # "type"} \cup {InitOwner(f) : f \in ToSet(s)}]
(* The registry finds the owners of a call among all the symbols of a file.  *)
RegistryIndex(s) ==
  [files |-> s, refs |-> Refs(s), owners |-> Refs(s) \cup {InitOwner(f) : f \in ToSet(s)}]

Owners(ix, path, q) == {r \in ix.owners : r.path = path /\ r.qname = q}
Callables(ix, qs) == {r \in ix.refs : r.qname \in qs /\ r.kind # "type"}
Types(ix, qs) == {r \in ix.refs : r.qname \in qs /\ r.kind = "type"}
The(set) == CHOOSE x \in set : TRUE
Keys(refs) == {r.key : r \in refs}
FileAt(ix, path) == ix.files[CHOOSE n \in DOMAIN ix.files : ix.files[n].path = path]

(* What the names that a file imports stand for: a from-import rebinds its
   name, an import leaves it if it is bound.                                 *)
Bind(b, i) ==
  IF i.name = <<"*">> THEN b
  ELSE IF i.name = i.module
  THEN b @@ (IF i.alias = None THEN i.module[1] :> <<i.module[1]>> ELSE i.alias :> i.module)
  ELSE ((IF i.alias = None THEN i.name[1] ELSE i.alias) :> i.module \o i.name) @@ b
Bindings(f) == FoldLeft(Bind, <<>>, f.imports)
Through(b, raw) == IF raw # <<>> /\ raw[1] \in DOMAIN b THEN {b[raw[1]] \o Tail(raw)} ELSE {}

(* The functions a bare name may be, in the enclosing functions and the
   module.                                                                   *)
EnclosingScopes(owner) ==
  {owner} \cup {SubSeq(owner, 1, n - 1) : n \in {m \in DOMAIN owner : owner[m] = "<locals>"}}
LexicalCandidates(owner, module, name) ==
  {s \o <<"<locals>", name>> : s \in {t \in EnclosingScopes(owner) : IsStrictPrefix(module, t)}}
  \cup {Append(module, name)}

(***************************************************************************)
(* Types: annotations, bases, and the linearization of the ancestors.      *)
(***************************************************************************)
AnnotationType(ix, f, annotation) ==
  LET found == Types(ix, {annotation} \cup Through(Bindings(f), annotation)
                          \cup (IF Len(annotation) = 1 THEN {f.module \o annotation} ELSE {}))
  IN  IF annotation # None /\ Cardinality(found) = 1 THEN The(found).qname ELSE None

BaseCandidates(base, b) ==
  ({base.qname} \ {None})
  \cup (IF base.qname # None /\ Len(base.qname) > 1 THEN Through(b, base.qname) ELSE {})
  \cup Through(b, <<base.name>>)

(* The direct bases of a type, in the order of the source, or Incomplete.    *)
KnownBases(types) ==
  IF \E n \in DOMAIN types : Cardinality(types[n]) # 1 THEN Incomplete
  ELSE [n \in DOMAIN types |-> The(types[n]).qname]
BasesOf(ix, t) ==
  LET of(f) == SelectSeq(f.bases, LAMBDA base : base.type = t)
      parents(f) == [n \in DOMAIN of(f) |-> Types(ix, BaseCandidates(of(f)[n], Bindings(f)))]
  IN  IF Cardinality(Types(ix, {t})) # 1 THEN Incomplete
      ELSE KnownBases(FlattenSeq([n \in DOMAIN ix.files |-> parents(ix.files[n])]))

C3(sequences) ==
  LET names == UNION {ToSet(s) : s \in ToSet(sequences)}
      merged[left \in Seq(Seq(names))] ==
        LET pending == SelectSeq(left, LAMBDA s : s # <<>>)
            heads == {n \in DOMAIN pending : \A m \in DOMAIN pending :
                                               pending[n][1] \notin ToSet(Tail(pending[m]))}
            next == pending[Min(heads)][1]
            rest == merged[[n \in DOMAIN pending |-> SelectSeq(pending[n], LAMBDA t : t # next)]]
        IN  IF pending = <<>> THEN <<>>
            ELSE IF heads = {} THEN Incomplete
            ELSE IF rest = Incomplete THEN Incomplete ELSE <<next>> \o rest
  IN  merged[sequences]

(* The cache is a sequence of [type, mro], the one used last at its end; an
   answer comes with the cache after it.                                     *)
Cached(cache, t) == SelectSeq(cache, LAMBDA e : e.type = t)
(* Faulty variant: an answer that is too long is kept, cut off.              *)
RememberCut(cache, t, mro) ==
  LET cut == IF mro # Incomplete /\ Len(mro) > MroLength THEN SubSeq(mro, 1, MroLength) ELSE mro
      kept == SelectSeq(cache, LAMBDA e : e.type # t) \o <<[type |-> t, mro |-> cut]>>
  IN  SubSeq(kept, 1 + IF Len(kept) > MroCacheCap THEN 1 ELSE 0, Len(kept))

Remember(cache, t, mro) ==
  LET kept == SelectSeq(cache, LAMBDA e : e.type # t) \o <<[type |-> t, mro |-> mro]>>
  IN  IF mro # Incomplete /\ Len(mro) > MroLength THEN cache
      ELSE SubSeq(kept, 1 + IF Len(kept) > MroCacheCap THEN 1 ELSE 0, Len(kept))
Answered(cache, t, mro) == [mro |-> mro, cache |-> Remember(cache, t, mro)]

StartingWith(t, merged) == IF merged = Incomplete THEN Incomplete ELSE <<t>> \o merged
Combined(t, bases, all) ==
  Answered(all.cache, t, IF all.failed THEN Incomplete ELSE StartingWith(t, C3(Append(all.mros, bases))))

(* One type: from the cache, broken off in a cycle, or from those of its
   bases, which are asked for with of.                                       *)
Linearize(of, t, bases, active, cache) ==
  LET after(acc, a) == [failed |-> a.mro = Incomplete, mros |-> Append(acc.mros, a.mro), cache |-> a.cache]
      step(acc, p) == IF acc.failed THEN acc ELSE after(acc, of[p, active \cup {t}, acc.cache])
  IN  IF bases = Incomplete THEN Answered(cache, t, Incomplete)
      ELSE Combined(t, bases, FoldLeft(step, [failed |-> FALSE, mros |-> <<>>, cache |-> cache], bases))
Mro(ix, type, known) ==
  LET names == {type} \cup {r.qname : r \in ix.refs}
      of[t \in names, active \in SUBSET names,
         cache \in Seq([type : names, mro : {Incomplete} \cup Seq(names)])] ==
        IF Cached(cache, t) # <<>>
        THEN [mro |-> Cached(cache, t)[1].mro,
              cache |-> SelectSeq(cache, LAMBDA e : e.type # t) \o Cached(cache, t)]
        ELSE IF t \in active THEN Answered(cache, t, Incomplete)
        ELSE Linearize(of, t, BasesOf(ix, t), active, cache)
  IN  of[type, {}, known]
Ancestors(ix, t) == Mro(ix, t, <<>>).mro

(***************************************************************************)
(* The methods of a type and of its ancestors.                             *)
(***************************************************************************)
MethodsOf(ix, t, name) ==
  {r \in Callables(ix, {Append(t, name)}) : r.kind = "method" /\ r.parent = t}
Inherited(ix, ancestors, name) ==
  LET having == {n \in 2..Len(ancestors) : MethodsOf(ix, ancestors[n], name) # {}}
  IN  IF having = {} THEN {} ELSE MethodsOf(ix, ancestors[Min(having)], name)

Resolution(owner, status, refs) ==
  [owner |-> owner, status |-> status, candidates |-> Keys(refs),
   target |-> IF Cardinality(refs) = 1 THEN The(refs).key ELSE None,
   constructs |-> None, initializer |-> None]
Unresolved(owner, status) == Resolution(owner, status, {})
OneOf(owner, status, refs) ==
  Resolution(owner, IF Cardinality(refs) = 1 THEN status ELSE "ambiguous", refs)

(* A method of the type, or of its nearest ancestor that has one.            *)
InheritedMethod(ix, owner, ancestors, name, status) ==
  IF ancestors = Incomplete THEN Unresolved(owner, "mro_incomplete")
  ELSE IF Inherited(ix, ancestors, name) = {} THEN Unresolved(owner, "unresolved")
  ELSE OneOf(owner, status, Inherited(ix, ancestors, name))
MethodCall(ix, owner, t, name, ownStatus, inheritedStatus) ==
  IF ownStatus # None /\ MethodsOf(ix, t, name) # {}
  THEN OneOf(owner, ownStatus, MethodsOf(ix, t, name))
  ELSE InheritedMethod(ix, owner, Ancestors(ix, t), name, inheritedStatus)

ReceiverMethod(ix, call, owner, super) ==
  IF super /\ call.raw[1] # "super()" THEN Unresolved(owner.key, "dynamic")
  ELSE IF owner.parent = None \/ Cardinality(Types(ix, {owner.parent})) # 1
  THEN Unresolved(owner.key, "unresolved")
  ELSE MethodCall(ix, owner.key, owner.parent, call.name,
                  IF super THEN None ELSE call.receiver \o "_direct",
                  IF super THEN "super_method" ELSE "inherited_method")

(***************************************************************************)
(* Local variables: the type the bindings before a call leave in a name.   *)
(***************************************************************************)
BindingCandidates(f, binding, owner) ==
  LET b == Bindings(f)
      raw == IF binding.hint # None THEN binding.hint ELSE <<binding.name>>
  IN  ({binding.hint} \ {None}) \cup LexicalCandidates(owner.qname, f.module, binding.name)
      \cup Through(b, raw) \cup Through(b, <<binding.name>>)

CallResultType(ix, f, binding, owner) ==
  LET result(types, factories) ==
        IF types # {} THEN (IF Cardinality(types) = 1 THEN The(types).qname ELSE None)
        ELSE IF Cardinality(factories) # 1 \/ The(factories).returns = None THEN None
        ELSE AnnotationType(ix, FileAt(ix, The(factories).path), The(factories).returns)
      called(candidates) == result(Types(ix, candidates), Callables(ix, candidates))
  IN  called(BindingCandidates(f, binding, owner))

BoundValue(ix, f, owner, types, binding) ==
  LET value == CASE binding.kind = "name" /\ binding.name \in DOMAIN types -> types[binding.name]
                 [] binding.kind = "call" -> CallResultType(ix, f, binding, owner)
                 [] OTHER -> None
      agreed(annotated) ==
        IF binding.kind = "annotation" \/ value = annotated THEN annotated ELSE None
  IN  IF binding.annotation = None THEN value ELSE agreed(AnnotationType(ix, f, binding.annotation))

(* Faulty variant: a binding in a branch counts like any other.              *)
BoundTypeInBranches(ix, f, owner, types, binding) == BoundValue(ix, f, owner, types, binding)

BoundType(ix, f, owner, types, binding) ==
  IF binding.guarded THEN None ELSE BoundValue(ix, f, owner, types, binding)

LocalReceiverType(ix, f, call, owner) ==
  LET before == SelectSeq(f.bindings, LAMBDA b : b.owner = call.owner /\ b.at < call.at)
      of(types) == IF call.raw[1] \in DOMAIN types THEN types[call.raw[1]] ELSE None
  IN  of(FoldLeft(LAMBDA known, b : (b.target :> BoundType(ix, f, owner, known, b)) @@ known,
                  <<>>, before))

(***************************************************************************)
(* A call by name: a constructor, a function, or nothing that is known.    *)
(***************************************************************************)
Initializer(ix, t) ==
  LET only(found) == IF Cardinality(found) = 1 THEN The(found).key ELSE None
      above(ancestors) ==
        IF ancestors = Incomplete THEN {} ELSE Inherited(ix, ancestors, "__init__")
  IN  only(IF MethodsOf(ix, t, "__init__") # {} THEN MethodsOf(ix, t, "__init__")
           ELSE above(Ancestors(ix, t)))

DirectCandidates(f, call, owner) ==
  LET b == Bindings(f)
  IN  ({call.hint} \ {None}) \cup Through(b, call.raw)
      \cup (IF call.receiver # "none" THEN {}
            ELSE LexicalCandidates(owner.qname, f.module, call.name) \cup Through(b, <<call.name>>))
Imported(f, call) ==
  Through(Bindings(f), call.raw)
  \cup (IF call.receiver = "none" THEN Through(Bindings(f), <<call.name>>) ELSE {})

ResolveDirect(ix, f, call, owner) ==
  LET how(refs) == IF The(refs).qname \in Imported(f, call) THEN "import" ELSE "local"
      direct(types, callables) ==
        IF Cardinality(types) > 1
        THEN [Resolution(owner.key, "constructor_ambiguous", types) EXCEPT !.target = None]
        ELSE IF types # {}
        THEN [Resolution(owner.key, "constructor_exact_" \o how(types), types) EXCEPT
                !.target = None, !.constructs = The(types).key,
                !.initializer = Initializer(ix, The(types).qname)]
        ELSE IF callables # {} THEN OneOf(owner.key, "exact_" \o how(callables), callables)
        ELSE Unresolved(owner.key,
               IF call.receiver \in {"dynamic", "attribute"} THEN "dynamic"
               ELSE IF call.raw[1] \in DOMAIN Bindings(f) THEN "external" ELSE "unresolved")
      named(candidates) ==
        direct(IF call.receiver \in {"none", "name"} THEN Types(ix, candidates) ELSE {},
               Callables(ix, candidates))
  IN  named(DirectCandidates(f, call, owner))

ResolveOwned(ix, f, call, owner) ==
  LET unlessLocal(local) ==
        IF local = None THEN ResolveDirect(ix, f, call, owner)
        ELSE MethodCall(ix, owner.key, local, call.name, "local_receiver", "local_receiver_inherited")
  IN  CASE call.receiver \in {"self", "cls"} /\ call.raw # <<call.receiver, call.name>> ->
             Unresolved(owner.key, "dynamic")
        [] call.receiver \in {"self", "cls", "super"} ->
             ReceiverMethod(ix, call, owner, call.receiver = "super")
        [] OTHER -> unlessLocal(IF call.receiver = "attribute" /\ Len(call.raw) = 2
                                THEN LocalReceiverType(ix, f, call, owner) ELSE None)

Resolve(ix, f, call) ==
  LET owned(owners) ==
        IF owners = {} THEN Unresolved(None, "owner_unresolved")
        ELSE IF Cardinality(owners) > 1
        THEN [Resolution(None, "owner_ambiguous", owners) EXCEPT !.target = None]
        ELSE ResolveOwned(ix, f, call, The(owners))
  IN  owned(Owners(ix, f.path, call.owner))

(***************************************************************************)
(* The linearizations of a snapshot's types, asked for in any order, from  *)
(* one cache.                                                              *)
(***************************************************************************)
MroInit ==
  /\ \E s \in TypeGraphs : request = [tool |-> "mro", snapshot |-> s, asked |-> None,
                                      mro |-> None, cache |-> <<>>, status |-> "new"]
  /\ progress = Idle

AskMro ==
  /\ request.tool = "mro"
  /\ \E t \in {r.qname : r \in Refs(request.snapshot)} :
       LET a == Mro(InMemoryIndex(request.snapshot), t, request.cache)
       IN  request' = [request EXCEPT !.asked = t, !.mro = a.mro, !.cache = a.cache]
  /\ UNCHANGED progress

MroNext == AskMro

(* The types that t inherits from, and whether each of them has known bases. *)
Above(ix, t) ==
  LET names == {t} \cup {r.qname : r \in ix.refs}
      bases(u) == IF BasesOf(ix, u) = Incomplete THEN {} ELSE ToSet(BasesOf(ix, u))
      above[found \in SUBSET names] ==
        LET more == found \cup UNION {bases(u) : u \in found} IN IF more = found THEN found ELSE above[more]
  IN  above[{t}]

(* An order of t and all above it that starts with t and keeps the order of
   its bases and that of the linearization of each of them.                  *)
Keeps(order, sub) == sub = SelectSeq(order, LAMBDA u : u \in ToSet(sub))
IsLinearization(ix, t, order) ==
  /\ order[1] = t /\ Keeps(order, BasesOf(ix, t))
  /\ \A u \in ToSet(BasesOf(ix, t)) : Ancestors(ix, u) # Incomplete /\ Keeps(order, Ancestors(ix, u))

(* Whatever was asked before and is still cached, a type has a linearization
   exactly if some order of all above it is one, and the answer is such an
   order (resolver.py:669-710, 820-838).  Thus a cycle met on the way
   to one type, or an evicted or over-long answer, never changes another.    *)
MroRight ==
  request.tool = "mro" /\ request.asked # None =>
    LET ix == InMemoryIndex(request.snapshot)
        orders == SetToSeqs(Above(ix, request.asked))
        right == IF BasesOf(ix, request.asked) = Incomplete THEN {}
                 ELSE {o \in orders : IsLinearization(ix, request.asked, o)}
    IN  IF request.mro = Incomplete THEN right = {} ELSE request.mro \in right
=============================================================================
