---------------------------- MODULE ReceiverTyping ----------------------------
(***************************************************************************)
(* What the extractor records of the local variables of a function         *)
(* (src/src/codekg/ingest.py), from which the resolver concludes the type  *)
(* of a call's receiver (CallResolution), against what the function does   *)
(* when it runs.                                                           *)
(*                                                                         *)
(* A statement is [do, to, value, blocks]: what it does, the name it binds *)
(* (or the comprehension's target, or the receiver of the call), the value *)
(* it binds it to, and the blocks it contains:                             *)
(*   "assign" to := value, "annotate" to : value.as = value,               *)
(*   "lose" any other binding (tuple, augmented, walrus, del),             *)
(*   "define" an import, def or class of that name, "call" to.run(),       *)
(*   "if" <<body, orelse>>, "for" to <<body, orelse>>,                     *)
(*   "while" <<test, body, orelse>>, "with" ... as to <<body>>,            *)
(*   "try" <<body, handler of to, orelse, final>>, "match" to <<body>>,    *)
(*   "comp" over to <<element and conditions>>, "break".                   *)
(* A value is [is, of, as]: "call" of a class or a function, the "name" of *)
(* a variable, or "unknown"; `as` is the annotation or None.  A program    *)
(* has one "call".                                                         *)
(***************************************************************************)
EXTENDS CallResolution

CONSTANTS
  Programs,    \* records [body, parameters], the annotations of the parameters
  Surrounding, \* the file the function is in, without its calls and bindings
  Function     \* the function's qualified name

Binders == {"assign", "annotate", "lose", "define", "for", "with", "try", "match"}

(* The names that running the statements may bind again.                     *)
RECURSIVE Rebound(_)
Rebound(block) ==
  UNION {(IF s.do \in Binders THEN {s.to} \ {None} ELSE {})
         \cup UNION {Rebound(b) : b \in ToSet(s.blocks)} : s \in ToSet(block)}

(***************************************************************************)
(* The bindings and the call, in the order of their positions in the       *)
(* source.  guarded: under a condition; hidden: names that a comprehension *)
(* or a loop around the statement binds.                                   *)
(***************************************************************************)
LocalBinding(target, kind, name, annotation, guarded) ==
  [owner |-> Function, target |-> target, kind |-> kind, name |-> name,
   hint |-> IF kind = "call" THEN Append(Surrounding.module, name) ELSE None,
   annotation |-> annotation, guarded |-> guarded]
Recorded(s, kind, name, annotation, guarded) ==
  IF s.to = None THEN <<>> ELSE <<LocalBinding(s.to, kind, name, annotation, guarded)>>
Unknown(s, guarded) == Recorded(s, "unknown", None, None, guarded)
Receiver(s, hidden) ==
  LET dynamic == s.to \in hidden
  IN  <<[owner |-> Function, raw |-> <<s.to, "run">>, name |-> "run",
         hint |-> IF dynamic THEN None ELSE <<s.to, "run">>,
         receiver |-> IF dynamic THEN "dynamic" ELSE "attribute"]>>

RECURSIVE Extracted(_, _, _)
Visited(s, guarded, hidden) ==
  LET value == IF s.do \in {"assign", "annotate"} THEN s.value ELSE None
      block(n, more) == Extracted(s.blocks[n], TRUE, hidden \cup more)
      rebound == Rebound(s.blocks[1])
  IN  CASE s.do \in {"assign", "annotate"} ->
             Recorded(s, value.is, IF value.is = "unknown" THEN None ELSE value.of, value.as, guarded)
        [] s.do = "lose" -> Unknown(s, guarded)
        [] s.do = "call" -> Receiver(s, hidden)
        [] s.do = "if" -> block(1, {}) \o block(2, {})
        [] s.do = "for" -> Unknown(s, TRUE) \o block(1, rebound \cup {s.to}) \o block(2, rebound \cup {s.to})
        [] s.do = "while" ->
             LET again == rebound \cup Rebound(s.blocks[2])
             IN  Extracted(s.blocks[1], guarded, hidden \cup again) \o block(2, again) \o block(3, again)
        [] s.do = "with" -> Unknown(s, guarded) \o Extracted(s.blocks[1], guarded, hidden)
        [] s.do = "try" -> block(1, {}) \o block(2, {}) \o Unknown(s, TRUE) \o block(3, {}) \o block(4, {})
        [] s.do = "match" -> Unknown(s, TRUE) \o block(1, {})
        [] s.do = "comp" -> Extracted(s.blocks[1], guarded, hidden \cup rebound \cup {s.to})
        [] OTHER -> <<>>
Extracted(block, guarded, hidden) ==
  FlattenSeq([n \in DOMAIN block |-> Visited(block[n], guarded, hidden)])

Parameters(p) ==
  LET names == SetToSeq(DOMAIN p.parameters)
  IN  [n \in DOMAIN names |-> LocalBinding(names[n], "annotation", None, p.parameters[names[n]], FALSE)]
ScannedFile(p) ==
  LET events == Parameters(p) \o Extracted(p.body, FALSE, {})
      placed == [n \in DOMAIN events |-> events[n] @@ [at |-> n]]
      isCall(e) == "raw" \in DOMAIN e
  IN  [Surrounding EXCEPT !.calls = {e \in ToSet(placed) : isCall(e)},
                          !.bindings = SelectSeq(placed, LAMBDA e : ~isCall(e))]
(* The method that the call of the program is resolved to, or None.          *)
Claim(p) ==
  LET f == ScannedFile(p)
      claimed(r) == IF r.status \in {"local_receiver", "local_receiver_inherited"} THEN r.target ELSE None
  IN  claimed(Resolve(InMemoryIndex(<<f>>), f, The(f.calls)))

(***************************************************************************)
(* The function runs: a variable holds an object of a type, or another one *)
(* (None).  todo: what is left to do, the innermost first.  "repeat" ends  *)
(* the body of a loop, "tried" that of a try, "final" is its last block.   *)
(* A parameter's annotation and a function's are what it gets and returns, *)
(* and no with statement stops an exception.                               *)
(***************************************************************************)
Do(what, to, value, blocks) == [do |-> what, to |-> to, value |-> value, blocks |-> blocks]
Lose(s) == IF s.to = None THEN <<>> ELSE <<Do("lose", s.to, None, <<>>)>>
Value(env, v) ==
  CASE v.is = "name" -> IF v.of \in DOMAIN env THEN env[v.of] ELSE None
    [] v.is = "call" -> LET q == Append(Surrounding.module, v.of)
                            made == {y \in Surrounding.symbols : y.qname = q}
                        IN  IF The(made).kind = "type" THEN q ELSE Surrounding.module \o The(made).returns
    [] OTHER -> None

(* An exception, or a break, leaves everything up to who stops it.           *)
Unwound(todo, what) ==
  LET stops == {n \in DOMAIN todo : todo[n].do \in {"tried", "final"} \cup (IF what = "break" THEN {"repeat"} ELSE {})}
      n == Min(stops)
      rest == SubSeq(todo, n + 1, Len(todo))
      leave == <<Do(what, None, None, <<>>)>>
      final == <<Do("final", None, None, <<todo[n].blocks[Len(todo[n].blocks)]>>)>>
  IN  IF stops = {} THEN {<<>>}
      ELSE CASE todo[n].do = "repeat" -> {rest}
             [] todo[n].do = "final" -> {todo[n].blocks[1] \o leave \o rest}
             [] what = "break" -> {todo[n].blocks[4] \o leave \o rest}
             [] OTHER -> {todo[n].blocks[4] \o leave \o rest,
                          Lose(todo[n]) \o todo[n].blocks[2] \o Lose(todo[n]) \o final \o rest}

(* What may be left to do after a compound statement began.                  *)
Ways(s, rest) ==
  LET again == <<Do("repeat", None, None, <<<<s>>>>)>>
  IN  CASE s.do = "if" -> {s.blocks[1] \o rest, s.blocks[2] \o rest}
        [] s.do = "for" -> {Lose(s) \o s.blocks[1] \o again \o rest, s.blocks[2] \o rest}
        [] s.do = "while" -> {s.blocks[1] \o <<Do("if", None, None, <<s.blocks[2] \o again, s.blocks[3]>>)>> \o rest}
        [] s.do = "with" -> {Lose(s) \o s.blocks[1] \o rest}
        [] s.do = "try" -> {s.blocks[1] \o <<[s EXCEPT !.do = "tried"]>> \o rest}
        [] s.do = "tried" -> {s.blocks[3] \o <<Do("final", None, None, <<s.blocks[4]>>)>> \o rest}
        [] s.do = "match" -> {Lose(s) \o s.blocks[1] \o rest, rest}
        [] s.do \in {"repeat", "final"} -> {s.blocks[1] \o rest}
        [] s.do \in {"break", "raise"} -> Unwound(rest, s.do)
        [] OTHER -> {rest}

ReceiverInit ==
  /\ \E p \in Programs :
       /\ request = [tool |-> "receiver", program |-> p, claim |-> Claim(p), status |-> "new"]
       /\ progress = [pc |-> "receiver.run", todo |-> p.body,
                      env |-> [x \in DOMAIN p.parameters |-> Surrounding.module \o p.parameters[x]]]

Leaves(env, todo) ==
  /\ progress' = [progress EXCEPT !.env = env, !.todo = todo]
  /\ UNCHANGED request
Assign ==
  /\ progress.pc = "receiver.run" /\ progress.todo # <<>>
  /\ LET s == Head(progress.todo)
     IN  /\ s.do \in {"assign", "annotate", "lose", "define"}
         /\ Leaves((s.to :> IF s.do \in {"assign", "annotate"} THEN Value(progress.env, s.value) ELSE None)
                     @@ progress.env, Tail(progress.todo))
(* The target of a comprehension is its own.                                 *)
Comprehend ==
  /\ progress.pc = "receiver.run" /\ progress.todo # <<>>
  /\ LET s == Head(progress.todo)
         outer == Value(progress.env, [is |-> "name", of |-> s.to])
     IN  \/ /\ s.do = "comp"
            /\ Leaves(progress.env, <<Do("next", s.to, outer, s.blocks)>> \o Tail(progress.todo))
         \/ /\ s.do = "next"
            /\ \/ Leaves((s.to :> None) @@ progress.env, s.blocks[1] \o progress.todo)
               \/ Leaves((s.to :> s.value) @@ progress.env, Tail(progress.todo))
Enter ==
  /\ progress.pc = "receiver.run" /\ progress.todo # <<>>
  /\ Head(progress.todo).do \notin {"assign", "annotate", "lose", "define", "comp", "next"}
  /\ \E left \in Ways(Head(progress.todo), Tail(progress.todo)) : Leaves(progress.env, left)
Raise ==
  /\ progress.pc = "receiver.run" /\ progress.todo # <<>>
  /\ Head(progress.todo).do \in {"assign", "call"}
  /\ \E left \in Unwound(progress.todo, "raise") : Leaves(progress.env, left)

ReceiverNext == Assign \/ Comprehend \/ Enter \/ Raise

-----------------------------------------------------------------------------
RunMethod(t) ==
  IF t = None THEN None
  ELSE MethodCall(InMemoryIndex(<<Surrounding>>), None, t, "run", "run", "run").target

(* Whatever path a function takes, through branches, loops, exceptions and
   breaks, a call that the resolver has given an exact method on a local
   variable calls that method (kg-model-detailed-spec.md:31: EXACT_CALLS only
   for an exact resolution; resolver.py:391-443, ingest.py:529-609).         *)
ReceiverTyped ==
  request.tool = "receiver" /\ request.claim # None /\ progress.todo # <<>>
    /\ Head(progress.todo).do = "call" /\ Head(progress.todo).to \in DOMAIN progress.env =>
       RunMethod(progress.env[Head(progress.todo).to]) = request.claim

(* The extractor records no import, def or class that binds a local name
   again, and the name of an exception only at the end of its handler.       *)
RECURSIVE Defines(_)
Defines(block) ==
  \E s \in ToSet(block) : s.do = "define" \/ \E b \in ToSet(s.blocks) : Defines(b)
RECURSIVE UsesCaught(_)
UsesCaught(block) ==
  \E s \in ToSet(block) :
    \/ s.do = "try" /\ \E c \in ToSet(s.blocks[2]) : c.do = "call" /\ c.to = s.to
    \/ \E b \in ToSet(s.blocks) : UsesCaught(b)
(* ... which holds of every function without these (ingest.py:283-359) ...   *)
ReceiverRight ==
  request.tool = "receiver" /\ ~Defines(request.program.body) /\ ~UsesCaught(request.program.body) =>
    ReceiverTyped
(* ... and not of a handler that calls the exception it caught
   (ingest.py:328-340; kg-model-detailed-spec.md:31).                        *)
CaughtReceiverTyped ==
  request.tool = "receiver" /\ ~Defines(request.program.body) => ReceiverTyped
=============================================================================
