------------------------- MODULE CatalogComparison -------------------------
(***************************************************************************)
(* compare_database_catalogs (src/src/codekg/federation.py:580-790): the   *)
(* routines and native functions of two snapshots, grouped by a logical     *)
(* identity and compared; the differences are paged by offset.  A client    *)
(* asks page after page, and the server may be restarted in between.        *)
(*                                                                         *)
(* A fact is [kind, identity, name, symbol, meaning, declaration]: `symbol`  *)
(* tells a native function from a macro, `meaning` is the record of the     *)
(* compared columns (signature with return type, condition, body,           *)
(* definition), `declaration` is TRUE of a native prototype.                *)
(***************************************************************************)
EXTENDS Integers, RowSelection, Requests

CONSTANTS
  Registries,   \* the registries a server may be started with
  CorpusOf,     \* CorpusOf[d]["left" or "right"]: [generation, file, logical, alias, facts]
  PageLimits,   \* limits a client asks for (1..100)
  MaxOffset,    \* 10000 in the code
  IdentityOrder \* the sort order of <<kind, identity>>

(* The facts that take part: prototypes only of what is not defined; a macro
   of its name does not define a function.                                   *)
Facts(corpus) ==
  {f \in corpus.facts : \/ f.kind = "routine" \/ ~f.declaration
                        \/ ~\E g \in corpus.facts : /\ g.kind = "native" /\ ~g.declaration
                                                    /\ g.name = f.name /\ g.symbol = f.symbol}

Identity(f) == <<f.kind, f.identity>>
Meanings(corpus, id) == {f.meaning : f \in {g \in Facts(corpus) : Identity(g) = id}}

Kinds(l, r) ==
  IF l.signature # r.signature THEN "signature_changed"
  ELSE IF l.condition # r.condition THEN "condition_changed"
  ELSE IF l.body # r.body THEN "body_changed"
  ELSE IF l.definition # r.definition THEN "definition_changed"
  ELSE "unchanged"

(* Faulty variant: of several meanings, one is compared.                     *)
ChangeOfOne(ls, rs) ==
  IF ls = {} THEN "added"
  ELSE IF rs = {} THEN "removed"
  ELSE Kinds(CHOOSE l \in ls : TRUE, CHOOSE r \in rs : TRUE)

Change(ls, rs) ==
  IF Cardinality(ls) > 1 \/ Cardinality(rs) > 1 THEN "ambiguous"
  ELSE IF ls = {} THEN "added"
  ELSE IF rs = {} THEN "removed"
  ELSE Kinds(CHOOSE l \in ls : TRUE, CHOOSE r \in rs : TRUE)

(* What an identity's row says, and whether it has one.                      *)
Compared(l, r, id) == [id |-> id, change |-> Change(Meanings(l, id), Meanings(r, id))]
Differs(l, r, id) ==
  /\ Meanings(l, id) # {} \/ Meanings(r, id) # {}
  /\ Compared(l, r, id).change # "unchanged"

(* The whole ordered difference; the same scope is not compared with itself. *)
SameScope(l, r) == l.alias = r.alias /\ l.generation = r.generation /\ l.file = r.file
Rows(l, r) ==
  LET ids == Among(IdentityOrder, {id \in ToSet(IdentityOrder) : Differs(l, r, id)})
  IN  [n \in DOMAIN ids |-> Compared(l, r, ids[n])]
Difference(l, r) == IF SameScope(l, r) THEN <<>> ELSE Rows(l, r)

-----------------------------------------------------------------------------
(* A registry's two graphs name their generations, and a generation has one
   content: with the client's aliases it determines the facts.               *)
SidesOf(d) == <<CorpusOf[d]["left"].generation, CorpusOf[d]["right"].generation>>
ASSUME ComparisonAssumption ==
  /\ PageLimits \subseteq Nat \ {0} /\ MaxOffset \in Nat
  /\ IdentityOrder \in Seq(ToSet(IdentityOrder))
  /\ \A d, e \in Registries : SidesOf(d) = SidesOf(e) => CorpusOf[d] = CorpusOf[e]
  /\ \A d \in Registries : SameScope(CorpusOf[d]["left"], CorpusOf[d]["right"]) =>
        CorpusOf[d]["left"].facts = CorpusOf[d]["right"].facts
  /\ \A d \in Registries, side \in {"left", "right"} :
        /\ IsFiniteSet(CorpusOf[d][side].facts)
        /\ \A f \in CorpusOf[d][side].facts :
             f.meaning = [signature |-> f.meaning.signature, condition |-> f.meaning.condition,
                          body |-> f.meaning.body, definition |-> f.meaning.definition]

Left == CorpusOf[request.served]["left"]
Right == CorpusOf[request.served]["right"]
Sides == SidesOf(request.served)

(* request.offset: where the next page begins; changes: the rows so far;
   origins: the generation ids the pages named.                             *)
ComparisonInit ==
  /\ \E d \in Registries, limit \in PageLimits :
       request = [tool |-> "compare", served |-> d, limit |-> limit, offset |-> 0,
                  changes |-> <<>>, origins |-> {}, status |-> "new"]
  /\ progress = Idle

(* compare_database_catalogs: one page.                                      *)
ReadPage(rows) ==
  LET page == Window(rows, request.offset, request.limit)
  IN  request' = [request EXCEPT
                    !.changes = @ \o page, !.origins = @ \cup {Sides},
                    !.offset = @ + Len(page),
                    !.status = IF Len(page) = request.limit THEN "more" ELSE "complete"]

ComparePage ==
  /\ progress.pc = "idle" /\ request.tool = "compare" /\ request.status \in {"new", "more"}
  /\ IF request.offset > MaxOffset \/ Left.logical # Right.logical
     THEN Answer("invalid_graph_or_context")
     ELSE ReadPage(Difference(Left, Right)) /\ UNCHANGED progress

CompareLate ==
  /\ progress.pc = "idle" /\ request.tool = "compare" /\ request.status \in {"new", "more"}
  /\ Answer("deadline_exceeded")

(* The server is restarted on another registry; nothing binds the offset.    *)
CompareRestart ==
  /\ progress.pc = "idle" /\ request.tool = "compare"
  /\ \E d \in Registries \ {request.served} : request' = [request EXCEPT !.served = d]
  /\ UNCHANGED progress

ComparisonNext == ComparePage \/ CompareLate \/ CompareRestart

ComparisonSpec == ComparisonInit /\ [][ComparisonNext]_vars

-----------------------------------------------------------------------------
Mirror(change) == CASE change = "added" -> "removed" [] change = "removed" -> "added"
                    [] OTHER -> change
Mirrored(rows) == [n \in DOMAIN rows |-> [rows[n] EXCEPT !.change = Mirror(@)]]

(* Pages that all name the same two generations add up to the whole of their
   difference, each row once; and had the question been put the other way
   round, it would have been answered by the same rows with additions and
   removals exchanged (federation.py:595-606, 735-770).                      *)
ComparisonConsistent ==
  request.tool = "compare" /\ request.status = "complete" /\ Cardinality(request.origins) = 1 =>
    \E d \in Registries :
      LET l == CorpusOf[d]["left"]  r == CorpusOf[d]["right"]
      IN  /\ request.origins = {<<l.generation, r.generation>>}
          /\ request.changes = Difference(l, r)
          /\ Mirrored(request.changes) = Difference(r, l)
          /\ \A id \in ToSet(IdentityOrder) :
               Meanings(l, id) # Meanings(r, id) => \E row \in ToSet(request.changes) : row.id = id
=============================================================================
