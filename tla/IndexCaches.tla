---------------------------- MODULE IndexCaches ----------------------------
(***************************************************************************)
(* The index caches of the retrieval strategies, one beside the other: the *)
(* lexical one, which threads share (Bm25Cache), and the dense one, which  *)
(* the cells of one thread use in turn (EmbeddingIndex).  They share       *)
(* nothing; a behaviour is one of them.                                    *)
(***************************************************************************)
EXTENDS Bm25Cache, EmbeddingIndex

VARIABLE family     \* "lexical" or "dense"

allVars == <<family, vars, denseVars>>

(* The threads have not started. *)
NoLexical ==
  /\ variant = "bm25" /\ corpusCache = <<>> /\ cacheLock = None
  /\ pc = [w \in Workers |-> "ready"]
  /\ memories = [w \in Workers |-> <<>>]
  /\ entry = [w \in Workers |-> Nothing]

CachesInit ==
  /\ DenseInit
  /\ \/ family = "lexical" /\ Init
     \/ family = "dense" /\ NoLexical

IndexLexical == family = "lexical" /\ Next /\ UNCHANGED <<family, denseVars>>
IndexDense == family = "dense" /\ DenseNext /\ UNCHANGED <<family, vars>>

CachesNext == IndexLexical \/ IndexDense

CachesSpec == CachesInit /\ [][CachesNext]_allVars
=============================================================================
