---------------------------- MODULE DictTheorems ----------------------------
(***************************************************************************)
(* What the operations on dictionaries do to the domain and to the values. *)
(***************************************************************************)
EXTENDS Dict, TLAPS

\* The empty dictionary has every type.
LEMMA EmptyDict ==
  ASSUME NEW S, NEW T
  PROVE  IsDict(Empty, S, T) /\ DOMAIN Empty = {}
  BY DEF IsDict, Empty

\* A dictionary stays well typed when a well-typed pair is put into it.
LEMMA PutDict ==
  ASSUME NEW S, NEW T, NEW f, IsDict(f, S, T), NEW x \in S, NEW v \in T
  PROVE  IsDict(Put(f, x, v), S, T)
  BY DEF IsDict, Put

\* A dictionary stays well typed when a key is dropped from it.
LEMMA DropDict ==
  ASSUME NEW S, NEW T, NEW f, IsDict(f, S, T), NEW x
  PROVE  IsDict(Drop(f, x), S, T)
  BY DEF IsDict, Drop

\* Looking up a present key gives a well-typed value.
LEMMA DictValue ==
  ASSUME NEW S, NEW T, NEW f, IsDict(f, S, T), NEW x \in DOMAIN f
  PROVE  x \in S /\ f[x] \in T
  BY DEF IsDict
=============================================================================
