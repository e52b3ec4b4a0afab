------------------------------ MODULE MCStores ------------------------------
(* The two stores that keep state over failures, side by side: the caching  *)
(* line store, with one market of two sides and two readers, and the CSV    *)
(* bet store, with two bets and up to two faults.                           *)
EXTENDS LineCache, CSVBetStore, TLC

\* They share nothing, and each property is about one of them: it is enough that
\* either moves while the other has its initial state.
NoFileYet == header = "absent" /\ ~opened /\ op = Idle /\ faults = 0
StoresNext ==
    \/ NoFileYet /\ CacheNext /\ UNCHANGED vars
    \/ CacheInit /\ Next /\ UNCHANGED cacheVars

StoresInit == Init /\ CacheInit
Stores == StoresInit /\ [][StoresNext]_<<cacheVars, vars>>

\* Readers are interchangeable; so are the sides of the market, and the bets.
Symmetry == Permutations(Reader) \union Permutations(Side) \union Permutations(Id)
=============================================================================
