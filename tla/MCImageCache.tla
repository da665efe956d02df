---------------------------- MODULE MCImageCache ----------------------------
(* Instances of ImageCache for TLC. *)
EXTENDS ImageCache, TLC

CONSTANTS s1, s2, u1, u2, small, large

MCSize == small :> 1 @@ large :> 2

(* The second service has its memory cache turned off.                     *)
MCMemoryMax == s1 :> 2 @@ s2 :> 0

(* Bound: the memory cache, which the disk reaches only through a hit, is  *)
(* filled while the other service leaves the disk alone and nothing has    *)
(* failed.  Torn bytes reach it: two services at one URL leave them too.   *)
MemoryAlone ==
  \A s, t \in Services : recent[s] # <<>> /\ t # s => op[t] = Idle /\ faults = 0

UrlSymmetry == Permutations(Urls)
=============================================================================
