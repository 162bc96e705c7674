---------------------------- MODULE MC_SectorMerge ----------------------------
(* Instances of SectorMerge for TLC: three sectors, two helices. *)
EXTENDS SectorMerge

T(i, p, r, h) == [id |-> i, phi |-> p, eta |-> 1, rows |-> r, helix |-> h]
B(s, n, ts, hs) == [sector |-> s, tracks |-> ts, nTracks |-> n, hits |-> hs]

(* The helix "h" crosses all sectors, "g" two; there are tracks that are   *)
(* not to be merged, hits of no track and of tracks that do not exist,     *)
(* tracks whose ids are too large for the index or give them the id of one *)
(* of the next sector, and headers that state more tracks than a sector    *)
(* has places, with hits at those of the next sector and behind the index. *)
MCBanks == {
  B(1, 2, <<T(-1, 1, <<30, 45>>, "h"), T(2, 3, <<1, 40>>, "g")>>, <<1, 2, 0, 1>>),
  B(1, 6, <<T(-1, 2, <<30, 45>>, "h"), T(-12, 4, <<30, 45>>, "g")>>, <<1, 5, 6>>),
  B(2, 3, <<T(-1, 2, <<10, 30>>, "h"), T(-2, 2, <<15, 45>>, "g"), T(-4, 3, <<1, 9>>, "g")>>, <<2, 1, 4, 3>>),
  B(2, 2, <<T(-2, 2, <<10, 20>>, "h"), T(-1, 3, <<5, 45>>, "g")>>, <<1, 2, 5, -1>>),
  B(3, 4, <<T(-1, 2, <<1, 10>>, "h"), T(-2, 4, <<1, 15>>, "g")>>, <<4, 2>>),
  B(3, 2, <<T(-2, 2, <<1, 10>>, "g"), T(-1, 4, <<1, 10>>, "g"), T(3, 4, <<1, 12>>, "h")>>, <<2, 1>>)}
=============================================================================
