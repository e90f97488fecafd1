-------------------------- MODULE MCCommunityResolver --------------------------
(***************************************************************************)
(* Communities and requests for TLC: rivals that share a name and differ   *)
(* in every kind of evidence, one that is renamed, one of another city.    *)
(***************************************************************************)
EXTENDS CommunityResolver

CONSTANTS c1, c2, here, across, far, nat

\* "N" and "D" are other spellings of "n" and "d".
MCTexts == {"n", "N", "m", "d", "D", "e", "s", "t", "a"}
MCNormal == [x \in MCTexts |-> CASE x = "N" -> "n" [] x = "D" -> "d" [] OTHER -> x]
MCNear == {<<p, p>> : p \in Places}
          \union {<<here, across>>, <<across, here>>}

Plain == [city |-> c1, name |-> "n", district |-> Null, subdistrict |-> Null,
          address |-> Null, place |-> Null]
Full  == [Plain EXCEPT !.district = "d", !.subdistrict = "s", !.address = "a",
                       !.place = here]

MCRegistered == {
    Full,
    [Full EXCEPT !.name = "N", !.subdistrict = "t",     \* another spelling
                 !.place = across],
    [Full EXCEPT !.district = "e"],
    [Plain EXCEPT !.district = "e"],
    [Full EXCEPT !.place = far],
    [Plain EXCEPT !.district = "D"],
    [Full EXCEPT !.name = "m"],                         \* renamed
    [Full EXCEPT !.city = c2]                           \* moved to another city
}

MCRequests ==
    [city : {c1}, query : {"n"}, district : {Null, "d"}, subdistrict : {"s"},
     address : {"a"}, place : {Null, here}, native : {Null}]
    \union [city : {c1, c2}, query : {"N"}, district : {"D"}, subdistrict : {Null},
            address : {Null}, place : {far}, native : {Null, nat}]
=============================================================================
