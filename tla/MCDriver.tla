------------------------------ MODULE MCDriver ------------------------------
(***************************************************************************)
(* Small grounds for the tanks.                                            *)
(***************************************************************************)
EXTENDS Driver, TLC

Pad(k0, k1) == [i \in Slots |-> CASE i = 0 -> k0 [] i = 1 -> k1 [] OTHER -> NoKey]

\* no key, one steering key, the fire key beside some of them; two keys at once
FirePads == {Pad(k, NoKey) : k \in {NoKey, 26, 4, 22, 7}} \cup {Pad(k, 44) : k \in {26, 7, OKey}}
                \cup {Pad(4, 22)}

\* player 1 drives up and fires while player 2 steers: the key of player 2 is the
\* second or the third of the keys that are held
SharedPads == {[i \in Slots |-> IF i \in DOMAIN s THEN s[i] ELSE NoKey] :
                 s \in UNION {{0 :> 26 @@ 1 :> 44 @@ 2 :> k, 0 :> 26 @@ 1 :> k} :
                              k \in {82, 80, 81, 79}}}

\* a ground of 4 x 4 cells, 8 x 8 pixels, with a wall around it
Border == {a \in 0..15 : a % 4 \in {0, 3} \/ a \div 4 \in {0, 3}}

StartInYard == [t \in Tanks |-> <<3, 3>>]
=============================================================================
