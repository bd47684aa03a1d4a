------------------------------- MODULE MCSlugPage -------------------------------
(* A small instance of SlugPage for TLC: two slugs whose clips live for two *)
(* ticks and for three, the browser's clock two ticks ahead of the server's *)
(* or two ticks behind.                                                    *)
EXTENDS SlugPage, TLC

MCSlugs   == {"a", "b"}
MCLives   == [s \in MCSlugs |-> IF s = "a" THEN {2} ELSE {3}]
MCOffsets == {-2, 2}
================================================================================
