--------------------------- MODULE MCControlPackets ---------------------------
(* Scale 2.  A flight level and forwards, and one on which An turns back and   *)
(* climbs; the components of a position or velocity differ from each other.    *)
EXTENDS ControlPackets

Along(x, y, z) == [x |-> x, y |-> y, z |-> z]

mcElsewhere == <<"loopback", "loopback">>
mcSpeeds == {-3, 0, 1, 2}
mcCoordinates == {1, 2, 4, 6}
mcFlights == {[pos |-> Along(1, 2, 4), vel |-> Along(2, 0, 1)],
              [pos |-> Along(6, 4, 2), vel |-> Along(-3, 1, 2)]}
mcUndefined == {Along(0, 0, 0), Along(3, 3, 3)}
mcParked == [n \in {Gs, Me} |-> IF n = Gs THEN Along(4, 4, 1) ELSE Along(2, 6, 1)]
=============================================================================
