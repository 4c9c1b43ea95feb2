---------------------------- MODULE MCOotxLink ----------------------------
(* OotxLink on a small instance: a payload of one byte, and a CRC with a   *)
(* byte of zeros, the longest row of them there can be.                    *)
EXTENDS OotxLink

MCPayload == <<[i \in BitPos |-> (i + 1) % 2]>>
MCCrc     == [k \in 1 .. 4 |-> [i \in BitPos |-> IF k = 4 THEN 0 ELSE (i + k + 1) % 2]]

\* A perfect CRC: it matches the payload that is sent and no other.
MCCrcMatches(payload, crc) == payload = MCPayload /\ crc = MCCrc
=============================================================================
