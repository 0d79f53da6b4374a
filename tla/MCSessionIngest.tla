---------------------------- MODULE MCSessionIngest ----------------------------
(* Two photos, two seeders and two job rows: a second photo may arrive at   *)
(* any point of the first one's way.                                        *)
EXTENDS SessionIngest, TLC

=============================================================================
