-------------------------- MODULE MCSolanaWsClient --------------------------
(***************************************************************************)
(* Small instances of SolanaWsClient for TLC.  Each configuration opens    *)
(* the part of the client it asks about and bounds the rest with the       *)
(* constants; the closers are interchangeable.                             *)
(***************************************************************************)
EXTENDS SolanaWsClient, TLC

Symmetry == Permutations(Closers)
=============================================================================
