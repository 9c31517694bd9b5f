--------------------------- MODULE MCDataCutover ---------------------------
(***************************************************************************)
(* Two calls repeat a record without options, the third records another    *)
(* customer under the fingerprint the first two get by default.            *)
(***************************************************************************)
EXTENDS DataCutover, TLC

CONSTANTS i1, i2, i3, r1, r2

MCRecordOf == (i1 :> r1) @@ (i2 :> r1) @@ (i3 :> r2)
MCOptionsOf == (i1 :> Absent) @@ (i2 :> Absent) @@ (i3 :> r1)

(* The same without the third call.                                        *)
MCRecordOfTwo == (i1 :> r1) @@ (i2 :> r1)
MCOptionsOfTwo == (i1 :> Absent) @@ (i2 :> Absent)
============================================================================
