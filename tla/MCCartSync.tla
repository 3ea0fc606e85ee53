------------------------------ MODULE MCCartSync ------------------------------
(***************************************************************************)
(* Two carts and two tables.  Cart X is edited three times: x1 puts it on  *)
(* table 1, x2 moves it to table 2, x3 is its checkout.  Cart Y is put on  *)
(* table 2 by y1 and moved to table 1 by y2.                               *)
(***************************************************************************)
EXTENDS CartSync

MCCartOf   == [r \in Requests |-> IF r \in {"x1", "x2", "x3"} THEN "X" ELSE "Y"]
MCTableOf  == [r \in Requests |-> CASE r \in {"x1", "y2"} -> 1
                                    [] r \in {"x2", "y1"} -> 2
                                    [] r = "x3" -> KeepTable
                                    [] OTHER -> NoTable]
MCStatusOf == [r \in Requests |-> IF r = "x3" THEN "CHECKED_OUT" ELSE "OPEN"]
MCStamp    == [r \in Requests |-> IF r \in {"x1", "y1"} THEN 1 ELSE 2]
===============================================================================
