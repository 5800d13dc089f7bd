------------------------------ MODULE MCClock ------------------------------
(***************************************************************************)
(* A small machine on the clock, wired to meet every use the components    *)
(* make of registers: two registers that exchange their values, a counter  *)
(* that is updated in place, a flag that clears itself, a line raised by   *)
(* two callbacks at once, a derived register whose update sometimes writes *)
(* back, and a second writer that only sometimes meets the first.          *)
(***************************************************************************)
EXTENDS Clock

MCCells == {"a", "b", "count", "flag"}
MCClearing == {"flag"}
MCWires == {"stall"}
MCDerived == {"sum"}
MCCallbacks == {"take", "give", "step", "watch", "signal", "reset"}
MCValue == 0 .. 2

MCCompute(d, cells) == (cells["a"] + cells["count"]) % 3

MCResets(d, cells) == IF cells["b"] = cells["count"] THEN {"b", "count"} ELSE {}

MCWrites(c, v) ==
  CASE c = "take"   -> {"a"}
    [] c = "give"   -> IF v.wires["stall"] THEN {} ELSE {"b"}
    [] c = "step"   -> IF v.cells["flag"] = 0 THEN {"count"} ELSE {}
    [] c = "watch"  -> IF v.derived["sum"] = 2 THEN {"flag"} ELSE {}
    [] c = "signal" -> {}
    [] c = "reset"  -> IF v.cells["flag"] = 2 THEN {"b", "count"} ELSE {}

MCModify(c, r, v, old) ==
  CASE c = "take"  -> v.cells["b"]
    [] c = "give"  -> v.cells["a"]
    [] c = "step"  -> (old + 1) % 3
    [] c = "watch" -> IF v.cells["a"] = v.cells["b"] THEN 1 ELSE 2
    [] OTHER       -> 0

MCRaises(c, v) ==
  CASE c = "watch"  -> IF v.cells["count"] = 1 THEN {"stall"} ELSE {}
    [] c = "signal" -> IF v.cells["a"] # v.cells["b"] THEN {"stall"} ELSE {}
    [] OTHER        -> {}

=============================================================================
