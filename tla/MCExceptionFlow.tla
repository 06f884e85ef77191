---------------------------- MODULE MCExceptionFlow ----------------------------
(* ExceptionFlow over a few methods, for TLC. *)
EXTENDS ExceptionFlow

C(kind, try, handler, catches) ==
  [kind |-> kind, try |-> try, handler |-> handler, catches |-> catches]
Fin(try, handler) == C("finally", try, handler, {})
Fault(try, handler) == C("fault", try, handler, {})
Filter(try, handler) == C("filter", try, handler, {})

(* catchIn:   try { try {0} catch {1} 2 } finally {3} 4                    *)
(* twoFin:    try { try {0} finally {1} } finally {2} 3                    *)
(* finCatch:  try {0} finally { 1 try {2} catch {3} } 4                    *)
(* catchFin:  try {0} catch { 1 try {2} finally {3} } 4                    *)
(* filter:    try {0} filter {2} 3                                         *)
(* faults:    try { try {0} fault {1} } catch 1 {2} catch {3} 4            *)
(* early:     catchIn with a leave out of the catch and the outer try      *)
(* twoFinTry: try { try {0} finally {1} } finally { 2 try {3} catch {4} } 5*)
(* filterOut: try { try {0} catch {1} 3 } filter {2} 4                     *)
(* finInCatch: try {0} catch { 1 try { try {2} finally {3} } catch {4} } 5 *)
(*            with a leave from 2 out of the outer catch                   *)
MCClauses ==
  [m \in Method |->
    CASE m \in {"catchIn", "early"} -> <<C("catch", {0}, {1}, Ex), Fin({0, 1, 2}, {3})>>
      [] m = "twoFin" -> <<Fin({0}, {1}), Fin({0, 1}, {2})>>
      [] m = "finCatch" -> <<C("catch", {2}, {3}, Ex), Fin({0}, {1, 2, 3})>>
      [] m = "catchFin" -> <<Fin({2}, {3}), C("catch", {0}, {1, 2, 3}, Ex)>>
      [] m = "filter" -> <<Filter({0}, {2})>>
      [] m = "faults" -> <<Fault({0}, {1}), C("catch", {0, 1}, {2}, {1}),
                           C("catch", {0, 1}, {3}, Ex)>>
      [] m = "twoFinTry" -> <<Fin({0}, {1}), C("catch", {3}, {4}, Ex), Fin({0, 1}, {2, 3, 4})>>
      [] m = "filterOut" -> <<C("catch", {0}, {1}, Ex), Filter({0, 1, 3}, {2})>>
      [] m = "finInCatch" -> <<Fin({2}, {3}), C("catch", {2, 3}, {4}, Ex), C("catch", {0}, 1..4, Ex)>>]

MCLeaves ==
  [m \in Method |->
    CASE m = "catchIn" -> {<<0, 2>>, <<0, 4>>, <<1, 2>>, <<2, 4>>}
      [] m = "early" -> {<<0, 4>>, <<1, 4>>, <<1, 2>>, <<2, 4>>}
      [] m = "twoFin" -> {<<0, 3>>}
      [] m = "finCatch" -> {<<0, 4>>, <<2, 1>>, <<3, 1>>}
      [] m = "catchFin" -> {<<0, 4>>, <<1, 4>>, <<2, 1>>, <<2, 4>>}
      [] m = "filter" -> {<<0, 3>>, <<2, 3>>}
      [] m = "faults" -> {<<0, 4>>, <<2, 4>>, <<3, 4>>}
      [] m = "twoFinTry" -> {<<0, 5>>, <<3, 2>>, <<4, 2>>}
      [] m = "filterOut" -> {<<0, 3>>, <<1, 3>>, <<2, 4>>, <<3, 4>>}
      [] m = "finInCatch" -> {<<0, 5>>, <<1, 5>>, <<2, 5>>, <<4, 1>>}]

(* The proofs are about Plain methods, and these are not. *)
NotPlain == {"early", "twoFinTry", "filterOut", "finInCatch"}
ASSUME PlainMethods == \A m \in Method : Plain(m) <=> m \notin NotPlain


Points == 0..5
TwoEx == {1, 2}
================================================================================
