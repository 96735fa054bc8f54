--------------------------- MODULE MCMessageHandler ---------------------------
(***************************************************************************)
(* Requests and scripts for TLC.                                           *)
(***************************************************************************)
EXTENDS MessageHandler, TLC

CONSTANTS s1, s2, r1, r2, r3, r4

M(id, subject, reply) ==
    [id |-> id, subject |-> subject, reply |-> reply, parts |-> 2,
     json |-> TRUE, payload |-> TRUE, async |-> FALSE]

Raw(m) == [m EXCEPT !.json = FALSE, !.payload = FALSE]
AsAsync(m) == [m EXCEPT !.async = TRUE]

\* A call; a document that does not decode but has the async flag, answered on the
\* info subject, where its acknowledgement has too few parts and panics; a listing
\* for nobody; a script's description answered on the subject of a script.
ScriptRequests ==
    { M(r1, "script", "inbox"), Raw(AsAsync(M(r2, "script", "info"))),
      M(r3, "names", "none"), M(r4, "info", "script") }

OneRequest == { M(r1, "script", "inbox") }

\* A Lua script whose body fails, and a container or WASM script that panics.
Failing == s1 :> {"plain", "nil"} @@ s2 :> {"html", "panic"}

LuaOnly == s1 :> {"plain", "error", "nil"} @@ s2 :> {"html"}
=============================================================================
