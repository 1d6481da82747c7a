------------------------- MODULE MCWebsocketClient -------------------------
(* A client with a loop of its own, as the websocket processor has it, or two *)
(* clients of one loop.                                                       *)
EXTENDS WebsocketClient

CONSTANTS c1, c2

MCClients == {c1, c2}
Alone == {{c1}}
Together == {{c1, c2}}
=============================================================================
