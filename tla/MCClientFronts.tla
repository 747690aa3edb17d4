---------------------------- MODULE MCClientFronts ----------------------------
(* TLC instance of ClientFronts: two calls, through any front each, and a    *)
(* line of another form, or a notification, before, between or behind them.  *)
EXTENDS ClientFronts

Call(f) == Message(f, "call", TRUE)
MCAsks ==
  [r1 |-> {Call("proxy"), ToolCall, MessageCall("message_call")},
   r2 |-> {Call("proxy"), Call("stdio"), StateCall, ControlCall},
   r3 |-> [front : Lines, form : LineForms \ {"call"}, id : {TRUE}]
          \cup {Message("stdio", "call", FALSE), MessageCall("message_noparams"),
                Message("client", "unknown", TRUE)}]
===============================================================================
