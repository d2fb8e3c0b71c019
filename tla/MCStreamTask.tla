---------------------------- MODULE MCStreamTask ----------------------------
(* Kinds of streams, as sets of pairs of a client's and a server's format. *)
EXTENDS StreamTask

PerProtocol == [client: {"openai", "claude"}, server: {"openai", "anthropic"}]
Crossed == {k \in PerProtocol : Translator(k) # "none"}
OpenaiOnly == {[client |-> "openai", server |-> "openai"]}
ReportsEachTime == {[client |-> "openai", server |-> "chatty"]}
=============================================================================
