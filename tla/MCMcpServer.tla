----------------------------- MODULE MCMcpServer ----------------------------
(* Instances of McpServer for TLC: short conversations over every kind of    *)
(* message, ended by the peer at any point or not at all.                     *)
EXTENDS McpServer

MCCalls == 1..MaxMessages
MCUnasked == {Unasked}
MCAsked == {1, Unasked}
=============================================================================
