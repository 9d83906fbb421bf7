------------------------------ MODULE MCStartup ------------------------------
(***************************************************************************)
(* Memory maps with rtld, the game, this module and the SDK, in order and  *)
(* with gaps, with code that is no module, also right in front of one,     *)
(* with as many modules as the table has room for and with more, and       *)
(* without this module.  The program has sixteen hooks of as many          *)
(* functions; here are three of two, one of them hooked twice, which the   *)
(* library allows, in a pool of three.                                     *)
(***************************************************************************)
EXTENDS Startup

CONSTANTS ProcessInput, nvnBootstrapLoader

MCFunction == {ProcessInput, nvnBootstrapLoader}
MCPlan == <<ProcessInput, nvnBootstrapLoader, ProcessInput>>

Region(kinds, of) ==
  [i \in DOMAIN kinds |-> [kind |-> kinds[i], of |-> of]]
Module(of) == Region(<<"rx", "r", "rw">>, of)
gap == Region(<<"other">>, "")

MCMaps ==
  {gap \o Module("rtld") \o Module("game") \o Module("self") \o Module("sdk"),
   gap \o Module("rtld") \o gap \o Module("game") \o Region(<<"rw">>, "")
       \o Module("self") \o gap,
   gap \o Module("rtld") \o Module("game") \o Region(<<"rx", "other">>, "")
       \o Module("self"),
   gap \o Module("rtld") \o Module("game") \o Region(<<"rx", "r", "r">>, "")
       \o Module("self") \o Region(<<"rx">>, ""),
   gap \o Module("rtld") \o Module("game") \o Module("a") \o Module("self")
       \o Module("sdk"),
   gap \o Module("rtld") \o Module("game") \o Module("a") \o Module("b")
       \o Module("self") \o Module("sdk"),
   gap \o Module("rtld") \o Module("game") \o Region(<<"rx", "r">>, "self"),
   gap \o Module("rtld") \o Module("game") \o Region(<<"rx">>, "")
       \o Module("self"),
   gap \o Region(<<"rx", "r">>, "") \o Module("rtld") \o Module("game")
       \o Module("self"),
   gap \o Region(<<"rx", "rx">>, "") \o Module("rtld") \o Module("game")
       \o gap \o Module("self")}
=============================================================================
