---------------------------- MODULE ShareExchangeMC ----------------------------
(* Values of ShareExchange's constants for TLC.                                *)
EXTENDS ShareExchange

CONSTANT f1

\* Memory always, CPU after a first sample, GPU where the driver reports one.
SomeReadings ==
  {Without([f \in Field |-> Whole], absent) :
     absent \in {{}, {"cpu_user_percent", "cpu_system_percent"}, {"gpu_percent"}}}

\* Another version of rami, a server that states no length, one that states another
\* than it keeps to, one that is not HTTP, one that goes on and on.
OtherAnswers ==
  LET reading == Encode([f \in Field |-> Whole])
      status == Unit("HTTP/1.0", 200)
  IN  {HttpResponse(200, <<Unit("version", 2)>> \o Tail(reading)),
       <<status, BlankLine>> \o reading,
       <<status, Unit("Content-Length", Len(reading) + 1), BlankLine>> \o reading,
       HttpResponse(404, reading),
       reading,
       HttpResponse(200, reading \o reading)}
================================================================================
