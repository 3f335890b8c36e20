------------------------- MODULE MCProxyConnection -------------------------
(* ProxyConnection with a few streams of two or three requests.            *)
EXTENDS ProxyConnection, SequencesExt

Unit(r, part, length, fault) ==
  [of |-> r, part |-> part, length |-> length, fault |-> fault]

\* Request r with n units of body.
Request(r, n, fault) ==
  <<Unit(r, "line", 0, "none"), Unit(r, "end", n, fault)>>
    \o [i \in 1 .. n |-> Unit(r, "body", 0, "none")]

\* The body of the last request of the fourth stream does not fit the buffer.
MCStreams ==
  {FlattenSeq(requests) : requests \in
     {<<Request(1, 1, "none"), Request(2, 0, "long"), Request(3, 1, "none")>>,
      <<Request(1, 1, "uri"), Request(2, 1, "none"), Request(3, 0, "length")>>,
      <<Request(1, 0, "method"), Request(2, 0, "line"), Request(3, 1, "headers")>>,
      <<Request(1, 0, "host"), Request(2, 3, "none")>>,
      <<Request(1, 2, "none"), Request(2, 0, "none"), Request(3, 0, "none")>>}}

Answers(h, n, s) ==
  [head |-> h, body |-> n, status |-> s, ok |-> TRUE]

\* Among them one with a status that the proxy uses itself, and one whose head
\* cannot be parsed.
MCResponseShapes ==
  {Answers(2, 4, 200), Answers(2, 0, 400), Answers(4, 1, 500),
   [head |-> 1, body |-> 1, status |-> 200, ok |-> FALSE]}
=============================================================================
