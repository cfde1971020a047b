------------------------- MODULE MCHttpRequestQueue -------------------------
(* Values for the constants of HttpRequestQueue.                           *)
EXTENDS HttpRequestQueue

EvenRequests == {r \in Requests : r % 2 = 0}

=============================================================================
