------------------------------- MODULE MCHttp -------------------------------
(* URLs that reach each way out of the dispatch, and requests over them. *)
EXTENDS HttpConnection

Url(service, version, query, format, engine) ==
    [wellFormed |-> TRUE, service |-> service, version |-> version, query |-> query,
     format |-> format, engine |-> engine]

MCUris == {"route", "table", "tile", "traffic", "unknown", "options", "broken"}

MCUrlOf ==
    [route   |-> Url("route", 1, "valid", "flatbuffers", "Ok"),
     table   |-> Url("table", 1, "valid", "json", "throws"),
     traffic |-> Url("traffic", 1, "valid", "json", "throws"),
     tile    |-> Url("tile", 1, "valid", "json", "disabled"),
     options |-> Url("nearest", 1, "invalid", "json", "Ok"),
     unknown |-> Url("isochrone", 1, "valid", "json", "Ok"),
     broken  |-> [Url("route", 1, "valid", "json", "Ok") EXCEPT !.wellFormed = FALSE]]

Request(uri, close, accepts) ==
    [uri |-> uri, close |-> close, accepts |-> accepts, malformed |-> FALSE]

MCRequests ==
    {Request("route", FALSE, {"gzip", "deflate"}), Request("table", TRUE, {"deflate"}),
     Request("traffic", FALSE, {}), Request("unknown", TRUE, {}),
     Request("tile", FALSE, {}), Request("options", FALSE, {}), Request("broken", FALSE, {}),
     [Request("route", FALSE, {}) EXCEPT !.malformed = TRUE]}
=============================================================================
