------------------------------ MODULE MCLogin ------------------------------
EXTENDS Login

CONSTANTS p1, p2

\* Requests the server must refuse.
MCStrays ==
    {LoginQuery("local_http", None, None),
     LoginQuery("token", LocalUri(p1), None),
     LoginQuery("local_http", [LocalUri(p1) EXCEPT !.scheme = "ftp"], None),
     LoginQuery("local_http", [LocalUri(p1) EXCEPT !.host = "other"], None)}

\* "a b", and a quote, which no scope may hold.
MCScopes == {<<97, 32, 98>>, <<34>>}
=============================================================================
