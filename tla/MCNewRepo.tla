---- MODULE MCNewRepo ----
EXTENDS NewRepo

\* Four of the 36 templates: the two of the library that can collide, and one of each shape.
MCTemplates == <<
    <<"LIBPKG", "/", "LIBPKG", ".go">>,
    <<"LIBPKG", "/", "domain", ".go">>,
    <<"cmd", "/", "BINARY", "/", "main.go">>,
    <<"go.mod">>>>
====
