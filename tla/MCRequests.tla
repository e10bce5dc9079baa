----------------------------- MODULE MCRequests -----------------------------
EXTENDS Requests

\* The name of one workspace lies inside that of another.
Slugs == {"parks", "marine-parks", "everyone"}

ContainedNames ==
    {<<"parks", "parks-VIEWER">>, <<"parks", "marine-parks">>,
     <<"parks", "marine-parks-EDITOR">>, <<"marine-parks", "marine-parks-EDITOR">>,
     <<"parks", "parks-ADMIN">>, <<"parks", "marine-parks-PUBLIC">>,
     <<"marine-parks", "marine-parks-PUBLIC">>, <<"*", "*-SUPER-ADMIN">>}

Caller(kind, names, permissions) ==
    [kind |-> kind, groups |-> names, permissions |-> permissions]

Visitor == Caller("anonymous", {}, {})
Stranger == Caller("invalid", {}, {})
Account == Caller("service", {}, {})
Member ==
    Caller("token",
           {"parks", "parks-VIEWER", "marine-parks", "marine-parks-EDITOR"},
           ({"parks"} \X RoleScopes("Viewer")) \cup ({"marine-parks"} \X RoleScopes("Editor")))
\* The role "Public" reads no metrics and exports nothing.
Operator ==
    Caller("token",
           {"parks", "parks-ADMIN", "marine-parks", "marine-parks-PUBLIC",
            "*", "*-SUPER-ADMIN"},
           ({"parks"} \X RoleScopes("Admin")) \cup ({"marine-parks"} \X RoleScopes("Public"))
             \cup ({"*"} \X RoleScopes("SuperAdmin")))

Everyone == {Visitor, Stranger, Account, Member, Operator}
Groups == {{}, {"parks"}, {"parks", "marine-parks"}}
=============================================================================
