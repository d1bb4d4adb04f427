------------------------------- MODULE MCKdb --------------------------------
(***************************************************************************)
(* Kdb with the mountpoints user:/ and system:/, or user:/ and user:/app.  *)
(***************************************************************************)
EXTENDS KdbInv

Root   == <<>>
User   == <<"user">>
System == <<"system">>
App    == <<"user", "app">>

UserKey   == <<"user", "x">>
OtherKey  == <<"user", "y">>
SystemKey == <<"system", "x">>
AppKey    == <<"user", "app", "x">>

SiblingMounts == {User, System}
SiblingKeys   == {UserKey, SystemKey}
ThreeKeys     == SiblingKeys \union {OtherKey}
NestedMounts  == {User, App}
NestedKeys    == {UserKey, AppKey}

Cascading   == {Root}
Namespaces  == {User, System}
UserOnly    == {User}
UserAndKey  == {User, UserKey}
SystemMount == {System}
AllMounts   == {User, App, System}
AllKeys3    == {UserKey, AppKey, SystemKey}
RootAndUser == {Root, User}
=============================================================================
